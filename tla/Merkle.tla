-------------------------------- MODULE Merkle --------------------------------
(***************************************************************************)
(* The binary Merkle tree of a batch's withdrawals: binaryMerkleProof,     *)
(* which climbs the levels collecting siblings and ends at the root that   *)
(* binaryMerkleRoot computes, and verifyBinaryMerkleProof, which climbs    *)
(* again from a claimed leaf.  A step is one turn of a loop.  Positions    *)
(* are counted from 0, as in the code.  The hash is free: two nodes are    *)
(* equal only if they are built alike.                                     *)
(***************************************************************************)
EXTENDS Integers, Sequences

CONSTANTS
  Leaf,         \* leaves
  MaxLeaves,    \* bound: leaves of a tree
  HashLeaves,   \* options.hashLeaves
  DuplicateOdd  \* options.duplicateOdd

ASSUME MerkleAssumption ==
  /\ MaxLeaves \in Nat /\ HashLeaves \in BOOLEAN /\ DuplicateOdd \in BOOLEAN

VARIABLES
  phase,     \* "prove", "verify", "done"
  leaves,    \* the tree's leaves
  leafIndex, \* the leaf a proof is made for
  level,     \* the level of the tree the proof has reached
  idx,       \* the position of the path in it
  siblings,  \* the proof so far
  trail,     \* history: the nodes of the path, leaf level first,
  steps,     \* and their positions,
  reach,     \* and the positions of the path of the claimed leaf
  root,      \* the root the proof ended at
  claim,     \* the leaf and
  claimed,   \* the index that are verified
  node,      \* what the verification has reached
  at,        \* siblings consumed
  place,     \* the position of the claimed path
  verified

provingVars == <<level, idx, siblings, trail, steps, reach, root>>
verifyingVars == <<node, at, place, verified>>
inputVars == <<leaves, leafIndex, claim, claimed>>
merkleVars == <<phase, inputVars, provingVars, verifyingVars>>

Hash(l, r) == <<l, r>>

LeafNode(l) == IF HashLeaves THEN <<l>> ELSE l

Parity(i) == i % 2
Half(i) == i \div 2

\* Element i, counted from 0.
Nth(s, i) == s[i + 1]

\* Mutant: an odd last node moves up as it is, whatever the options.
NextLevelPromotes(s) ==
  [j \in 1 .. Half(Len(s) + 1) |->
     IF 2 * j <= Len(s) THEN Hash(s[2 * j - 1], s[2 * j]) ELSE s[2 * j - 1]]

\* The level above: pairs hashed, an odd last node paired with itself or moved up.
NextLevel(s) ==
  [j \in 1 .. Half(Len(s) + 1) |->
     IF 2 * j <= Len(s) THEN Hash(s[2 * j - 1], s[2 * j])
     ELSE IF DuplicateOdd THEN Hash(s[2 * j - 1], s[2 * j - 1])
     ELSE s[2 * j - 1]]

\* Mutant: the neighbour to the right, of a right node too.
SiblingOnTheRight(i) == i + 1

SiblingIdx(i) == IF Parity(i) = 1 THEN i - 1 ELSE i + 1

\* The proof with what it takes from a level: the sibling, or the node itself
\* if it is paired with itself, or nothing if it moves up.
Extended(path, s, i) ==
  IF SiblingIdx(i) < Len(s) THEN Append(path, Nth(s, SiblingIdx(i)))
  ELSE IF DuplicateOdd THEN Append(path, Nth(s, i))
  ELSE path

Trees == UNION {[1 .. n -> Leaf] : n \in 1 .. MaxLeaves}

\* An index out of range is refused before any work.
MerkleInit ==
  /\ phase = "prove"
  /\ leaves \in Trees
  /\ leafIndex \in 0 .. Len(leaves) - 1
  /\ claim \in Leaf /\ claimed \in 0 .. Len(leaves) - 1
  /\ level = [j \in 1 .. Len(leaves) |-> LeafNode(leaves[j])]
  /\ idx = leafIndex
  /\ siblings = <<>>
  /\ trail = <<LeafNode(Nth(leaves, leafIndex))>>
  /\ steps = <<leafIndex>> /\ reach = <<claimed>>
  /\ root = <<>>
  /\ node = <<>> /\ at = 0 /\ place = 0
  /\ verified = FALSE

Climb ==
  /\ phase = "prove" /\ Len(level) > 1
  /\ siblings' = Extended(siblings, level, idx)
  /\ level' = NextLevel(level)
  /\ idx' = Half(idx)
  /\ trail' = Append(trail, Nth(level', idx'))
  /\ steps' = Append(steps, idx')
  /\ reach' = Append(reach, Half(reach[Len(reach)]))
  /\ UNCHANGED <<phase, root, inputVars, verifyingVars>>

Rooted ==
  /\ phase = "prove" /\ Len(level) = 1
  /\ root' = Nth(level, 0)
  /\ phase' = "verify"
  /\ node' = LeafNode(claim) /\ at' = 0 /\ place' = claimed
  /\ UNCHANGED <<level, idx, siblings, trail, steps, reach, verified, inputVars>>

\* The parent of a node at position i.
Join(i, n, sibling) ==
  IF Parity(i) = 1 THEN Hash(sibling, n) ELSE Hash(n, sibling)

VerifyStep ==
  /\ phase = "verify" /\ at < Len(siblings)
  /\ node' = Join(place, node, Nth(siblings, at))
  /\ at' = at + 1
  /\ place' = Half(place)
  /\ UNCHANGED <<phase, verified, inputVars, provingVars>>

\* Mutant: the two are the same length, and that is taken for equal.
SameLength == TRUE

SameBytes == node = root

Decide ==
  /\ phase = "verify" /\ at = Len(siblings)
  /\ verified' = SameBytes
  /\ phase' = "done"
  /\ UNCHANGED <<node, at, place, inputVars, provingVars>>

MerkleNext == Climb \/ Rooted \/ VerifyStep \/ Decide

MerkleSpec == MerkleInit /\ [][MerkleNext]_merkleVars

\* The loops stay within their bounds.
MerkleTypeOK ==
  /\ phase \in {"prove", "verify", "done"}
  /\ Len(leaves) \in 1 .. MaxLeaves /\ Len(level) \in 1 .. Len(leaves)
  /\ leafIndex \in 0 .. Len(leaves) - 1 /\ claimed \in 0 .. Len(leaves) - 1
  /\ idx \in 0 .. Len(level) - 1
  /\ at \in 0 .. Len(siblings)
  /\ verified \in BOOLEAN

(***************************************************************************)
(* Properties.                                                             *)
(***************************************************************************)

\* The proof made for a leaf verifies for that leaf at that index, in a tree
\* of any shape.
HonestProofVerifies ==
  phase = "done" /\ claimed = leafIndex /\ claim = Nth(leaves, leafIndex) => verified

\* A proof verifies no leaf at an index of the tree where another one is.
ProofBindsLeaf ==
  phase = "done" /\ verified => claim = Nth(leaves, claimed)

(***************************************************************************)
(* The inductive invariant behind HonestProofVerifies.                     *)
(***************************************************************************)

IsSeq(s) == s \in Seq({s[i] : i \in DOMAIN s})

\* The proof so far joins each node of the path to the next one.
PathInv ==
  /\ IsSeq(level) /\ IsSeq(siblings) /\ IsSeq(trail) /\ IsSeq(steps)
  /\ Len(trail) = Len(siblings) + 1 /\ Len(steps) = Len(trail)
  /\ trail[1] = LeafNode(Nth(leaves, leafIndex)) /\ steps[1] = leafIndex
  /\ trail[Len(trail)] = Nth(level, idx) /\ steps[Len(steps)] = idx
  /\ \A n \in 1 .. Len(siblings) :
       /\ steps[n + 1] = Half(steps[n])
       /\ trail[n + 1] = Join(steps[n], trail[n], siblings[n])

\* An honest verification goes up the same path.
ClimbInv ==
  phase # "prove" =>
    /\ root = trail[Len(trail)]
    /\ claimed = leafIndex /\ claim = Nth(leaves, leafIndex) =>
         node = trail[at + 1] /\ place = steps[at + 1]
    /\ phase = "done" => at = Len(siblings) /\ (verified <=> node = root)

MerkleInv == MerkleTypeOK /\ PathInv /\ ClimbInv

(***************************************************************************)
(* What ProofBindsLeaf needs beside it.                                    *)
(***************************************************************************)

\* Up to level n, the claimed path may pass through the nodes of the proof's
\* own path: the siblings give the same parents on either side.
Shared(n) ==
  \A m \in 1 .. n : Join(reach[m], trail[m], siblings[m]) = trail[m + 1]

\* If the two paths meet in a node and are shared below it, they start from
\* equal leaves; and a verification that is on the path has been from the start.
ReachInv ==
  /\ IsSeq(reach) /\ Len(reach) = Len(steps)
  /\ reach[1] = claimed /\ reach[Len(reach)] \in 0 .. Len(level) - 1
  /\ \A n \in 1 .. Len(siblings) : reach[n + 1] = Half(reach[n])
  /\ Shared(Len(siblings)) /\ Nth(level, reach[Len(reach)]) = trail[Len(trail)] =>
       Nth(leaves, claimed) = Nth(leaves, leafIndex)
  /\ phase # "prove" =>
       /\ Len(level) = 1
       /\ phase = "verify" => place = reach[at + 1]
       /\ node = trail[at + 1] => Shared(at) /\ claim = Nth(leaves, leafIndex)

(***************************************************************************)
(* The tree as a reference: each level is half as wide as the one below    *)
(* it, rounded up, and its node i stands over nodes 2i and 2i+1 of that    *)
(* level, where it has both.                                               *)
(***************************************************************************)
Depths == 0 .. MaxLeaves

Widths(n) ==
  LET w[l \in Depths] == IF l = 0 THEN n ELSE Half(w[l - 1] + 1)
  IN w

\* The level over below, which is width wide.
Over(below, width) ==
  [i \in 0 .. Half(width + 1) - 1 |->
     IF 2 * i + 1 < width THEN Hash(below[2 * i], below[2 * i + 1])
     ELSE IF DuplicateOdd THEN Hash(below[2 * i], below[2 * i])
     ELSE below[2 * i]]

RefTree(tree) ==
  LET n == Len(tree)
      t[l \in Depths] ==
        IF l = 0 THEN [i \in 0 .. n - 1 |-> LeafNode(Nth(tree, i))]
        ELSE Over(t[l - 1], Widths(n)[l - 1])
  IN t

\* The root is the one node at the top of the reference tree, whichever leaf
\* was climbed from.
RootIsReference ==
  phase # "prove" =>
    LET top == Len(trail) - 1 IN
    /\ Widths(Len(leaves))[top] = 1
    /\ root = RefTree(leaves)[top][0]

\* The level that a proof has reached is that of the reference tree.
TreeInv ==
  /\ IsSeq(trail) /\ Len(trail) >= 1 /\ IsSeq(level) /\ Len(level) >= 1
  /\ Len(leaves) \in 1 .. MaxLeaves
  /\ LET l == Len(trail) - 1 IN
     /\ l + Len(level) <= Len(leaves)
     /\ Len(level) = Widths(Len(leaves))[l]
     /\ \A i \in 0 .. Len(level) - 1 : Nth(level, i) = RefTree(leaves)[l][i]
  /\ phase # "prove" => Len(level) = 1 /\ root = Nth(level, 0)

==============================================================================
