-------------------------------- MODULE MCWire --------------------------------
(* What leaves for the chain and comes back: withdrawal trees, transaction     *)
(* messages, cross-VM calls, and transition roots and withdrawals.  They share *)
(* no state; a behaviour is about one of them and leaves the others at one     *)
(* initial state.                                                              *)
EXTENDS Merkle, Codec, CrossVm, Withdrawal

CONSTANTS w1, w2

VARIABLE subject

withdrawalVars == <<vars, wVars>>
wireVars == <<subject, merkleVars, codecVars, crossVmVars, withdrawalVars>>

\* Lengths around the word boundary, and bytes that look like ABI words.
MyContracts == {<<1, 2, 1>>, <<2, 0>>}
MyPayloads == {<<>>, <<0>>, <<3, 1>>, <<1, 0, 2>>, <<0, 0, 0, 1>>, <<0, 2, 0, 1, 2, 2>>}

\* The edges of the integers.
MyInts == {-(MaxInt + 1), -1, 0, MaxInt}
MyUints == {0, Modulus - 1}

\* Two lists of two withdrawals and their roots under both encodings.
MyLists == {<<w1, w2>>, <<w2, w1>>}
MyRoots == Forms \X MyLists

\* To a withdrawer a batch is its withdrawals, its height and its end: previous
\* roots and roots that are no hash of anything play no part.  To a challenger
\* withdrawals roots are alike or not, and two of them are enough.
WhatCounts(b) ==
  IF role = "withdrawer" THEN b.prev # EmptyPrev /\ b.root # Other ELSE b.wroot[1] = "v2"

BatchesThatCount ==
  /\ \A i \in Indexes : batches[i] # NoBatch => WhatCounts(batches[i])
  /\ draft # NoBatch => draft.wroot[1] = "v2"

\* Withdrawals that can be paid are compared for equality only.
PayeeSymmetry == Permutations({w1, w2})

MerkleIdle ==
  LET l == CHOOSE x \in Leaf : TRUE IN
  leaves = <<l>> /\ leafIndex = 0 /\ claim = l /\ claimed = 0 /\ MerkleInit

CodecIdle == msgType = "MsgStopRollup" /\ CodecInit

CrossVmIdle ==
  /\ active = FALSE /\ enabled = FALSE /\ allowed = {} /\ abi = FALSE
  /\ call = (CHOOSE c \in Calls : TRUE)
  /\ CrossVmInit

WithdrawalIdle == serves = FALSE /\ role = "challenger" /\ WInit

WireInit ==
  \/ subject = "merkle" /\ MerkleInit /\ CodecIdle /\ CrossVmIdle /\ WithdrawalIdle
  \/ subject = "codec" /\ MerkleIdle /\ CodecInit /\ CrossVmIdle /\ WithdrawalIdle
  \/ subject = "crossvm" /\ MerkleIdle /\ CodecIdle /\ CrossVmInit /\ WithdrawalIdle
  \/ subject = "withdrawal" /\ MerkleIdle /\ CodecIdle /\ CrossVmIdle /\ WInit

WireNext ==
  \/ subject = "merkle" /\ MerkleNext
       /\ UNCHANGED <<subject, codecVars, crossVmVars, withdrawalVars>>
  \/ subject = "codec" /\ CodecNext
       /\ UNCHANGED <<subject, merkleVars, crossVmVars, withdrawalVars>>
  \/ subject = "crossvm" /\ CrossVmNext
       /\ UNCHANGED <<subject, merkleVars, codecVars, withdrawalVars>>
  \/ subject = "withdrawal" /\ WNext
       /\ UNCHANGED <<subject, merkleVars, codecVars, crossVmVars>>

WireSpec == WireInit /\ [][WireNext]_wireVars

=============================================================================
