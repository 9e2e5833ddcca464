--------------------------- MODULE SettlementChain ---------------------------
(***************************************************************************)
(* The settlement state of one optimistic rollup on the chain, as far as   *)
(* the toolkit reads it.  The chain is not part of the repository: its     *)
(* rules are the ones the toolkit's code, comments and guides rely on.     *)
(* Three chain versions matter:                                            *)
(*   0  before v3.2.4: block-count windows, the node does not report the   *)
(*      rollup's own window;                                               *)
(*   1  v3.2.4: a batch records its submission time, the window is         *)
(*      reported;                                                          *)
(*   2  v3.2.5 (rdk-challenge-settlement): batches finalize in order, an   *)
(*      upheld fraud rejects every later batch that is not final, and the  *)
(*      sequencer resubmits under the same indexes.                        *)
(***************************************************************************)
EXTENDS Integers, FiniteSets, ChallengeWindow

CONSTANTS
  Roots,          \* state roots a batch may publish
  MaxBatches,     \* bound: batch indexes are 0 .. MaxBatches - 1
  MaxSubmissions, \* bound: submissions under one index
  MaxHeight,      \* bound: chain height
  BlockSecs,      \* seconds by which a block may advance block time
  MaxPending,     \* MAX_PENDING_OPTIMISTIC_BATCHES
  RollupWindow,   \* the rollup's own challenge window, seconds
  FirstVersion,   \* chain version at the start
  LastVersion     \* bound: no upgrade past this version

ASSUME ChainAssumption ==
  /\ MaxBatches \in Nat /\ MaxSubmissions \in Nat /\ MaxHeight \in Nat
  /\ BlockSecs \subseteq Nat
  /\ MaxPending \in Nat /\ RollupWindow \in Nat
  /\ FirstVersion \in 0 .. 2 /\ LastVersion \in FirstVersion .. 2

VARIABLES
  batches,  \* index -> the batch stored under it (NoBatch at and past count)
  count,    \* indexes used so far are 0 .. count - 1
  chainTip, \* height and time of the newest block
  version   \* chain version in force

chainVars == <<batches, count, chainTip, version>>

Indexes == 0 .. MaxBatches - 1

BatchStatus == {"submitted", "challenged", "finalized", "rejected"}

(***************************************************************************)
(* What a batch view carries.  valid says whether the published root is    *)
(* the canonical transition root of the batch's inputs; submission counts  *)
(* the submissions under the index (it is not visible to a client).        *)
(***************************************************************************)
BatchView ==
  [stateRoot : Roots, valid : BOOLEAN, status : BatchStatus,
   submittedAt : Nat, submittedTime : Nat, finalizedAt : Nat,
   submission : Nat \ {0}]

NoBatch == [status |-> "none", submission |-> 0]

Live(b) == b.status \in {"submitted", "challenged"}

\* Final in the sense of isBatchFinal: no status follows.
Settled(b) == b.status \in {"finalized", "rejected"}

\* v3.2.5 reuses the rejected indexes at the end of the list, the first one
\* first; before it an index is never reused.
Reusable ==
  {i \in 0 .. count - 1 : \A j \in i .. count - 1 : batches[j].status = "rejected"}

IsNextIndex(i) ==
  IF version = 2 /\ Reusable # {}
  THEN i \in Reusable /\ \A j \in Reusable : i <= j
  ELSE i = count

\* From v3.2.5 a batch waits for every earlier one.
MayFinalize(i) == version = 2 => \A j \in 0 .. i - 1 : Settled(batches[j])

ChainTypeOK ==
  /\ count \in 0 .. MaxBatches
  /\ batches \in [Indexes -> BatchView \cup {NoBatch}]
  /\ \A i \in Indexes : IF i < count THEN batches[i] \in BatchView ELSE batches[i] = NoBatch
  /\ chainTip \in TipType
  /\ version \in FirstVersion .. LastVersion

ChainInit ==
  /\ batches = [i \in Indexes |-> NoBatch]
  /\ count = 0
  /\ chainTip = [height |-> 1, timeSecs |-> 1]
  /\ version = FirstVersion

NewBlock ==
  /\ chainTip.height < MaxHeight
  /\ \E d \in BlockSecs :
       chainTip' = [height |-> chainTip.height + 1, timeSecs |-> chainTip.timeSecs + d]
  /\ UNCHANGED <<batches, count, version>>

\* An upgrade plan is applied.
Upgrade ==
  /\ version < LastVersion
  /\ version' = version + 1
  /\ UNCHANGED <<batches, count, chainTip>>

\* The sequencer's batch is included.
SubmitBatch(i, root, ok) ==
  /\ IsNextIndex(i)
  /\ batches[i].submission < MaxSubmissions
  /\ version = 2 => Cardinality({j \in Indexes : Live(batches[j])}) < MaxPending
  /\ batches' = [batches EXCEPT ![i] =
       [stateRoot |-> root, valid |-> ok, status |-> "submitted",
        submittedAt |-> chainTip.height,
        submittedTime |-> IF version = 0 THEN 0 ELSE chainTip.timeSecs,
        finalizedAt |-> 0, submission |-> batches[i].submission + 1]]
  /\ count' = IF i = count THEN count + 1 ELSE count
  /\ UNCHANGED <<chainTip, version>>

Challenge(i) ==
  /\ batches[i].status = "submitted"
  /\ WindowOpen(batches[i], RollupWindow, chainTip)
  /\ batches' = [batches EXCEPT ![i].status = "challenged"]
  /\ UNCHANGED <<count, chainTip, version>>

\* The outcome of a challenge is computed on chain: fraud is upheld exactly
\* when the published root is not the canonical one.
UpholdFraud(i) ==
  /\ batches[i].status = "challenged"
  /\ ~batches[i].valid
  /\ batches' = [j \in Indexes |->
       IF j = i \/ (version = 2 /\ j > i /\ Live(batches[j]))
       THEN [batches[j] EXCEPT !.status = "rejected"]
       ELSE batches[j]]
  /\ UNCHANGED <<count, chainTip, version>>

FinalizedNow(i) ==
  [batches EXCEPT ![i].status = "finalized", ![i].finalizedAt = chainTip.height]

DismissChallenge(i) ==
  /\ batches[i].status = "challenged"
  /\ batches[i].valid
  /\ MayFinalize(i)
  /\ batches' = FinalizedNow(i)
  /\ UNCHANGED <<count, chainTip, version>>

FinalizeBatch(i) ==
  /\ batches[i].status = "submitted"
  /\ WindowFinalizable(batches[i], RollupWindow, chainTip)
  /\ MayFinalize(i)
  /\ batches' = FinalizedNow(i)
  /\ UNCHANGED <<count, chainTip, version>>

ChainNext ==
  \/ NewBlock
  \/ Upgrade
  \/ \E i \in Indexes, root \in Roots, ok \in BOOLEAN : SubmitBatch(i, root, ok)
  \/ \E i \in Indexes : \/ Challenge(i)
                        \/ UpholdFraud(i)
                        \/ DismissChallenge(i)
                        \/ FinalizeBatch(i)

==============================================================================
