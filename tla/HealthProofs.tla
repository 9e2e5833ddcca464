----------------------------- MODULE HealthProofs -----------------------------
(***************************************************************************)
(* What the rollup monitor reports, for every number of batches, every     *)
(* page size and every limit of pending batches.                           *)
(*                                                                         *)
(* The search for the batch that holds the latest one back looks no        *)
(* further than MAX_PENDING_OPTIMISTIC_BATCHES before it.  That this is    *)
(* far enough is a fact about the chain: from v3.2.5 its list is final     *)
(* batches, then unsettled ones, then rejected ones, so the unsettled      *)
(* batches up to the latest lie side by side, and they are no more than    *)
(* the limit.                                                              *)
(***************************************************************************)
EXTENDS HealthMonitor, FiniteSetTheorems, WellFoundedInduction, TLAPS

(***************************************************************************)
(* The chain.                                                              *)
(***************************************************************************)

\* The facts about the bounds that every step uses.
LEMMA Bounds ==
  /\ MaxBatches \in Nat /\ MaxPending \in Nat /\ RollupWindow \in Nat
  /\ DefaultWindow \in Nat /\ PageSize \in Nat /\ PageSize > 0 /\ MaxFaults \in Nat
  /\ BlockSecs \subseteq Nat /\ FirstVersion \in 0 .. 2 /\ LastVersion \in FirstVersion .. 2
  /\ \A i \in Indexes : i \in Nat /\ i < MaxBatches
BY ChainAssumption, HealthAssumption DEF Indexes

\* A batch with a status is one of the list.
LEMMA Listed ==
  ASSUME ChainTypeOK, NEW i \in Indexes, batches[i].status # "none"
  PROVE  i < count /\ batches[i] \in BatchView
<1>1. batches[i] # NoBatch
  BY DEF NoBatch
<1> QED BY <1>1 DEF ChainTypeOK

\* Every step of the chain keeps its state in its type.
LEMMA ChainTyped ==
  ASSUME ChainTypeOK, ChainNext
  PROVE  ChainTypeOK' /\ count <= count' /\ version <= version'
<1> DEFINE Goal == ChainTypeOK' /\ count <= count' /\ version <= version'
<1>1. /\ count \in Nat /\ count <= MaxBatches /\ version \in Nat
      /\ chainTip \in TipType /\ chainTip.height \in Nat /\ chainTip.timeSecs \in Nat
  BY Bounds DEF ChainTypeOK, TipType
<1>2. CASE NewBlock
  <2>1. PICK d \in BlockSecs :
          chainTip' = [height |-> chainTip.height + 1, timeSecs |-> chainTip.timeSecs + d]
    BY <1>2 DEF NewBlock
  <2>2. chainTip' \in TipType
    BY <1>1, <2>1, Bounds DEF TipType
  <2> QED BY <1>1, <1>2, <2>2 DEF NewBlock, ChainTypeOK
<1>3. CASE Upgrade
  BY <1>1, <1>3, Bounds DEF Upgrade, ChainTypeOK
<1>4. ASSUME NEW i \in Indexes, NEW root \in Roots, NEW ok \in BOOLEAN, SubmitBatch(i, root, ok)
      PROVE  Goal
  <2> DEFINE new == [stateRoot |-> root, valid |-> ok, status |-> "submitted",
                     submittedAt |-> chainTip.height,
                     submittedTime |-> IF version = 0 THEN 0 ELSE chainTip.timeSecs,
                     finalizedAt |-> 0, submission |-> batches[i].submission + 1]
  <2>1. /\ batches' = [batches EXCEPT ![i] = new]
        /\ count' = (IF i = count THEN count + 1 ELSE count)
        /\ UNCHANGED <<chainTip, version>>
    BY <1>4 DEF SubmitBatch
  <2>2. i <= count
    BY <1>1, <1>4, Bounds DEF SubmitBatch, IsNextIndex, Reusable
  <2>3. batches[i].submission \in Nat
    BY DEF ChainTypeOK, BatchView, NoBatch
  <2>4. new \in BatchView
    BY <1>1, <2>3 DEF BatchView, BatchStatus
  <2> HIDE DEF new
  <2>5. /\ batches' \in [Indexes -> BatchView \cup {NoBatch}]
        /\ \A j \in Indexes : batches'[j] = IF j = i THEN new ELSE batches[j]
    BY <2>1, <2>4 DEF ChainTypeOK
  <2>6. /\ count' \in 0 .. MaxBatches /\ count <= count' /\ i < count'
        /\ \A j \in Indexes : j # i => (j < count' <=> j < count)
    BY <1>1, <2>1, <2>2, Bounds
  <2> QED BY <1>1, <2>1, <2>4, <2>5, <2>6 DEF ChainTypeOK
<1>5. ASSUME NEW i \in Indexes,
             Challenge(i) \/ UpholdFraud(i) \/ DismissChallenge(i) \/ FinalizeBatch(i)
      PROVE  Goal
  <2>1. UNCHANGED <<count, chainTip, version>>
    BY <1>5 DEF Challenge, UpholdFraud, DismissChallenge, FinalizeBatch
  <2>2. i < count /\ batches[i] \in BatchView
    BY <1>5, Listed DEF Challenge, UpholdFraud, DismissChallenge, FinalizeBatch
  <2>3. ASSUME NEW c \in BatchView, batches' = [batches EXCEPT ![i] = c]
        PROVE  Goal
    <3>1. /\ batches' \in [Indexes -> BatchView \cup {NoBatch}]
          /\ \A j \in Indexes : batches'[j] = IF j = i THEN c ELSE batches[j]
      BY <2>3 DEF ChainTypeOK
    <3> QED BY <1>1, <2>1, <2>2, <3>1 DEF ChainTypeOK
  <2> HIDE DEF Goal
  <2>4. CASE Challenge(i)
    <3> DEFINE c == [batches[i] EXCEPT !.status = "challenged"]
    <3>1. c \in BatchView
      BY <2>2 DEF BatchView, BatchStatus
    <3>2. batches' = [batches EXCEPT ![i] = c]
      BY <2>4 DEF Challenge
    <3> HIDE DEF c
    <3> QED BY <2>3, <3>1, <3>2
  <2>5. CASE UpholdFraud(i)
    <3> DEFINE rej(j) == [batches[j] EXCEPT !.status = "rejected"]
    <3>1. \A j \in Indexes : j < count => rej(j) \in BatchView
      BY DEF ChainTypeOK, BatchView, BatchStatus
    <3>2. \A j \in Indexes : ~(j < count) => j # i /\ ~Live(batches[j])
      BY <2>2 DEF ChainTypeOK, NoBatch, Live
    <3> HIDE DEF rej
    <3>3. batches' = [j \in Indexes |->
             IF j = i \/ (version = 2 /\ j > i /\ Live(batches[j])) THEN rej(j) ELSE batches[j]]
      BY <2>5 DEF UpholdFraud, rej
    <3>4. \A j \in Indexes : batches'[j] = batches[j] \/ (j < count /\ batches'[j] = rej(j))
      BY <2>2, <3>2, <3>3
    <3>5. \A j \in Indexes :
            IF j < count THEN batches'[j] \in BatchView ELSE batches'[j] = NoBatch
      BY <3>1, <3>4 DEF ChainTypeOK
    <3>6. batches' \in [Indexes -> BatchView \cup {NoBatch}]
      BY <3>3, <3>5
    <3> QED BY <1>1, <2>1, <3>5, <3>6 DEF ChainTypeOK, Goal
  <2>6. CASE DismissChallenge(i) \/ FinalizeBatch(i)
    <3> DEFINE c == [batches[i] EXCEPT !.status = "finalized", !.finalizedAt = chainTip.height]
    <3>1. c \in BatchView
      BY <1>1, <2>2 DEF BatchView, BatchStatus
    <3>2. batches' = [batches EXCEPT ![i] = c]
      BY <2>6 DEF DismissChallenge, FinalizeBatch, FinalizedNow
    <3> HIDE DEF c
    <3> QED BY <2>3, <3>1, <3>2
  <2> QED BY <1>5, <2>4, <2>5, <2>6
<1> QED BY <1>2, <1>3, <1>4, <1>5 DEF ChainNext

\* From v3.2.5 the list is final batches, unsettled ones, rejected ones.
Ordered ==
  \A i, j \in Indexes : j < i /\ i < count =>
    /\ batches[i].status = "finalized" => batches[j].status = "finalized"
    /\ batches[j].status = "rejected" => batches[i].status = "rejected"

LiveSet == {j \in Indexes : Live(batches[j])}

\* What a chain that has been at v3.2.5 from the start keeps.
ChainInOrder == version = 2 /\ Ordered /\ Cardinality(LiveSet) <= MaxPending

\* The live batches can be counted.
LEMMA LiveSetFinite == IsFiniteSet(Indexes) /\ IsFiniteSet(LiveSet) /\ Cardinality(LiveSet) \in Nat
<1>1. IsFiniteSet(Indexes)
  BY Bounds, FS_Interval DEF Indexes
<1>2. LiveSet \in SUBSET Indexes
  BY DEF LiveSet
<1> QED BY <1>1, <1>2, FS_Subset, FS_CardinalityType

\* Every step of a chain at v3.2.5 keeps the order and the limit.
LEMMA ChainOrdered ==
  ASSUME ChainTypeOK, ChainInOrder, ChainNext, LastVersion = 2
  PROVE  ChainInOrder'
<1> DEFINE statusOf(i) == batches[i].status
<1>1. ChainTypeOK' /\ version' = 2 /\ count \in Nat /\ count' \in Nat
  <2>1. ChainTypeOK' /\ version <= version'
    BY ChainTyped
  <2> QED BY <2>1, Bounds DEF ChainTypeOK, ChainInOrder
<1>2. ASSUME LiveSet' \subseteq LiveSet PROVE (Cardinality(LiveSet) <= MaxPending)'
  <2>1. Cardinality(LiveSet') <= Cardinality(LiveSet) /\ Cardinality(LiveSet') \in Nat
    BY <1>2, LiveSetFinite, FS_Subset, FS_CardinalityType
  <2> QED BY <2>1, LiveSetFinite, Bounds DEF ChainInOrder
<1>3. CASE NewBlock \/ Upgrade
  <2>1. batches' = batches /\ count' = count
    BY <1>3 DEF NewBlock, Upgrade
  <2>2. LiveSet' \subseteq LiveSet
    BY <2>1 DEF LiveSet
  <2> QED BY <1>1, <1>2, <2>1, <2>2 DEF ChainInOrder, Ordered
<1>4. ASSUME NEW i \in Indexes, NEW root \in Roots, NEW ok \in BOOLEAN, SubmitBatch(i, root, ok)
      PROVE  ChainInOrder'
  <2>1. /\ \A j \in Indexes : j # i => batches'[j] = batches[j]
        /\ batches'[i].status = "submitted"
        /\ count' = (IF i = count THEN count + 1 ELSE count)
        /\ Cardinality(LiveSet) < MaxPending
    BY <1>4 DEF SubmitBatch, ChainTypeOK, ChainInOrder, LiveSet
  <2>2. ASSUME NEW k \in Indexes, k < i PROVE statusOf(k) # "rejected"
    <3> SUFFICES ASSUME statusOf(k) = "rejected" PROVE FALSE
      OBVIOUS
    <3>1. k < count
      BY <1>1, Bounds, Listed
    <3>2. \A j \in k .. count - 1 : j \in Indexes /\ statusOf(j) = "rejected"
      BY <1>1, <3>1, Bounds DEF ChainInOrder, Ordered, ChainTypeOK, Indexes
    <3>3. k \in Reusable
      BY <1>1, <3>1, <3>2, Bounds DEF Reusable
    <3>4. i \in Reusable /\ \A j \in Reusable : i <= j
      BY <1>4, <3>3 DEF SubmitBatch, IsNextIndex, ChainInOrder
    <3> QED BY <2>2, <3>3, <3>4, Bounds
  <2>3. ASSUME NEW k \in Indexes, i < k, k < count PROVE statusOf(k) = "rejected"
    <3>1. i # count
      BY <2>3, Bounds, <1>1
    <3>2. i \in Reusable
      BY <1>4, <3>1 DEF SubmitBatch, IsNextIndex
    <3> QED BY <1>1, <2>3, <3>2, Bounds DEF Reusable
  <2>4. Ordered'
    <3> SUFFICES ASSUME NEW a \in Indexes, NEW b \in Indexes, b < a, a < count'
                 PROVE  /\ batches'[a].status = "finalized" => batches'[b].status = "finalized"
                        /\ batches'[b].status = "rejected" => batches'[a].status = "rejected"
      BY DEF Ordered
    <3>1. CASE a = i
      BY <2>1, <2>2, <3>1, Bounds
    <3>2. CASE b = i
      <4>1. a < count
        BY <1>1, <2>1, <3>2, Bounds
      <4> QED BY <2>1, <2>3, <3>2, <4>1, Bounds
    <3>3. CASE a # i /\ b # i
      <4>1. a < count
        BY <1>1, <2>1, <3>3, Bounds
      <4> QED BY <2>1, <3>3, <4>1 DEF ChainInOrder, Ordered
    <3> QED BY <3>1, <3>2, <3>3
  <2>5. LiveSet' \subseteq LiveSet \cup {i}
    BY <2>1 DEF LiveSet, Live
  <2>6. (Cardinality(LiveSet) <= MaxPending)'
    <3>1. IsFiniteSet(LiveSet \cup {i}) /\ Cardinality(LiveSet \cup {i}) <= Cardinality(LiveSet) + 1
      <4>1. /\ IsFiniteSet(LiveSet \cup {i})
            /\ Cardinality(LiveSet \cup {i}) =
                 IF i \in LiveSet THEN Cardinality(LiveSet) ELSE Cardinality(LiveSet) + 1
        BY LiveSetFinite, FS_AddElement, Zenon
      <4> QED BY <4>1, LiveSetFinite
    <3>2. Cardinality(LiveSet') <= Cardinality(LiveSet \cup {i}) /\ Cardinality(LiveSet') \in Nat
      BY <2>5, <3>1, FS_Subset, FS_CardinalityType
    <3>3. Cardinality(LiveSet \cup {i}) \in Nat
      BY <3>1, FS_CardinalityType
    <3> QED BY <2>1, <3>1, <3>2, <3>3, LiveSetFinite, Bounds
  <2> QED BY <1>1, <2>4, <2>6 DEF ChainInOrder
<1>5. ASSUME NEW i \in Indexes,
             Challenge(i) \/ UpholdFraud(i) \/ DismissChallenge(i) \/ FinalizeBatch(i)
      PROVE  ChainInOrder'
  <2>1. count' = count /\ version = 2
    BY <1>5 DEF Challenge, UpholdFraud, DismissChallenge, FinalizeBatch, ChainInOrder
  <2>2. Live(batches[i])
    BY <1>5 DEF Challenge, UpholdFraud, DismissChallenge, FinalizeBatch, Live
  <2>3. i < count /\ \A j \in Indexes : j < count => batches[j].status \in BatchStatus
    BY <1>5, <2>2, Listed DEF Live, ChainTypeOK, BatchView
  <2>4. \A j \in Indexes : j < i => statusOf(j) # "rejected"
    BY <2>2, <2>3 DEF ChainInOrder, Ordered, Live
  <2>5. \A j \in Indexes : i < j /\ j < count => statusOf(j) # "finalized"
    BY <2>2, <2>3 DEF ChainInOrder, Ordered, Live
  <2>6. CASE Challenge(i)
    <3>1. \A j \in Indexes : batches'[j].status = IF j = i THEN "challenged" ELSE statusOf(j)
      BY <2>3, <2>6, Listed DEF Challenge, ChainTypeOK, BatchView
    <3>2. LiveSet' \subseteq LiveSet
      BY <2>2, <3>1 DEF LiveSet, Live
    <3>3. Ordered'
      BY <2>1, <2>4, <2>5, <3>1 DEF Ordered, ChainInOrder
    <3> QED BY <1>1, <1>2, <3>2, <3>3 DEF ChainInOrder
  <2>7. CASE UpholdFraud(i)
    <3>1. \A j \in Indexes : batches'[j].status =
            IF j = i \/ (j > i /\ Live(batches[j])) THEN "rejected" ELSE statusOf(j)
      <4>1. \A j \in Indexes : batches'[j] =
              IF j = i \/ (j > i /\ Live(batches[j]))
              THEN [batches[j] EXCEPT !.status = "rejected"] ELSE batches[j]
        BY <2>1, <2>7 DEF UpholdFraud
      <4>2. \A j \in Indexes : j = i \/ Live(batches[j]) => batches[j] \in BatchView
        BY <2>2, Listed DEF Live
      <4>3. \A j \in Indexes : j = i \/ Live(batches[j]) =>
              [batches[j] EXCEPT !.status = "rejected"].status = "rejected"
        BY <4>2 DEF BatchView
      <4> QED BY <4>1, <4>3
    <3>2. LiveSet' \subseteq LiveSet
      BY <3>1 DEF LiveSet, Live
    <3>3. Ordered'
      <4> SUFFICES ASSUME NEW a \in Indexes, NEW b \in Indexes, b < a, a < count
                   PROVE  /\ batches'[a].status = "finalized" => batches'[b].status = "finalized"
                          /\ batches'[b].status = "rejected" => batches'[a].status = "rejected"
        BY <2>1 DEF Ordered
      <4>1. b < count /\ statusOf(a) \in BatchStatus /\ statusOf(b) \in BatchStatus
        BY <1>1, <2>3, Bounds
      <4>2. /\ statusOf(a) = "finalized" => statusOf(b) = "finalized"
            /\ statusOf(b) = "rejected" => statusOf(a) = "rejected"
        BY DEF ChainInOrder, Ordered
      <4>3. CASE i <= b
        <5>1. i < a /\ statusOf(a) # "finalized"
          BY <2>5, <4>3, Bounds
        <5>2. batches'[a].status = "rejected"
          BY <3>1, <4>1, <5>1, Bounds DEF Live, BatchStatus
        <5> QED BY <5>2
      <4>4. CASE b < i
        <5>1. batches'[b].status = statusOf(b) /\ statusOf(b) # "rejected"
          BY <2>4, <3>1, <4>4, Bounds
        <5>2. batches'[a].status = "finalized" => statusOf(a) = "finalized"
          BY <3>1
        <5> QED BY <4>2, <5>1, <5>2
      <4> QED BY <4>3, <4>4, Bounds
    <3> QED BY <1>1, <1>2, <3>2, <3>3 DEF ChainInOrder
  <2>8. CASE DismissChallenge(i) \/ FinalizeBatch(i)
    <3>1. batches' = FinalizedNow(i) /\ MayFinalize(i)
      BY <2>8 DEF DismissChallenge, FinalizeBatch
    <3>2. \A j \in Indexes : batches'[j].status = IF j = i THEN "finalized" ELSE statusOf(j)
      BY <2>3, <3>1 DEF FinalizedNow, ChainTypeOK, BatchView
    <3>3. LiveSet' \subseteq LiveSet
      BY <3>2 DEF LiveSet, Live
    <3>4. \A j \in Indexes : j < i => statusOf(j) = "finalized"
      <4> SUFFICES ASSUME NEW j \in Indexes, j < i PROVE statusOf(j) = "finalized"
        OBVIOUS
      <4>1. Settled(batches[j])
        BY <2>1, <3>1, Bounds DEF MayFinalize
      <4> QED BY <2>4, <4>1 DEF Settled
    <3>5. Ordered'
      <4> SUFFICES ASSUME NEW a \in Indexes, NEW b \in Indexes, b < a, a < count
                   PROVE  /\ batches'[a].status = "finalized" => batches'[b].status = "finalized"
                          /\ batches'[b].status = "rejected" => batches'[a].status = "rejected"
        BY <2>1 DEF Ordered
      <4>1. /\ statusOf(a) = "finalized" => statusOf(b) = "finalized"
            /\ statusOf(b) = "rejected" => statusOf(a) = "rejected"
        BY DEF ChainInOrder, Ordered
      <4>2. CASE a = i
        BY <3>2, <3>4, <4>2, Bounds
      <4>3. CASE a # i
        BY <3>2, <4>1, <4>3
      <4> QED BY <4>2, <4>3
    <3> QED BY <1>1, <1>2, <3>3, <3>5 DEF ChainInOrder
  <2> QED BY <1>5, <2>6, <2>7, <2>8
<1> QED BY <1>3, <1>4, <1>5 DEF ChainNext

\* MAX_PENDING_OPTIMISTIC_BATCHES is far enough: before an unsettled batch, no
\* unsettled one lies further back.
LEMMA SearchedFarEnough ==
  ASSUME ChainTypeOK, ChainInOrder, NEW i \in Indexes, Live(batches[i]),
         NEW j \in Indexes, j < i, Live(batches[j])
  PROVE  SearchStart(i) <= j
<1>1. i < count /\ \A m \in Indexes : m < count => batches[m].status \in BatchStatus
  BY Listed DEF Live, ChainTypeOK, BatchView
<1>2. ASSUME NEW m \in j .. i PROVE m \in LiveSet
  <2>1. m \in Indexes /\ m < count
    BY <1>1, Bounds DEF Indexes, ChainTypeOK
  <2>2. batches[m].status # "finalized"
    BY <2>1, Bounds DEF ChainInOrder, Ordered, Live
  <2>3. batches[m].status # "rejected"
    BY <1>1, <2>1, Bounds DEF ChainInOrder, Ordered, Live
  <2> QED BY <1>1, <2>1, <2>2, <2>3 DEF LiveSet, Live, BatchStatus
<1>3. Cardinality(j .. i) = i - j + 1
  BY FS_Interval, Bounds
<1>4. Cardinality(j .. i) <= Cardinality(LiveSet)
  BY <1>2, LiveSetFinite, FS_Subset
<1>5. i - j + 1 <= MaxPending
  BY <1>3, <1>4, LiveSetFinite, Bounds DEF ChainInOrder
<1> QED BY <1>5, Bounds DEF SearchStart

(***************************************************************************)
(* The monitor's own invariant: what the point a tick has come to says of  *)
(* what it holds.                                                          *)
(***************************************************************************)

\* The timer is set only while the monitor is not stopped.
SleepsUnstopped == pc = "sleep" => ~stopped

\* What a tick has read, and what it has not.
TickShape ==
  /\ pc \in {"getRollup", "latestBatch", "sleep", "off"} => latest = Unknown
  /\ pc \in {"tip", "params", "features", "list"} => latest # Unknown
  /\ pc \notin {"list", "deliver"} => heldBackBy = Unknown
  /\ pc = "list" => version = 2

MonitorInv == TypeOK /\ SleepsUnstopped /\ TickShape

\* A batch is held back by an earlier one: on v3.2.5, when it would finalize.
Waits(i) ==
  /\ version = 2
  /\ batches[i].status = "submitted"
  /\ WindowFinalizable(batches[i], RollupWindow, chainTip)

\* b is the first unsettled batch from index a on that lies before i.
FirstFrom(a, i, b) ==
  /\ b \in a .. i - 1 /\ Live(batches[b])
  /\ \A j \in a .. i - 1 : Live(batches[j]) => b <= j

\* The pages up to c have been searched, from a on, for a batch before i.
Searched(a, c, i) ==
  /\ a <= c
  /\ heldBackBy = Unknown => \A j \in a .. c - 1 : j < i => ~Live(batches[j])
  /\ heldBackBy # Unknown => FirstFrom(a, i, heldBackBy)

\* What a tick holds is the chain's, when the chain has not moved since the tick
\* began and no read has failed.
Exact ==
  ~moved /\ ~failed =>
    /\ pc \in {"latestBatch", "tip", "params", "features", "list", "deliver"} =>
         /\ status = rollupStatus
         /\ ownWindow = IF version = 0 THEN Unknown ELSE RollupWindow
    /\ pc \in {"tip", "params", "features", "list", "deliver"} =>
         /\ latest = Unknown <=> count = 0
         /\ latest # Unknown => latest < count /\ latestBatch = batches[latest]
    /\ pc \in {"params", "features", "list"} => tip = chainTip
    /\ pc = "params" => version = 0
    /\ pc = "features" /\ version = 2 => Waits(latest)
    /\ pc = "list" => Waits(latest) /\ Searched(SearchStart(latest), cursor, latest)
    /\ pc = "deliver" /\ latest # Unknown =>
         IF Waits(latest) /\ (\E j \in 0 .. latest - 1 : Live(batches[j]))
         THEN FirstFrom(0, latest, heldBackBy) ELSE heldBackBy = Unknown

\* No upgrade to v3.2.5 while the monitor runs: the chain is there, or not yet.
NoUpgradeToOrder == FirstVersion = 2 \/ LastVersion < 2

\* From v3.2.5 on, the chain's list is in order.
OrderInv == version = 2 => ChainInOrder

(***************************************************************************)
(* The steps of a tick.                                                    *)
(***************************************************************************)

\* A set of numbers that is not empty has a least one.
LEMMA Least ==
  ASSUME NEW S, S \subseteq Nat, S # {}
  PROVE  \E m \in S : \A j \in S : m <= j
<1> DEFINE R == OpToRel(<, Nat)
<1>1. IsWellFoundedOn(R, Nat)
  BY NatLessThanWellFounded
<1>2. \A a, b \in Nat : <<a, b>> \in R <=> a < b
  BY DEF OpToRel
<1> HIDE DEF R
<1>3. PICK x \in S : \A y \in S : ~(<<y, x>> \in R)
  BY <1>1, WFMin, Zenon
<1>4. ASSUME NEW y \in S PROVE x <= y
  <2>1. ~(y < x)
    BY <1>2, <1>3
  <2> QED BY <2>1
<1> QED BY <1>4

\* oldestUnsettledBefore finds the first unsettled batch of a page before i, or
\* says that there is none.
LEMMA OldestFound ==
  ASSUME NEW a \in Nat, NEW c \in Nat, NEW i \in Nat
  PROVE  LET o == OldestUnsettledBefore(i, a .. c - 1)
         IN  \/ o = Unknown /\ \A j \in a .. c - 1 : j < i => ~Live(batches[j])
             \/ /\ o # Unknown /\ o \in a .. c - 1 /\ o < i /\ Live(batches[o])
                /\ \A j \in a .. c - 1 : j < i /\ Live(batches[j]) => o <= j
<1> DEFINE pending == {j \in a .. c - 1 : j < i /\ Live(batches[j])}
           o == OldestUnsettledBefore(i, a .. c - 1)
<1>1. o = IF pending = {} THEN Unknown ELSE CHOOSE j \in pending : \A m \in pending : j <= m
  BY DEF OldestUnsettledBefore, Unsettled, Live
<1>2. \A j : j \in pending <=> j \in a .. c - 1 /\ j < i /\ Live(batches[j])
  OBVIOUS
<1>3. pending \subseteq Nat
  OBVIOUS
<1> HIDE DEF pending, o
<1>4. CASE pending = {}
  BY <1>1, <1>2, <1>4 DEF o
<1>5. CASE pending # {}
  <2>1. \E m \in pending : \A j \in pending : m <= j
    BY <1>3, <1>5, Least
  <2>2. o \in pending /\ \A m \in pending : o <= m
    BY <1>1, <1>5, <2>1
  <2>3. o # Unknown
    BY <1>3, <2>2, HealthAssumption
  <2> QED BY <1>2, <2>2, <2>3 DEF o
<1> QED BY <1>4, <1>5

\* What a tick holds is of its type.
LEMMA Held ==
  ASSUME TypeOK
  PROVE  /\ latest # Unknown => latest \in Indexes /\ latest \in Nat
         /\ count \in Nat /\ count <= MaxBatches /\ cursor \in Nat /\ Unknown \notin Int
         /\ version \in Nat
BY Bounds, HealthAssumption DEF TypeOK, ChainTypeOK

\* The locals of a tick that has ended are of their types.
LEMMA DropTyped ==
  ASSUME DropTick
  PROVE  /\ status' \in RollupStatus \cup {Unknown} /\ ownWindow' \in Nat \cup {Unknown}
         /\ window' \in Nat \cup {Unknown} /\ latest' \in Indexes \cup {Unknown}
         /\ latestBatch' \in BatchView \cup {NoBatch} /\ tip' \in TipType \cup {Unknown}
         /\ cursor' \in Nat /\ heldBackBy' \in Indexes \cup {Unknown}
         /\ moved' \in BOOLEAN /\ failed' \in BOOLEAN
BY DEF DropTick

\* Initially no tick has read anything.
LEMMA MonitorInit == Init => MonitorInv
<1> SUFFICES ASSUME Init PROVE MonitorInv
  OBVIOUS
<1>1. ChainTypeOK
  BY Bounds DEF Init, ChainInit, ChainTypeOK, TipType
<1>2. {stopped, moved, failed, bell, escaped} \subseteq BOOLEAN
  BY Zenon DEF Init
<1>3. TypeOK
  BY <1>1, <1>2, Bounds DEF Init, TypeOK, RollupStatus, Awaits
<1> QED BY <1>3 DEF Init, MonitorInv, SleepsUnstopped, TickShape

\* The chain or the rollup's creator moves.
LEMMA MonitorChainStep == MonitorInv /\ ChainStep => MonitorInv'
<1> SUFFICES ASSUME MonitorInv, ChainStep PROVE MonitorInv'
  OBVIOUS
<1>1. ChainTypeOK' /\ version <= version' /\ rollupStatus' \in RollupStatus
  BY ChainTyped, Held, HealthAssumption
  DEF MonitorInv, TypeOK, ChainStep, RollupMoves, chainVars, ChainTypeOK
<1>2. moved' \in BOOLEAN /\ UNCHANGED <<pc, stopped, readVars, failed, bell, escaped, faults>>
  BY DEF ChainStep
<1>3. TypeOK'
  BY <1>1, <1>2 DEF MonitorInv, TypeOK, readVars
<1>4. TickShape'
  BY <1>1, <1>2, Bounds DEF MonitorInv, TypeOK, TickShape, ChainTypeOK, readVars
<1> QED BY <1>2, <1>3, <1>4 DEF MonitorInv, SleepsUnstopped

\* A tick ends, with a snapshot delivered or with an error reported.
LEMMA MonitorEnds == MonitorInv /\ (Deliver \/ Throw) => MonitorInv'
<1> SUFFICES ASSUME MonitorInv, Deliver \/ Throw PROVE MonitorInv'
  OBVIOUS
<1>1. /\ DropTick /\ CallBack /\ UNCHANGED <<chainVars, rollupStatus>>
      /\ Escapes \/ (Rearm /\ UNCHANGED escaped)
  BY DEF Deliver, Throw
<1>2. faults' \in 0 .. MaxFaults
  BY Bounds DEF Deliver, Throw, Fault, MonitorInv, TypeOK
<1>e. escaped' \in BOOLEAN
  BY <1>1 DEF Escapes, MonitorInv, TypeOK
<1>3. stopped' \in BOOLEAN /\ bell' \in BOOLEAN
  <2>1. stopped \in BOOLEAN /\ bell \in BOOLEAN
    BY DEF MonitorInv, TypeOK
  <2>2. CASE stopped
    BY <1>1, <2>1, <2>2 DEF CallBack
  <2>3. CASE ~stopped
    BY <1>1, <2>1, <2>3 DEF CallBack
  <2> QED BY <2>2, <2>3
<1>4. pc' \in {"sleep", "off"} /\ (pc' = "sleep" => ~stopped')
  BY <1>1 DEF Rearm, Escapes
<1>5. ChainTypeOK' /\ rollupStatus' \in RollupStatus
  BY <1>1 DEF MonitorInv, TypeOK, ChainTypeOK, chainVars
<1>6. TypeOK'
  BY <1>1, <1>2, <1>3, <1>4, <1>5, <1>e, DropTyped DEF TypeOK, Awaits
<1>7. TickShape'
  BY <1>1, <1>4 DEF TickShape, DropTick
<1> QED BY <1>4, <1>6, <1>7 DEF MonitorInv, SleepsUnstopped

\* A page of the list is read.
LEMMA MonitorListPage == MonitorInv /\ ListPage => MonitorInv'
<1> SUFFICES ASSUME MonitorInv, ListPage PROVE MonitorInv'
  OBVIOUS
<1> DEFINE upto == IF cursor + PageSize < count THEN cursor + PageSize ELSE count
           o == OldestUnsettledBefore(latest, cursor .. upto - 1)
<1>1. /\ pc = "list" /\ cursor' = upto /\ pc' \in {"list", "deliver"}
      /\ heldBackBy' = IF heldBackBy # Unknown THEN heldBackBy ELSE o
      /\ UNCHANGED <<chainVars, rollupStatus, stopped, bell, moved, failed, escaped, faults>>
      /\ UNCHANGED <<status, ownWindow, latest, latestBatch, tip, window>>
  BY DEF ListPage, Read, Quiet
<1>2. latest \in Indexes /\ latest \in Nat /\ cursor \in Nat /\ count \in Nat /\ version = 2
  BY <1>1, Held DEF MonitorInv, TickShape
<1>3. upto \in Nat
  BY <1>2, Bounds
<1>4. o = Unknown \/ o \in Indexes
  <2>1. o = Unknown \/ (o \in cursor .. upto - 1 /\ o < latest)
    BY <1>2, <1>3, OldestFound
  <2> HIDE DEF o, upto
  <2> QED BY <1>2, <1>3, <2>1, Bounds DEF Indexes
<1> HIDE DEF o, upto
<1>5. heldBackBy' \in Indexes \cup {Unknown}
  BY <1>1, <1>4 DEF MonitorInv, TypeOK
<1>6. TypeOK'
  BY <1>1, <1>3, <1>5 DEF MonitorInv, TypeOK, ChainTypeOK, chainVars, Awaits
<1>7. TickShape'
  BY <1>1, <1>2 DEF MonitorInv, TickShape, chainVars
<1> QED BY <1>1, <1>6, <1>7 DEF MonitorInv, SleepsUnstopped

\* A read of a tick, and the timer.
LEMMA MonitorReads ==
  MonitorInv /\ (Tick \/ GetRollup \/ GetLatestBatch \/ GetTip \/ GetParams \/ GetFeatures) =>
    MonitorInv'
<1> SUFFICES ASSUME MonitorInv,
                    Tick \/ GetRollup \/ GetLatestBatch \/ GetTip \/ GetParams \/ GetFeatures
             PROVE  MonitorInv'
  OBVIOUS
<1>1. UNCHANGED <<chainVars, rollupStatus, stopped, bell, escaped>>
  BY DEF Tick, GetRollup, GetLatestBatch, GetTip, GetParams, GetFeatures, Read, ReadFails, Quiet
<1>2. moved' = moved /\ failed' \in BOOLEAN /\ faults' \in 0 .. MaxFaults
  <2>1. Read \/ ReadFails
    BY DEF Tick, GetRollup, GetLatestBatch, GetTip, GetParams, GetFeatures
  <2>2. failed \in BOOLEAN /\ faults \in 0 .. MaxFaults
    BY DEF MonitorInv, TypeOK
  <2>3. CASE Read
    BY <2>2, <2>3 DEF Read
  <2>4. CASE ReadFails
    BY <2>2, <2>4, Bounds DEF ReadFails, Fault
  <2> QED BY <2>1, <2>3, <2>4
<1>3. ChainTypeOK' /\ rollupStatus' \in RollupStatus /\ version' = version
  BY <1>1 DEF MonitorInv, TypeOK, ChainTypeOK, chainVars
<1>4. /\ stopped' \in BOOLEAN /\ bell' \in BOOLEAN /\ moved' \in BOOLEAN
      /\ escaped' \in BOOLEAN
  BY <1>1, <1>2 DEF MonitorInv, TypeOK
<1>5. SleepsUnstopped'
  BY DEF Tick, GetRollup, GetLatestBatch, GetTip, GetParams, GetFeatures, AfterTip, AfterWindow,
         SleepsUnstopped
<1> DEFINE LocalsOK ==
      /\ status' \in RollupStatus \cup {Unknown} /\ pc' \in Awaits \cup {"deliver", "off"}
      /\ ownWindow' \in Nat \cup {Unknown} /\ window' \in Nat \cup {Unknown}
      /\ latest' \in Indexes \cup {Unknown} /\ latestBatch' \in BatchView \cup {NoBatch}
      /\ tip' \in TipType \cup {Unknown}
      /\ cursor' \in Nat /\ heldBackBy' \in Indexes \cup {Unknown}
      /\ TickShape'
<1>6. ASSUME Tick PROVE LocalsOK
  BY <1>3, <1>6 DEF Tick, readVars, MonitorInv, TypeOK, TickShape, Awaits
<1>7. ASSUME GetRollup PROVE LocalsOK
  BY <1>3, <1>7, Bounds DEF GetRollup, MonitorInv, TypeOK, TickShape, Awaits
<1>8. ASSUME GetLatestBatch PROVE LocalsOK
  <2>1. /\ pc = "latestBatch"
        /\ UNCHANGED <<status, ownWindow, tip, window, cursor, heldBackBy>>
    BY <1>8 DEF GetLatestBatch
  <2>2. ASSUME NEW i \in LatestIndexes, latest' = i, latestBatch' = batches[i], pc' = "tip"
        PROVE  LocalsOK
    <3>1. i \in Indexes /\ batches[i] \in BatchView /\ i # Unknown
      BY <2>2, Bounds, Held DEF LatestIndexes, MonitorInv, TypeOK, ChainTypeOK, Indexes
    <3> QED BY <1>3, <2>1, <2>2, <3>1 DEF MonitorInv, TypeOK, TickShape, Awaits
  <2>3. ASSUME pc' = "deliver", UNCHANGED <<latest, latestBatch>> PROVE LocalsOK
    BY <1>3, <2>1, <2>3 DEF MonitorInv, TypeOK, TickShape
  <2> QED
    BY <1>8, <2>2, <2>3 DEF GetLatestBatch
<1>9. ASSUME GetTip PROVE LocalsOK
  <2>1. /\ pc = "tip" /\ pc' \in {"deliver", "params", "features"}
        /\ UNCHANGED <<status, ownWindow, latest, latestBatch, cursor, heldBackBy>>
        /\ window' \in {ownWindow, Unknown} /\ tip' \in {chainTip, Unknown}
    BY <1>9 DEF GetTip, AfterTip, AfterWindow
  <2> QED
    BY <1>3, <2>1 DEF MonitorInv, TypeOK, TickShape, ChainTypeOK, Awaits
<1>10. ASSUME GetParams PROVE LocalsOK
  <2>1. /\ pc = "params" /\ pc' \in {"deliver", "features"} /\ window' = DefaultWindow
        /\ UNCHANGED <<status, ownWindow, latest, latestBatch, tip, cursor, heldBackBy>>
    BY <1>10 DEF GetParams, AfterWindow
  <2> QED
    BY <1>3, <2>1, Bounds DEF MonitorInv, TypeOK, TickShape, Awaits
<1>11. ASSUME GetFeatures PROVE LocalsOK
  <2>1. /\ pc = "features" /\ pc' \in {"deliver", "list"} /\ (pc' = "list" => version = 2)
        /\ cursor' \in {cursor, SearchStart(latest)}
        /\ UNCHANGED <<status, ownWindow, latest, latestBatch, tip, window, heldBackBy>>
    BY <1>11 DEF GetFeatures
  <2>2. latest \in Nat
    BY <2>1, Held DEF MonitorInv, TickShape
  <2>3. SearchStart(latest) \in Nat
    BY <2>2, Bounds DEF SearchStart
  <2> QED
    BY <1>3, <2>1, <2>3 DEF MonitorInv, TypeOK, TickShape, Awaits
<1>12. LocalsOK
  BY <1>6, <1>7, <1>8, <1>9, <1>10, <1>11
<1> HIDE DEF LocalsOK
<1> QED BY <1>1, <1>2, <1>3, <1>4, <1>5, <1>12 DEF LocalsOK, MonitorInv, TypeOK

\* Every step of the monitor and of the chain keeps the invariant.
LEMMA MonitorStep == MonitorInv /\ [Next]_vars => MonitorInv'
<1>1. MonitorInv /\ Stop => MonitorInv'
  <2> SUFFICES ASSUME MonitorInv, Stop PROVE MonitorInv'
    OBVIOUS
  <2>1. /\ stopped' = TRUE /\ pc' \in Awaits \cup {"off"} /\ pc' # "sleep"
        /\ pc' = pc \/ (pc = "sleep" /\ pc' = "off")
        /\ UNCHANGED <<chainVars, rollupStatus, readVars, moved, failed, bell, escaped, faults>>
    BY DEF Stop, Awaits
  <2>2. ChainTypeOK' /\ version' = version
    BY <2>1 DEF MonitorInv, TypeOK, ChainTypeOK, chainVars
  <2>3. TypeOK'
    BY <2>1, <2>2 DEF MonitorInv, TypeOK, readVars, Awaits
  <2>4. TickShape'
    BY <2>1, <2>2 DEF MonitorInv, TickShape, readVars
  <2> QED BY <2>1, <2>3, <2>4 DEF MonitorInv, SleepsUnstopped
<1>2. MonitorInv /\ UNCHANGED vars => MonitorInv'
  BY DEF MonitorInv, TypeOK, ChainTypeOK, SleepsUnstopped, TickShape, vars, chainVars, readVars
<1> QED
  BY <1>1, <1>2, MonitorReads, MonitorListPage, MonitorEnds, MonitorChainStep, Zenon
  DEF Next, TickStep

\* What a tick of watchRollup holds is of its type and goes with the point it
\* has come to, in every behaviour.
THEOREM MonitorInvariant == Spec => []MonitorInv
  BY MonitorInit, MonitorStep, PTL DEF Spec

\* Type correctness of the rollup monitor, in every behaviour.
THEOREM MonitorTyped == Spec => []TypeOK
<1>1. MonitorInv => TypeOK
  BY DEF MonitorInv
<1> QED BY <1>1, MonitorInvariant, PTL

(***************************************************************************)
(* The order of the chain's list, and what it gives the monitor.           *)
(***************************************************************************)

\* The list of a chain that is not upgraded to v3.2.5 under way is in order from
\* the first block.
LEMMA OrderInit == ASSUME NoUpgradeToOrder PROVE Init => OrderInv
<1> SUFFICES ASSUME Init, version = 2 PROVE ChainInOrder
  BY DEF OrderInv
<1>1. count = 0 /\ \A i \in Indexes : batches[i] = NoBatch
  BY DEF Init, ChainInit
<1>2. Ordered
  BY <1>1, Bounds DEF Ordered
<1>3. LiveSet = {}
  BY <1>1 DEF LiveSet, Live, NoBatch
<1>4. Cardinality(LiveSet) <= MaxPending
  BY <1>3, FS_EmptySet, Bounds
<1> QED BY <1>2, <1>4 DEF ChainInOrder

\* And stays in order.
LEMMA OrderStep ==
  ASSUME NoUpgradeToOrder
  PROVE  MonitorInv /\ OrderInv /\ [Next]_vars => OrderInv'
<1> SUFFICES ASSUME MonitorInv, OrderInv, [Next]_vars, version' = 2 PROVE ChainInOrder'
  BY DEF OrderInv
<1>1. UNCHANGED chainVars \/ ChainNext
  BY DEF Next, TickStep, Tick, GetRollup, GetLatestBatch, GetTip, GetParams, GetFeatures, ListPage,
         Deliver, Throw, Stop, ChainStep, RollupMoves, Read, ReadFails, Quiet, vars
<1>2. ChainTypeOK /\ ChainTypeOK'
  BY MonitorStep DEF MonitorInv, TypeOK
<1>3. version = 2 /\ LastVersion = 2
  BY <1>2, Bounds DEF ChainTypeOK, NoUpgradeToOrder
<1>4. CASE UNCHANGED chainVars
  BY <1>3, <1>4 DEF OrderInv, ChainInOrder, Ordered, LiveSet, chainVars
<1>5. CASE ChainNext
  BY <1>2, <1>3, <1>5, ChainOrdered DEF OrderInv
<1> QED BY <1>1, <1>4, <1>5

\* From v3.2.5 the list of a rollup's batches is final ones, then at most
\* MAX_PENDING_OPTIMISTIC_BATCHES unsettled ones, then rejected ones.
THEOREM ListInOrder == ASSUME NoUpgradeToOrder PROVE Spec => [](MonitorInv /\ OrderInv)
  BY MonitorInit, MonitorStep, OrderInit, OrderStep, PTL DEF Spec

\* heldBackBy is never said of a batch that is final when its blocker is found,
\* unless the chain is upgraded to v3.2.5 while the monitor runs.
THEOREM HeldBackOpen == ASSUME NoUpgradeToOrder PROVE Spec => HeldBackNotFinal
<1> DEFINE Open == heldBackBy = Unknown /\ heldBackBy' # Unknown => batches[latest].status # "finalized"
<1>1. MonitorInv /\ OrderInv /\ [Next]_vars => [Open]_vars
  <2> SUFFICES ASSUME MonitorInv, OrderInv, Next, heldBackBy = Unknown, heldBackBy' # Unknown
               PROVE  batches[latest].status # "finalized"
    OBVIOUS
  <2>1. ListPage
    BY DEF Next, TickStep, Tick, GetRollup, GetLatestBatch, GetTip, GetParams, GetFeatures,
           Deliver, Throw, Stop, ChainStep, DropTick, readVars
  <2> DEFINE upto == IF cursor + PageSize < count THEN cursor + PageSize ELSE count
             o == OldestUnsettledBefore(latest, cursor .. upto - 1)
  <2>2. pc = "list" /\ heldBackBy' = o
    BY <2>1 DEF ListPage
  <2>3. latest \in Indexes /\ latest \in Nat /\ cursor \in Nat /\ count \in Nat /\ version = 2
    BY <2>2, Held DEF MonitorInv, TickShape
  <2>4. upto \in Nat
    BY <2>3, Bounds
  <2>5. o \in cursor .. upto - 1 /\ o < latest /\ Live(batches[o])
    BY <2>2, <2>3, <2>4, OldestFound
  <2> HIDE DEF o, upto
  <2>6. o \in Indexes
    BY <2>3, <2>4, <2>5, Bounds DEF Indexes
  <2> SUFFICES ASSUME batches[latest].status = "finalized" PROVE FALSE
    OBVIOUS
  <2>7. latest < count
    BY <2>3, Listed DEF MonitorInv, TypeOK
  <2> QED BY <2>3, <2>5, <2>6, <2>7 DEF OrderInv, ChainInOrder, Ordered, Live
<1> QED BY <1>1, ListInOrder, PTL DEF Spec, HeldBackNotFinal

(***************************************************************************)
(* The snapshot.                                                           *)
(***************************************************************************)

\* A chain or a rollup that moves under a tick makes no claim; between ticks
\* there is none.
LEMMA ExactOutside ==
  ASSUME Exact, ChainStep \/ Stop \/ Tick \/ Deliver \/ Throw \/ UNCHANGED vars
  PROVE  Exact'
<1>1. CASE ChainStep
  BY <1>1 DEF ChainStep, Exact
<1>2. CASE Stop \/ Tick
  <2>1. UNCHANGED <<chainVars, rollupStatus, readVars, moved, failed>>
    BY <1>2 DEF Stop, Tick, Read, Quiet
  <2>2. pc' = pc \/ pc' \in {"off", "getRollup"}
    BY <1>2 DEF Stop, Tick
  <2>3. CASE pc' = pc
    BY <2>1, <2>3
    DEF Exact, Waits, Searched, FirstFrom, SearchStart, chainVars, readVars
  <2>4. CASE pc' \in {"off", "getRollup"}
    BY <2>4 DEF Exact
  <2> QED BY <2>2, <2>3, <2>4
<1>3. CASE Deliver \/ Throw
  BY <1>3 DEF Deliver, Throw, Rearm, Escapes, Exact
<1>4. CASE UNCHANGED vars
  BY <1>4 DEF Exact, Waits, Searched, FirstFrom, SearchStart, vars, chainVars, readVars
<1> QED BY <1>1, <1>2, <1>3, <1>4

\* The rollup, its latest batch, the tip, the window and the features.
LEMMA ExactReads ==
  ASSUME MonitorInv, Exact, GetRollup \/ GetLatestBatch \/ GetTip \/ GetParams \/ GetFeatures
  PROVE  Exact'
<1> SUFFICES ASSUME ~moved', ~failed' PROVE Exact'
  BY DEF Exact
<1>1. Read
  BY DEF GetRollup, GetLatestBatch, GetTip, GetParams, GetFeatures, ReadFails
<1>2. /\ UNCHANGED <<chainVars, rollupStatus, moved, failed>> /\ ~moved /\ ~failed
      /\ batches' = batches /\ count' = count /\ chainTip' = chainTip /\ version' = version
  BY <1>1 DEF Read, Quiet, chainVars
<1>3. \A i : Waits(i)' <=> Waits(i)
  BY <1>2 DEF Waits
<1>4. TypeOK /\ TickShape
  BY DEF MonitorInv
<1>5. CASE GetRollup
  BY <1>2, <1>5 DEF GetRollup, Exact
<1>6. CASE GetLatestBatch
  <2>1. pc = "latestBatch" /\ UNCHANGED <<status, ownWindow, heldBackBy>> /\ latest = Unknown
        /\ heldBackBy = Unknown
    BY <1>4, <1>6 DEF GetLatestBatch, TickShape
  <2>2. /\ status' = rollupStatus' /\ ownWindow' = IF version' = 0 THEN Unknown ELSE RollupWindow
    BY <1>2, <2>1 DEF Exact
  <2>3. CASE \E i \in LatestIndexes : latest' = i /\ latestBatch' = batches[i] /\ pc' = "tip"
    <3>1. PICK i \in LatestIndexes : latest' = i /\ latestBatch' = batches[i] /\ pc' = "tip"
      BY <2>3
    <3>2. i \in 0 .. count - 1
      BY DEF LatestIndexes
    <3>3. i # Unknown /\ i < count /\ count # 0
      BY <1>4, <3>2, Held
    <3> QED BY <1>2, <2>2, <3>1, <3>3 DEF Exact
  <2>4. CASE count = 0 /\ pc' = "deliver" /\ latest' = latest
    BY <1>2, <2>1, <2>2, <2>4 DEF Exact
  <2>5. ~failed'
    BY <1>2
  <2> QED BY <1>6, <2>3, <2>4, <2>5 DEF GetLatestBatch, ReadFails
<1>7. CASE GetTip
  <2>1. /\ pc = "tip" /\ tip' = chainTip
        /\ UNCHANGED <<status, ownWindow, latest, latestBatch, cursor, heldBackBy>>
        /\ pc' = IF AfterTip = "window" THEN AfterWindow(ownWindow, chainTip) ELSE AfterTip
    BY <1>2, <1>7 DEF GetTip, ReadFails
  <2>2. /\ status = rollupStatus /\ ownWindow = (IF version = 0 THEN Unknown ELSE RollupWindow)
        /\ latest # Unknown /\ count # 0 /\ latest < count /\ latestBatch = batches[latest]
        /\ heldBackBy = Unknown
    BY <1>2, <1>4, <2>1 DEF Exact, TickShape
  <2>3. version = 2 => ownWindow = RollupWindow /\ ownWindow # Unknown
    BY <2>2, Bounds, HealthAssumption
  <2>4. pc' = "params" => version = 0
    BY <2>1, <2>2, Bounds, HealthAssumption DEF AfterTip, AfterWindow
  <2>5. pc' \in {"deliver", "params", "features"}
    BY <2>1 DEF AfterTip, AfterWindow
  <2>6. version = 2 => (pc' = "features" <=> Waits(latest))
    <3> SUFFICES ASSUME version = 2 PROVE pc' = "features" <=> Waits(latest)
      OBVIOUS
    <3>1. chainTip # Unknown
      BY <1>4, HealthAssumption DEF TypeOK, ChainTypeOK
    <3>2. CASE Unsettled(latestBatch)
      BY <2>1, <2>2, <2>3, <3>1, <3>2 DEF AfterTip, AfterWindow, Waits
    <3>3. CASE ~Unsettled(latestBatch)
      BY <2>1, <2>2, <3>3 DEF AfterTip, Unsettled, Waits
    <3> QED BY <3>2, <3>3
  <2>7. Waits(latest) => version = 2
    BY DEF Waits
  <2> QED BY <1>2, <1>3, <2>1, <2>2, <2>4, <2>5, <2>6, <2>7 DEF Exact
<1>8. CASE GetParams
  <2>1. /\ pc = "params" /\ pc' \in {"deliver", "features"}
        /\ UNCHANGED <<status, ownWindow, latest, latestBatch, tip, cursor, heldBackBy>>
    BY <1>8 DEF GetParams, AfterWindow
  <2>2. version = 0 /\ heldBackBy = Unknown
    BY <1>2, <1>4, <2>1 DEF Exact, TickShape
  <2>3. ~Waits(latest)
    BY <2>2 DEF Waits
  <2> QED BY <1>2, <1>3, <2>1, <2>2, <2>3 DEF Exact
<1>9. CASE GetFeatures
  <2>1. /\ pc = "features"
        /\ IF version = 2 THEN pc' = "list" /\ cursor' = SearchStart(latest) ELSE pc' = "deliver"
        /\ UNCHANGED <<status, ownWindow, latest, latestBatch, tip, window, heldBackBy>>
    BY <1>9 DEF GetFeatures
  <2>2. latest \in Nat /\ heldBackBy = Unknown
    BY <1>4, <2>1, Held DEF TickShape
  <2>3. CASE version = 2
    <3>1. SearchStart(latest) \in Nat /\ SearchStart(latest)' = SearchStart(latest)
      BY <2>1, <2>2, Bounds DEF SearchStart
    <3>2. Searched(SearchStart(latest), cursor, latest)'
      BY <2>1, <2>2, <2>3, <3>1 DEF Searched
    <3> QED BY <1>2, <1>3, <2>1, <2>2, <2>3, <3>2 DEF Exact
  <2>4. CASE version # 2
    <3>1. ~Waits(latest)
      BY <2>4 DEF Waits
    <3> QED BY <1>2, <1>3, <2>1, <2>2, <2>4, <3>1 DEF Exact
  <2> QED BY <2>3, <2>4
<1> QED BY <1>5, <1>6, <1>7, <1>8, <1>9

\* The pages of the list: in index order, so the first unsettled batch found is
\* the first of all, and the last page leaves none to be found.
LEMMA ExactListPage ==
  ASSUME MonitorInv, OrderInv, Exact, ListPage
  PROVE  Exact'
<1> SUFFICES ASSUME ~moved', ~failed' PROVE Exact'
  BY DEF Exact
<1> DEFINE upto == IF cursor + PageSize < count THEN cursor + PageSize ELSE count
           o == OldestUnsettledBefore(latest, cursor .. upto - 1)
           a == SearchStart(latest)
<1>1. /\ pc = "list" /\ cursor' = upto /\ pc' = IF upto < count THEN "list" ELSE "deliver"
      /\ heldBackBy' = IF heldBackBy # Unknown THEN heldBackBy ELSE o
      /\ UNCHANGED <<chainVars, rollupStatus, moved, failed>>
      /\ UNCHANGED <<status, ownWindow, latest, latestBatch, tip, window>>
  BY DEF ListPage, Read, Quiet
<1>2. /\ ~moved /\ ~failed
      /\ batches' = batches /\ count' = count /\ chainTip' = chainTip /\ version' = version
  BY <1>1 DEF chainVars
<1>3. /\ latest \in Indexes /\ latest \in Nat /\ latest # Unknown /\ cursor \in Nat
      /\ count \in Nat /\ version = 2 /\ Unknown \notin Int
  BY <1>1, Held DEF MonitorInv, TickShape
<1>4. /\ status = rollupStatus /\ ownWindow = (IF version = 0 THEN Unknown ELSE RollupWindow)
      /\ count # 0 /\ latest < count /\ latestBatch = batches[latest] /\ tip = chainTip
      /\ Waits(latest) /\ Searched(a, cursor, latest)
  BY <1>1, <1>2, <1>3 DEF Exact
<1>5. \A i : Waits(i)' <=> Waits(i)
  BY <1>2 DEF Waits
<1>6. upto \in Nat /\ (cursor <= upto \/ upto = count)
  BY <1>3, Bounds
<1>7. a \in Nat
  BY <1>3, Bounds DEF SearchStart
<1>8. \/ o = Unknown /\ \A j \in cursor .. upto - 1 : j < latest => ~Live(batches[j])
      \/ /\ o # Unknown /\ o \in cursor .. upto - 1 /\ o < latest /\ Live(batches[o])
         /\ \A j \in cursor .. upto - 1 : j < latest /\ Live(batches[j]) => o <= j
  BY <1>3, <1>6, OldestFound
<1> HIDE DEF o
\* A blocker found on this page or before is the first from the start of the
\* search; without one there is none on the pages read.
<1>9. heldBackBy' # Unknown => FirstFrom(a, latest, heldBackBy')
  <2>1. CASE heldBackBy # Unknown
    BY <1>1, <1>4, <2>1 DEF Searched
  <2>2. CASE heldBackBy = Unknown /\ o # Unknown
    <3>1. a <= cursor /\ \A j \in a .. cursor - 1 : j < latest => ~Live(batches[j])
      BY <1>4, <2>2 DEF Searched
    <3>2. o \in a .. latest - 1
      BY <1>3, <1>6, <1>7, <1>8, <2>2, <3>1
    <3>3. ASSUME NEW j \in a .. latest - 1, Live(batches[j]) PROVE o <= j
      BY <1>3, <1>6, <1>7, <1>8, <2>2, <3>1, <3>3
    <3> QED BY <1>1, <1>8, <2>2, <3>2, <3>3 DEF FirstFrom
  <2> QED BY <1>1, <2>1, <2>2
<1>10. heldBackBy' = Unknown => \A j \in a .. upto - 1 : j < latest => ~Live(batches[j])
  <2> SUFFICES ASSUME heldBackBy' = Unknown, NEW j \in a .. upto - 1, j < latest
               PROVE  ~Live(batches[j])
    OBVIOUS
  <2>1. heldBackBy = Unknown /\ o = Unknown
    BY <1>1
  <2>2. \A m \in a .. cursor - 1 : m < latest => ~Live(batches[m])
    BY <1>4, <2>1 DEF Searched
  <2> QED BY <1>3, <1>6, <1>7, <1>8, <2>1, <2>2
<1>11. CASE upto < count
  <2>1. a <= upto
    BY <1>3, <1>4, <1>6, <1>7, <1>11, Bounds DEF Searched
  <2>2. SearchStart(latest)' = a
    BY <1>1 DEF SearchStart
  <2> HIDE DEF upto, a
  <2>3. heldBackBy' # Unknown => FirstFrom(SearchStart(latest), latest, heldBackBy)'
    BY <1>1, <1>2, <1>9, <2>2 DEF FirstFrom
  <2>4. Searched(SearchStart(latest), cursor, latest)'
    BY <1>1, <1>2, <1>10, <2>1, <2>2, <2>3 DEF Searched
  <2> QED BY <1>1, <1>2, <1>3, <1>4, <1>5, <1>11, <2>4 DEF Exact
<1>12. CASE ~(upto < count)
  <2>1. upto = count /\ latest < upto
    BY <1>3, <1>4, <1>6, <1>12
  <2>2. Live(batches[latest]) /\ ChainTypeOK /\ ChainInOrder
    BY <1>3, <1>4 DEF Waits, Live, OrderInv, MonitorInv, TypeOK
  <2>3. ASSUME NEW j \in 0 .. latest - 1, Live(batches[j]) PROVE a <= j
    <3>1. j \in Indexes /\ j < latest
      BY <1>3, Bounds DEF Indexes
    <3> QED BY <1>3, <2>2, <2>3, <3>1, SearchedFarEnough
  <2>4. CASE heldBackBy' # Unknown
    <3>1. FirstFrom(a, latest, heldBackBy')
      BY <1>9, <2>4
    <3>2. FirstFrom(0, latest, heldBackBy')
      BY <1>3, <1>7, <2>3, <3>1 DEF FirstFrom
    <3>3. \E j \in 0 .. latest - 1 : Live(batches[j])
      BY <3>2 DEF FirstFrom
    <3>4. FirstFrom(0, latest, heldBackBy)'
      BY <1>1, <1>2, <3>2 DEF FirstFrom
    <3> HIDE DEF upto, a
    <3> QED BY <1>1, <1>2, <1>3, <1>4, <1>5, <1>12, <3>3, <3>4 DEF Exact
  <2>5. CASE heldBackBy' = Unknown
    <3>1. ASSUME NEW j \in 0 .. latest - 1 PROVE ~Live(batches[j])
      <4> SUFFICES ASSUME Live(batches[j]) PROVE FALSE
        OBVIOUS
      <4>1. a <= j
        BY <2>3
      <4>2. j \in a .. upto - 1 /\ j < latest
        BY <1>3, <1>6, <1>7, <2>1, <4>1
      <4> QED BY <1>10, <2>5, <4>2
    <3>2. ~(\E j \in 0 .. latest' - 1 : Live(batches'[j]))
      BY <1>1, <1>2, <3>1
    <3> HIDE DEF upto, a
    <3> QED BY <1>1, <1>2, <1>3, <1>4, <1>5, <1>12, <2>5, <3>2 DEF Exact
  <2> QED BY <2>4, <2>5
<1> QED BY <1>11, <1>12

\* A snapshot of a chain that stands still is exact: healthy, the latest batch
\* and the blocker are what the chain says, however far back the blocker lies and
\* however the list is paged.
THEOREM SnapshotsExact == ASSUME NoUpgradeToOrder PROVE Spec => []SnapshotExact
<1>1. Init => Exact
  BY DEF Init, Exact
<1>2. MonitorInv /\ OrderInv /\ Exact /\ [Next]_vars => Exact'
  BY ExactOutside, ExactReads, ExactListPage DEF Next, TickStep
<1>3. MonitorInv /\ Exact => SnapshotExact
  <2> SUFFICES ASSUME MonitorInv, Exact, pc = "deliver", ~moved, ~failed
               PROVE  /\ Healthy <=> /\ rollupStatus = "active"
                                     /\ latest # Unknown => batches[latest].status # "rejected"
                      /\ (latest = Unknown) <=> (count = 0)
                      /\ latest # Unknown =>
                           LET earlier == {j \in 0 .. latest - 1 : Live(batches[j])}
                               waits == Waits(latest)
                           IN  IF waits /\ earlier # {}
                               THEN heldBackBy \in earlier /\ \A j \in earlier : heldBackBy <= j
                               ELSE heldBackBy = Unknown
    BY DEF SnapshotExact, Waits
  <2>1. /\ status = rollupStatus /\ (latest = Unknown <=> count = 0)
        /\ latest # Unknown => latestBatch = batches[latest]
        /\ latest # Unknown =>
             IF Waits(latest) /\ (\E j \in 0 .. latest - 1 : Live(batches[j]))
             THEN FirstFrom(0, latest, heldBackBy) ELSE heldBackBy = Unknown
    BY DEF Exact
  <2>2. Healthy <=> /\ rollupStatus = "active"
                    /\ latest # Unknown => batches[latest].status # "rejected"
    BY <2>1 DEF Healthy
  <2>3. ASSUME latest # Unknown
        PROVE  LET earlier == {j \in 0 .. latest - 1 : Live(batches[j])}
               IN  IF Waits(latest) /\ earlier # {}
                   THEN heldBackBy \in earlier /\ \A j \in earlier : heldBackBy <= j
                   ELSE heldBackBy = Unknown
    BY <2>1, <2>3 DEF FirstFrom
  <2> QED BY <2>1, <2>2, <2>3
<1> QED BY <1>1, <1>2, <1>3, MonitorInit, MonitorStep, OrderInit, OrderStep, PTL DEF Spec

(***************************************************************************)
(* The monitor implements the polling loop.                                *)
(***************************************************************************)

\* watchRollup keeps the promise of a polling watcher: one tick at a time, and
\* neither a callback nor a tick once stop() has been called.
THEOREM MonitorPolls == Spec => PollsAsPromised
<1>1. Init => Loop!LoopInit
  <2> SUFFICES ASSUME Init PROVE Loop!LoopInit
    OBVIOUS
  <2>1. PollMode \in {"running", "off"}
    BY DEF Init, PollMode
  <2> QED BY <2>1 DEF Init, Loop!LoopInit
<1>2. MonitorInv /\ [Next]_vars => [Loop!LoopNext]_(Loop!loopVars)
  <2> SUFFICES ASSUME MonitorInv, [Next]_vars
               PROVE  Loop!LoopNext \/ UNCHANGED <<PollMode, stopped, bell>>
    BY DEF Loop!loopVars
  <2>1. CASE Tick
    <3>1. PollMode = "armed" /\ PollMode' = "running" /\ UNCHANGED <<stopped, bell>>
      BY <2>1 DEF Tick, PollMode, Read, Quiet
    <3>2. ~stopped
      BY <2>1 DEF Tick, MonitorInv, SleepsUnstopped
    <3> QED BY <3>1, <3>2 DEF Loop!LoopNext, Loop!Fire
  <2>2. CASE GetRollup \/ GetLatestBatch \/ GetTip \/ GetParams \/ GetFeatures \/ ListPage
    <3>1. UNCHANGED <<stopped, bell>>
      BY <2>2
      DEF GetRollup, GetLatestBatch, GetTip, GetParams, GetFeatures, ListPage, Read, ReadFails, Quiet
    <3>2. PollMode = "running" /\ PollMode' = "running"
      BY <2>2
      DEF GetRollup, GetLatestBatch, GetTip, GetParams, GetFeatures, ListPage, AfterTip,
          AfterWindow, PollMode
    <3> QED BY <3>1, <3>2
  <2>3. CASE Deliver \/ Throw
    <3>1. PollMode = "running" /\ CallBack /\ (Escapes \/ Rearm)
      BY <2>3 DEF Deliver, Throw, PollMode
    <3>2. CASE Rearm
      <4>1. PollMode' = IF stopped' THEN "off" ELSE "armed"
        BY <3>2 DEF Rearm, PollMode
      <4>2. Loop!CallBack \/ UNCHANGED <<stopped, bell>>
        BY <3>1 DEF CallBack, Loop!CallBack
      <4> QED BY <3>1, <4>1, <4>2 DEF Loop!LoopNext, Loop!Work
    <3>3. CASE Escapes
      <4>1. PollMode' = "off" /\ Loop!CallBack
        BY <3>1, <3>3 DEF Escapes, PollMode, CallBack, Loop!CallBack
      <4> QED BY <3>1, <4>1 DEF Loop!LoopNext, Loop!Die
    <3> QED BY <3>1, <3>2, <3>3
  <2>4. CASE Stop
    BY <2>4 DEF Stop, Awaits, PollMode, Loop!LoopNext, Loop!Stop
  <2>5. CASE ChainStep \/ UNCHANGED vars
    BY <2>5 DEF ChainStep, vars, PollMode
  <2> QED BY <2>1, <2>2, <2>3, <2>4, <2>5 DEF Next, TickStep
<1> QED BY <1>1, <1>2, MonitorInvariant, PTL DEF Spec, PollsAsPromised, Loop!LoopSpec

===============================================================================
