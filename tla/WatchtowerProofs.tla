--------------------------- MODULE WatchtowerProofs ---------------------------
(***************************************************************************)
(* Proofs about the watchtower, for every value of the constants.          *)
(***************************************************************************)
EXTENDS Watchtower, TLAPS

USE ChainAssumption, TowerAssumption

\* A number of blocks is a number.
LEMMA WindowBlocksInt ==
  ASSUME NEW w \in Nat
  PROVE  WindowBlocks(w) \in Int
BY DEF WindowBlocks, SecsPerBlock

\* A window open at a tip was open at every earlier tip: block heights and
\* block times only grow, so batchChallengeWindow never reopens a window.
LEMMA OpenAntitone ==
  ASSUME NEW b, b.submittedAt \in Nat, b.submittedTime \in Nat,
         NEW c, c.submittedAt = b.submittedAt, c.submittedTime = b.submittedTime,
         NEW w \in Nat, NEW t \in TipType, NEW u \in TipType,
         t.height <= u.height, t.timeSecs <= u.timeSecs,
         WindowOpen(b, w, u)
  PROVE  WindowOpen(c, w, t)
<1> DEFINE wb == WindowBlocks(w)
<1>1. wb \in Int
  BY WindowBlocksInt
<1>2. /\ t.height \in Nat /\ t.timeSecs \in Nat
      /\ u.height \in Nat /\ u.timeSecs \in Nat
  BY DEF TipType
<1> HIDE DEF wb
<1>3. CASE b.submittedTime > 0
  BY <1>2, <1>3 DEF WindowOpen, TimeMode, ElapsedFully
<1>4. CASE ~(b.submittedTime > 0)
  <2>1. u.height - b.submittedAt <= wb
    BY <1>4 DEF WindowOpen, TimeMode, wb
  <2>2. t.height - c.submittedAt <= wb
    BY <1>1, <1>2, <2>1
  <2> QED
    BY <1>4, <2>2 DEF WindowOpen, TimeMode, wb
<1> QED BY <1>3, <1>4

\* A batch follows itself.
LEMMA FollowsRefl ==
  ASSUME NEW b \in BatchView
  PROVE  Follows(b, b)
BY DEF Follows, BatchView

\* What follows a successor follows the batch.
LEMMA FollowsTrans ==
  ASSUME NEW a \in BatchView, NEW b \in BatchView, NEW c \in BatchView,
         Follows(a, b), Follows(b, c)
  PROVE  Follows(a, c)
BY DEF Follows, BatchView

\* Nothing but progress happens to a batch: a chain step keeps every stored
\* batch's submission or replaces it by a later one, and never revives it.
LEMMA ChainStepFollows ==
  ASSUME ChainTypeOK, ChainNext,
         \A i \in Indexes : i < count => LiveNotFinal(batches[i])
  PROVE  /\ ChainTypeOK'
         /\ count <= count'
         /\ chainTip.height <= chainTip'.height
         /\ chainTip.timeSecs <= chainTip'.timeSecs
         /\ \A i \in Indexes : i < count => Follows(batches[i], batches'[i])
         /\ \A i \in Indexes : i < count' => LiveNotFinal(batches'[i])
<1> DEFINE Goal == /\ ChainTypeOK'
                   /\ count <= count'
                   /\ chainTip.height <= chainTip'.height
                   /\ chainTip.timeSecs <= chainTip'.timeSecs
                   /\ \A i \in Indexes : i < count => Follows(batches[i], batches'[i])
                   /\ \A i \in Indexes : i < count' => LiveNotFinal(batches'[i])
<1>a. /\ MaxBatches \in Nat /\ BlockSecs \subseteq Nat
      /\ FirstVersion \in Int /\ LastVersion \in Int
  OBVIOUS
<1>b. /\ count \in Nat /\ count <= MaxBatches
      /\ chainTip \in TipType /\ chainTip.height \in Nat /\ chainTip.timeSecs \in Nat
  BY <1>a DEF ChainTypeOK, TipType
<1>c. \A i \in Indexes : i \in Nat /\ i < MaxBatches
  BY <1>a DEF Indexes
<1>d. \A i \in Indexes : i < count => batches[i] \in BatchView
  BY DEF ChainTypeOK
<1>e. \A i \in Indexes : ~(i < count) => batches[i] = NoBatch
  BY DEF ChainTypeOK
<1>f. \A i \in Indexes : i < count => Follows(batches[i], batches[i])
  BY <1>d, FollowsRefl
\* A step that changes the stored batches only as Follows allows.
<1>g. ASSUME UNCHANGED <<count, chainTip, version>>,
             batches' \in [Indexes -> BatchView \cup {NoBatch}],
             \A i \in Indexes : ~(i < count) => batches'[i] = NoBatch,
             \A i \in Indexes : i < count =>
               /\ batches'[i] \in BatchView
               /\ Follows(batches[i], batches'[i])
               /\ LiveNotFinal(batches'[i])
      PROVE  Goal
  BY <1>b, <1>g DEF ChainTypeOK
<1>1. CASE NewBlock
  <2>1. PICK d \in BlockSecs :
          chainTip' = [height |-> chainTip.height + 1, timeSecs |-> chainTip.timeSecs + d]
    BY <1>1 DEF NewBlock
  <2>2. UNCHANGED <<batches, count, version>>
    BY <1>1 DEF NewBlock
  <2>3. d \in Nat
    BY <1>a
  <2>4. chainTip' \in TipType /\ chainTip'.height = chainTip.height + 1
        /\ chainTip'.timeSecs = chainTip.timeSecs + d
    BY <1>b, <2>1, <2>3 DEF TipType
  <2>5. ChainTypeOK'
    BY <2>2, <2>4 DEF ChainTypeOK
  <2> QED BY <1>b, <1>f, <2>2, <2>3, <2>4, <2>5
<1>2. CASE Upgrade
  <2>1. UNCHANGED <<batches, count, chainTip>> /\ version' = version + 1 /\ version < LastVersion
    BY <1>2 DEF Upgrade
  <2>2. version' \in FirstVersion .. LastVersion
    BY <1>a, <2>1 DEF ChainTypeOK
  <2>3. ChainTypeOK'
    BY <2>1, <2>2 DEF ChainTypeOK
  <2> QED BY <1>b, <1>f, <2>1, <2>3
<1>3. ASSUME NEW i \in Indexes, NEW root \in Roots, NEW ok \in BOOLEAN,
             SubmitBatch(i, root, ok)
      PROVE  Goal
  <2> DEFINE new == [stateRoot |-> root, valid |-> ok, status |-> "submitted",
                     submittedAt |-> chainTip.height,
                     submittedTime |-> IF version = 0 THEN 0 ELSE chainTip.timeSecs,
                     finalizedAt |-> 0, submission |-> batches[i].submission + 1]
  <2>1. batches' = [batches EXCEPT ![i] = new]
        /\ count' = (IF i = count THEN count + 1 ELSE count)
        /\ UNCHANGED <<chainTip, version>>
    BY <1>3 DEF SubmitBatch
  <2>2. i <= count
    BY <1>b, <1>c, <1>3 DEF SubmitBatch, IsNextIndex, Reusable
  <2>3. batches[i].submission \in Nat
    BY <1>d, <1>e DEF BatchView, NoBatch
  <2>4. new \in BatchView
    BY <1>b, <2>3 DEF BatchView, BatchStatus
  <2>5. LiveNotFinal(new)
    BY DEF LiveNotFinal
  <2>6. i < count => Follows(batches[i], new)
    BY <2>3 DEF Follows
  <2> HIDE DEF new
  <2>7. /\ batches' \in [Indexes -> BatchView \cup {NoBatch}]
        /\ batches'[i] = new
        /\ \A j \in Indexes : j # i => batches'[j] = batches[j]
    BY <2>1, <2>4 DEF ChainTypeOK
  <2>8. /\ count' \in 0 .. MaxBatches /\ count <= count'
        /\ \A j \in Indexes : j # i => (j < count' <=> j < count)
        /\ i < count'
    BY <1>a, <1>b, <1>c, <2>1, <2>2
  <2>9. ChainTypeOK'
    BY <1>d, <1>e, <2>1, <2>4, <2>7, <2>8 DEF ChainTypeOK
  <2> QED BY <1>b, <1>f, <2>1, <2>5, <2>6, <2>7, <2>8, <2>9
<1>4. ASSUME NEW i \in Indexes,
             Challenge(i) \/ UpholdFraud(i) \/ DismissChallenge(i) \/ FinalizeBatch(i)
      PROVE  Goal
  <2>1. UNCHANGED <<count, chainTip, version>>
    BY <1>4 DEF Challenge, UpholdFraud, DismissChallenge, FinalizeBatch
  <2>2. batches[i].status \in {"submitted", "challenged"}
    BY <1>4 DEF Challenge, UpholdFraud, DismissChallenge, FinalizeBatch
  <2>3. i < count /\ batches[i] \in BatchView /\ Live(batches[i])
    BY <1>d, <1>e, <2>2 DEF NoBatch, Live
  <2>4. ASSUME NEW c \in BatchView, batches' = [batches EXCEPT ![i] = c],
               Follows(batches[i], c), LiveNotFinal(c)
        PROVE  Goal
    <3>1. /\ batches' \in [Indexes -> BatchView \cup {NoBatch}]
          /\ batches'[i] = c
          /\ \A j \in Indexes : j # i => batches'[j] = batches[j]
      BY <2>4 DEF ChainTypeOK
    <3> HIDE DEF Goal
    <3> QED BY <1>d, <1>e, <1>f, <1>g, <2>1, <2>3, <2>4, <3>1
  <2>5. CASE Challenge(i)
    <3> DEFINE c == [batches[i] EXCEPT !.status = "challenged"]
    <3>1. c \in BatchView /\ c.finalizedAt = batches[i].finalizedAt
      BY <2>3 DEF BatchView, BatchStatus
    <3>2. Follows(batches[i], c)
      BY <2>3 DEF Follows, BatchView
    <3>3. LiveNotFinal(c)
      BY <2>3, <3>1 DEF LiveNotFinal
    <3>4. batches' = [batches EXCEPT ![i] = c]
      BY <2>5 DEF Challenge
    <3> HIDE DEF Goal, c
    <3> QED BY <2>4, <3>1, <3>2, <3>3, <3>4
  <2>6. CASE UpholdFraud(i)
    <3> DEFINE rej(j) == [batches[j] EXCEPT !.status = "rejected"]
    <3>1. ASSUME NEW j \in Indexes, j < count
          PROVE  /\ rej(j) \in BatchView
                 /\ Follows(batches[j], rej(j))
                 /\ LiveNotFinal(rej(j))
      <4>1. batches[j] \in BatchView
        BY <1>d, <3>1
      <4> QED BY <4>1 DEF BatchView, BatchStatus, Follows, LiveNotFinal, Live
    <3>2. \A j \in Indexes : ~(j < count) => j # i /\ ~Live(batches[j])
      BY <1>e, <2>3 DEF NoBatch, Live
    <3> HIDE DEF rej
    <3>3. batches' = [j \in Indexes |->
             IF j = i \/ (version = 2 /\ j > i /\ Live(batches[j]))
             THEN rej(j) ELSE batches[j]]
      BY <2>6 DEF UpholdFraud, rej
    <3>4. \A j \in Indexes : batches'[j] = batches[j] \/ (j < count /\ batches'[j] = rej(j))
      BY <2>3, <3>2, <3>3
    <3>5. \A j \in Indexes : batches'[j] \in BatchView \cup {NoBatch}
      BY <1>d, <1>e, <3>1, <3>4
    <3>6. batches' \in [Indexes -> BatchView \cup {NoBatch}]
      BY <3>3, <3>5
    <3> HIDE DEF Goal
    <3>7. \A j \in Indexes : ~(j < count) => batches'[j] = NoBatch
      BY <1>e, <3>4
    <3>8. \A j \in Indexes : j < count =>
            /\ batches'[j] \in BatchView
            /\ Follows(batches[j], batches'[j])
            /\ LiveNotFinal(batches'[j])
      BY <1>d, <1>f, <3>1, <3>4
    <3> QED BY <1>g, <2>1, <3>6, <3>7, <3>8
  <2>7. CASE DismissChallenge(i) \/ FinalizeBatch(i)
    <3> DEFINE c == [batches[i] EXCEPT !.status = "finalized", !.finalizedAt = chainTip.height]
    <3>1. c \in BatchView
      BY <1>b, <2>3 DEF BatchView, BatchStatus
    <3>2. Follows(batches[i], c) /\ LiveNotFinal(c)
      BY <2>3 DEF Follows, BatchView, LiveNotFinal, Live
    <3>3. batches' = [batches EXCEPT ![i] = c]
      BY <2>7 DEF DismissChallenge, FinalizeBatch, FinalizedNow
    <3> HIDE DEF Goal, c
    <3> QED BY <2>4, <3>1, <3>2, <3>3
  <2> QED BY <1>4, <2>5, <2>6, <2>7
<1> QED BY <1>1, <1>2, <1>3, <1>4 DEF ChainNext

\* The initial states satisfy the inductive invariant.
LEMMA PollInvInit == Init => PollInv
<1> SUFFICES ASSUME Init PROVE PollInv
  OBVIOUS
<1>1. ChainTypeOK
  BY DEF Init, ChainInit, ChainTypeOK, TipType, Indexes
<1>2. TowerTypeOK
  <2>1. pc \in Awaits \cup Sync \cup {"off"}
    BY DEF Init, Awaits
  <2>2. listed \in [Indexes -> BatchView \cup {NoBatch}]
    BY DEF Init, NothingListed
  <2>3. windowSecs \in Nat \cup {Unknown} /\ faults \in 0 .. MaxFaults
    BY DEF Init
  <2> QED BY <2>1, <2>2, <2>3 DEF Init, TowerTypeOK
<1>3. CursorInv
  BY DEF Init, ChainInit, CursorInv, InTick, InLoop, Listing
<1>4. SnapshotInv
  BY DEF Init, ChainInit, SnapshotInv, InTick, InLoop, Indexes
<1>5. OldestOpenInv
  BY DEF Init, OldestOpenInv, InLoop
<1>6. OpenBatchesStayPolled
  BY DEF Init, ChainInit, OpenBatchesStayPolled, Challengeable, Indexes
<1> QED BY <1>1, <1>2, <1>3, <1>4, <1>5, <1>6 DEF PollInv, TypeOK

\* A step that leaves the chain and the poll's start alone, and learns or
\* keeps the window, keeps OpenBatchesStayPolled.
LEMMA PolledKept ==
  ASSUME PollInv, UNCHANGED <<chainVars, pollFrom>>,
         windowSecs' = windowSecs \/ windowSecs = Unknown
  PROVE  OpenBatchesStayPolled'
<1>1. CASE windowSecs' = windowSecs
  BY <1>1 DEF PollInv, OpenBatchesStayPolled, Challengeable, chainVars
<1>2. CASE windowSecs = Unknown
  <2>1. pollFrom' = 0
    BY <1>2 DEF PollInv, CursorInv
  <2>2. \A i \in Indexes : pollFrom' <= i
    BY <2>1 DEF Indexes
  <2> QED BY <2>2 DEF OpenBatchesStayPolled
<1> QED BY <1>1, <1>2

\* The chain moving on under a suspended loop keeps the invariant.
LEMMA ChainStepKeeps ==
  ASSUME PollInv, ChainStep
  PROVE  PollInv'
<1>1. ChainNext /\ UNCHANGED towerVars /\ pc \in Awaits
  BY DEF ChainStep
<1>2. UNCHANGED <<pc, stopped, windowSecs, pollFrom, nextStart, cursor, k, listed, tip,
                  oldestOpen, seen, warned, unjudged, bell, escaped, faults>>
  BY <1>1 DEF towerVars, loopVars
<1>3. ChainTypeOK /\ \A i \in Indexes : i < count => LiveNotFinal(batches[i])
  BY DEF PollInv, TypeOK, SnapshotInv
<1>4. /\ ChainTypeOK'
      /\ count <= count'
      /\ chainTip.height <= chainTip'.height
      /\ chainTip.timeSecs <= chainTip'.timeSecs
      /\ \A i \in Indexes : i < count => Follows(batches[i], batches'[i])
      /\ \A i \in Indexes : i < count' => LiveNotFinal(batches'[i])
  BY <1>1, <1>3, ChainStepFollows
<1>5. /\ count \in Nat /\ count' \in Nat /\ chainTip \in TipType /\ chainTip' \in TipType
      /\ \A i \in Indexes : i < count => batches[i] \in BatchView
      /\ \A i \in Indexes : i < count' => batches'[i] \in BatchView
  BY <1>3, <1>4 DEF ChainTypeOK
<1>6. TowerTypeOK /\ CursorInv /\ SnapshotInv /\ OldestOpenInv /\ OpenBatchesStayPolled
  BY DEF PollInv, TypeOK
<1>7. TowerTypeOK'
  BY <1>2, <1>6 DEF TowerTypeOK
<1>n. /\ pollFrom \in Nat /\ nextStart \in Nat /\ cursor \in Nat /\ k \in Nat
      /\ \A i \in Indexes : i \in Nat
  BY <1>6 DEF TowerTypeOK, Indexes
<1>8. CursorInv'
  BY <1>2, <1>4, <1>5, <1>6, <1>n DEF CursorInv
<1>9. SnapshotInv'
  <2>1. ASSUME NEW i \in Indexes, pc \in InTick, pollFrom <= i, i < cursor
        PROVE  listed[i] \in BatchView /\ LiveNotFinal(listed[i]) /\ Follows(listed[i], batches'[i])
    <3>1. listed[i] \in BatchView /\ LiveNotFinal(listed[i]) /\ Follows(listed[i], batches[i])
      BY <1>6, <2>1 DEF SnapshotInv
    <3>2. i < count
      BY <1>5, <1>6, <1>n, <2>1 DEF CursorInv
    <3>3. batches[i] \in BatchView /\ batches'[i] \in BatchView
      BY <1>4, <1>5, <1>n, <3>2
    <3> QED BY <1>4, <3>1, <3>2, <3>3, FollowsTrans
  <2>2. pc \in InLoop /\ tip # Unknown =>
          tip.height <= chainTip'.height /\ tip.timeSecs <= chainTip'.timeSecs
    <3> SUFFICES ASSUME pc \in InLoop, tip # Unknown
                 PROVE  tip.height <= chainTip'.height /\ tip.timeSecs <= chainTip'.timeSecs
      OBVIOUS
    <3>1. tip \in TipType /\ tip.height <= chainTip.height /\ tip.timeSecs <= chainTip.timeSecs
      BY <1>6 DEF SnapshotInv, TowerTypeOK
    <3> QED BY <1>4, <1>5, <3>1 DEF TipType
  <2> QED BY <1>2, <1>4, <2>1, <2>2 DEF SnapshotInv
<1>10. OldestOpenInv'
  BY <1>2, <1>6 DEF OldestOpenInv, OpenView
<1>11. OpenBatchesStayPolled'
  <2> SUFFICES ASSUME windowSecs' = RollupWindow, NEW i \in Indexes,
                      Challengeable(i)', batches'[i].submission = 1
               PROVE  pollFrom' <= i
    BY DEF OpenBatchesStayPolled
  <2>1. CASE i < count
    <3>1. /\ Follows(batches[i], batches'[i])
          /\ batches[i] \in BatchView /\ batches'[i] \in BatchView
      BY <1>4, <1>5, <1>n, <2>1
    <3>2. batches[i].submission = 1
      BY <3>1 DEF Follows, BatchView
    <3>3. /\ batches[i].submittedAt = batches'[i].submittedAt
          /\ batches[i].submittedTime = batches'[i].submittedTime
          /\ Live(batches'[i]) => Live(batches[i])
      BY <3>1, <3>2 DEF Follows
    <3>4. Live(batches'[i]) /\ WindowOpen(batches'[i], RollupWindow, chainTip')
      BY DEF Challengeable
    <3>5. RollupWindow \in Nat /\ batches'[i].submittedAt \in Nat /\ batches'[i].submittedTime \in Nat
      BY <3>1 DEF BatchView
    <3>6. WindowOpen(batches[i], RollupWindow, chainTip)
      BY <1>4, <1>5, <3>3, <3>4, <3>5, OpenAntitone
    <3>7. Challengeable(i)
      BY <2>1, <3>3, <3>4, <3>6 DEF Challengeable
    <3> QED BY <1>2, <1>6, <3>2, <3>7 DEF OpenBatchesStayPolled
  <2>2. CASE ~(i < count)
    BY <1>2, <1>5, <1>6, <1>n, <2>2 DEF CursorInv
  <2> QED BY <2>1, <2>2
<1> QED BY <1>4, <1>7, <1>8, <1>9, <1>10, <1>11 DEF PollInv, TypeOK

\* The batch the loop is at was listed, and has a key.
LEMMA CurrentBatch ==
  ASSUME PollInv, pc \in InLoop, k < cursor
  PROVE  k \in Indexes /\ listed[k] \in BatchView /\ KeyOf(k, listed[k]) \in Indexes \X Roots
<1>1. /\ pollFrom \in Nat /\ k \in Nat /\ cursor \in Nat /\ count \in Nat /\ count <= MaxBatches
      /\ pollFrom <= k /\ cursor <= count /\ MaxBatches \in Nat
  BY DEF PollInv, TypeOK, TowerTypeOK, ChainTypeOK, CursorInv, InTick, InLoop
<1>2. k \in Indexes
  BY <1>1 DEF Indexes
<1>3. listed[k] \in BatchView
  BY <1>1, <1>2 DEF PollInv, SnapshotInv, InTick, InLoop
<1> QED BY <1>2, <1>3 DEF KeyOf, BatchView

\* A tick that ends, in success or in failure, and leaves the cursors in order
\* and no open batch behind keeps the invariant.
LEMMA RestKeeps ==
  ASSUME PollInv, UNCHANGED <<chainVars, windowSecs, nextStart>>,
         pc' \in {"sleep", "off"}, stopped' \in BOOLEAN, bell' \in BOOLEAN,
         escaped' \in BOOLEAN,
         pollFrom' \in Nat, pollFrom' <= nextStart, windowSecs = Unknown => pollFrom' = 0,
         DropTick, tip' \in TipType \cup {Unknown},
         seen' \subseteq Indexes \X Roots, warned' \subseteq Indexes \X Roots,
         unjudged' \subseteq Indexes \X Roots, faults' \in 0 .. MaxFaults,
         OpenBatchesStayPolled'
  PROVE  PollInv'
<1>1. ChainTypeOK'
  BY DEF PollInv, TypeOK, ChainTypeOK, chainVars
<1>2. TowerTypeOK'
  <2>1. listed' \in [Indexes -> BatchView \cup {NoBatch}]
    BY DEF DropTick, NothingListed
  <2>2. pc' \in Awaits \cup Sync \cup {"off"}
    BY DEF Awaits
  <2> QED BY <2>1, <2>2 DEF PollInv, TypeOK, TowerTypeOK, DropTick
<1>3. CursorInv'
  BY DEF PollInv, CursorInv, InTick, InLoop, Listing, chainVars
<1>4. SnapshotInv'
  BY DEF PollInv, SnapshotInv, InTick, InLoop, chainVars
<1>5. OldestOpenInv'
  BY DEF OldestOpenInv, InLoop, DropTick
<1> QED BY <1>1, <1>2, <1>3, <1>4, <1>5 DEF PollInv, TypeOK

\* The outer catch keeps the invariant, whatever was surfaced or alerted in
\* the step that failed and however far nextStart had moved.
LEMMA CatchKeeps ==
  ASSUME PollInv, pc \in InTick, Catch, UNCHANGED <<chainVars, windowSecs>>,
         nextStart' \in Nat, nextStart <= nextStart', nextStart' <= count,
         seen' \subseteq Indexes \X Roots, warned' \subseteq Indexes \X Roots,
         unjudged' \subseteq Indexes \X Roots
  PROVE  PollInv'
<1>1. /\ pollFrom' = pollFrom /\ DropTick /\ tip' = Unknown
      /\ faults < MaxFaults /\ faults' = faults + 1
  BY DEF Catch, Fault
<1>2. pc' \in {"sleep", "off"}
  BY DEF Catch, Rearm, Escapes
<1>3. stopped' \in BOOLEAN /\ bell' \in BOOLEAN /\ escaped' \in BOOLEAN
  BY DEF Catch, Escapes, ReportError, Silent, Calls, PollInv, TypeOK, TowerTypeOK
<1>4. faults' \in 0 .. MaxFaults
  BY <1>1 DEF PollInv, TypeOK, TowerTypeOK
<1>5. OpenBatchesStayPolled'
  BY <1>1, PolledKept
<1>6. pollFrom \in Nat /\ nextStart \in Nat /\ pollFrom <= nextStart /\ count \in Nat
  BY DEF PollInv, TypeOK, TowerTypeOK, CursorInv, ChainTypeOK
<1>7. ChainTypeOK'
  BY DEF PollInv, TypeOK, ChainTypeOK, chainVars
<1>8. TowerTypeOK'
  <2>1. listed' \in [Indexes -> BatchView \cup {NoBatch}]
    BY <1>1 DEF DropTick, NothingListed
  <2>2. pc' \in Awaits \cup Sync \cup {"off"}
    BY <1>2 DEF Awaits
  <2>3. cursor' = 0 /\ k' = 0 /\ oldestOpen' = Unknown
    BY <1>1 DEF DropTick
  <2> QED BY <1>1, <1>3, <1>4, <1>6, <2>1, <2>2, <2>3 DEF PollInv, TypeOK, TowerTypeOK
<1>9. CursorInv'
  BY <1>1, <1>2, <1>6 DEF PollInv, CursorInv, InTick, InLoop, Listing, chainVars
<1>10. SnapshotInv'
  BY <1>2 DEF PollInv, SnapshotInv, InTick, InLoop, chainVars
<1>11. OldestOpenInv'
  BY <1>1, <1>2 DEF OldestOpenInv, InLoop, DropTick
<1> QED BY <1>5, <1>7, <1>8, <1>9, <1>10, <1>11 DEF PollInv, TypeOK

\* The reads a tick starts with keep the invariant.
LEMMA StartKeeps ==
  ASSUME PollInv, Tick \/ GetRollup \/ GetParams
  PROVE  PollInv'
<1>1. /\ UNCHANGED <<chainVars, pollFrom, nextStart, listed, k, oldestOpen, seen, warned,
                     unjudged, escaped, faults, bell, stopped>>
      /\ windowSecs' = windowSecs \/ pc \in {"getRollup", "getParams"}
  BY DEF Tick, GetRollup, GetParams, loopVars, Silent
<1>2. /\ pollFrom \in Nat /\ nextStart \in Nat /\ cursor \in Nat /\ count \in Nat
      /\ pollFrom <= nextStart /\ nextStart <= count
      /\ pc \in {"getRollup", "getParams"} => pollFrom <= cursor /\ cursor <= count
  BY DEF PollInv, TypeOK, TowerTypeOK, ChainTypeOK, CursorInv, InTick
<1>3. pc' \in {"getRollup", "getParams", "list"} /\ pc \in {"sleep", "getRollup", "getParams"}
  BY DEF Tick, StartTick, GetRollup, GetParams
<1>4. /\ windowSecs' \in Nat \cup {Unknown}
      /\ pc' = "list" => windowSecs' # Unknown
  BY DEF Tick, StartTick, GetRollup, GetParams, PollInv, TypeOK, TowerTypeOK
<1>5. tip' \in TipType \cup {Unknown}
  BY DEF Tick, GetRollup, GetParams, PollInv, TypeOK, TowerTypeOK
<1>6. cursor' = pollFrom \/ (cursor' = cursor /\ pc \in {"getRollup", "getParams"})
  BY DEF Tick, StartTick, GetRollup, GetParams, loopVars
<1>7. ChainTypeOK'
  BY <1>1 DEF PollInv, TypeOK, ChainTypeOK, chainVars
<1>8. TowerTypeOK'
  BY <1>1, <1>2, <1>3, <1>4, <1>5, <1>6 DEF PollInv, TypeOK, TowerTypeOK, Awaits
<1>9. pc \in {"getRollup", "getParams"} => windowSecs = Unknown
  BY DEF PollInv, CursorInv
<1>a. pc' \in {"getRollup", "getParams"} => windowSecs' = Unknown
  BY <1>9 DEF Tick, StartTick, GetRollup, GetParams
<1>10. CursorInv'
  BY <1>1, <1>2, <1>3, <1>4, <1>6, <1>9, <1>a
  DEF PollInv, CursorInv, InTick, InLoop, Listing, chainVars
<1>11. SnapshotInv'
  BY <1>1, <1>2, <1>3, <1>6 DEF PollInv, SnapshotInv, InTick, InLoop, chainVars, Indexes
<1>12. OldestOpenInv'
  BY <1>1, <1>3 DEF PollInv, OldestOpenInv, InLoop
<1>13. OpenBatchesStayPolled'
  BY <1>1, <1>9, PolledKept
<1> QED BY <1>7, <1>8, <1>10, <1>11, <1>12, <1>13 DEF PollInv, TypeOK

\* A page of the list keeps the invariant: what it copies is what the chain
\* holds, and the last page reaches every index in use.
LEMMA ListPageKeeps ==
  ASSUME PollInv, ListPage
  PROVE  PollInv'
<1> DEFINE upto == IF cursor + PageSize < count THEN cursor + PageSize ELSE count
<1>1. /\ UNCHANGED <<chainVars, windowSecs, pollFrom, nextStart, k, tip, oldestOpen, seen,
                     warned, unjudged, escaped, faults, bell, stopped>>
      /\ pc = "list" /\ cursor' = upto /\ pc' = IF upto < count THEN "list" ELSE "tip"
      /\ listed' = [i \in Indexes |->
                      IF cursor <= i /\ i < upto THEN batches[i] ELSE listed[i]]
  BY DEF ListPage, Silent
<1>2. /\ pollFrom \in Nat /\ nextStart \in Nat /\ cursor \in Nat /\ count \in Nat
      /\ PageSize \in Nat \ {0} /\ pollFrom <= nextStart /\ nextStart <= count
      /\ pollFrom <= cursor /\ cursor <= count
  BY <1>1 DEF PollInv, TypeOK, TowerTypeOK, ChainTypeOK, CursorInv, InTick
<1>3. upto \in Nat /\ cursor <= upto /\ upto <= count /\ (upto < count \/ upto = count)
  BY <1>2
<1> HIDE DEF upto
<1>4. pc' \in {"list", "tip"}
  BY <1>1
<1>5. ChainTypeOK'
  BY <1>1 DEF PollInv, TypeOK, ChainTypeOK, chainVars
<1>6. TowerTypeOK'
  <2>1. listed' \in [Indexes -> BatchView \cup {NoBatch}]
    BY <1>1 DEF PollInv, TypeOK, ChainTypeOK, TowerTypeOK
  <2> QED BY <1>1, <1>3, <1>4, <2>1 DEF PollInv, TypeOK, TowerTypeOK, Awaits
<1>7. CursorInv'
  BY <1>1, <1>2, <1>3, <1>4 DEF PollInv, CursorInv, InTick, InLoop, Listing, chainVars
<1>8. SnapshotInv'
  <2>1. ASSUME NEW i \in Indexes, pollFrom <= i, i < upto
        PROVE  listed'[i] \in BatchView /\ LiveNotFinal(listed'[i]) /\ Follows(listed'[i], batches[i])
    <3>0. i \in Nat
      BY DEF Indexes
    <3>1. CASE i < cursor
      BY <1>1, <1>2, <2>1, <3>0, <3>1 DEF PollInv, SnapshotInv, InTick
    <3>2. CASE ~(i < cursor)
      <4>1. listed'[i] = batches[i] /\ i < count
        BY <1>1, <1>2, <1>3, <2>1, <3>0, <3>2
      <4>2. batches[i] \in BatchView /\ LiveNotFinal(batches[i])
        BY <4>1 DEF PollInv, TypeOK, ChainTypeOK, SnapshotInv
      <4> QED BY <4>1, <4>2, FollowsRefl
    <3> QED BY <3>1, <3>2
  <2> QED BY <1>1, <1>4, <2>1 DEF PollInv, SnapshotInv, InLoop, chainVars
<1>9. OldestOpenInv'
  BY <1>1, <1>4 DEF PollInv, OldestOpenInv, InLoop
<1>10. OpenBatchesStayPolled'
  BY <1>1, PolledKept
<1> QED BY <1>5, <1>6, <1>7, <1>8, <1>9, <1>10 DEF PollInv, TypeOK

\* Reading the tip, or failing to, keeps the invariant.
LEMMA ReadTipKeeps ==
  ASSUME PollInv, ReadTip
  PROVE  PollInv'
<1>0. /\ UNCHANGED <<chainVars, windowSecs, nextStart, seen, warned, unjudged>>
      /\ pc = "tip" /\ pc \in InTick
  BY DEF ReadTip, InTick
<1>t. /\ nextStart \in Nat /\ nextStart <= count
      /\ seen \subseteq Indexes \X Roots /\ warned \subseteq Indexes \X Roots
      /\ unjudged \subseteq Indexes \X Roots
  BY DEF PollInv, TypeOK, TowerTypeOK, CursorInv
<1>c. CASE Catch
  BY <1>0, <1>t, <1>c, CatchKeeps
<1>n. CASE ~Catch
  <2>1. /\ UNCHANGED <<chainVars, windowSecs, pollFrom, nextStart, listed, cursor, oldestOpen,
                       seen, warned, unjudged, escaped>>
        /\ pc = "tip" /\ pc' = "loop" /\ k' = pollFrom
        /\ tip' = chainTip \/ tip' = Unknown
    BY <1>n DEF ReadTip
  <2>2. stopped' \in BOOLEAN /\ bell' \in BOOLEAN
    BY <1>n DEF ReadTip, ReportError, Silent, Calls, PollInv, TypeOK, TowerTypeOK
  <2>3. faults' \in 0 .. MaxFaults
    BY <1>n DEF ReadTip, Fault, PollInv, TypeOK, TowerTypeOK
  <2>4. /\ pollFrom \in Nat /\ nextStart \in Nat /\ cursor \in Nat /\ count \in Nat
        /\ pollFrom <= nextStart /\ nextStart <= count
        /\ pollFrom <= cursor /\ cursor <= count /\ nextStart <= cursor
        /\ windowSecs # Unknown /\ oldestOpen = Unknown /\ chainTip \in TipType
    BY <2>1
    DEF PollInv, TypeOK, TowerTypeOK, ChainTypeOK, CursorInv, InTick, InLoop, Listing,
        OldestOpenInv
  <2>5. ChainTypeOK'
    BY <2>1 DEF PollInv, TypeOK, ChainTypeOK, chainVars
  <2>6. TowerTypeOK'
    BY <2>1, <2>2, <2>3, <2>4 DEF PollInv, TypeOK, TowerTypeOK, Sync
  <2>7. CursorInv'
    BY <2>1, <2>4 DEF CursorInv, InTick, InLoop, Listing, chainVars
  <2>8. SnapshotInv'
    BY <2>1, <2>4 DEF PollInv, SnapshotInv, InTick, InLoop, chainVars, TipType
  <2>9. OldestOpenInv'
    BY <2>1, <2>4 DEF OldestOpenInv, InLoop, Indexes
  <2>10. OpenBatchesStayPolled'
    BY <2>1, PolledKept
  <2> QED BY <2>5, <2>6, <2>7, <2>8, <2>9, <2>10 DEF PollInv, TypeOK
<1> QED BY <1>c, <1>n

\* Visiting a batch, and the verdict on it, keep the invariant.
LEMMA VisitKeeps ==
  ASSUME PollInv, Visit \/ Verdict \/ ValidateThrows
  PROVE  PollInv'
<1>1. /\ UNCHANGED <<chainVars, windowSecs, warned>>
      /\ pc \in {"loop", "validate"} /\ k < cursor
      /\ pc \in InLoop /\ pc \in InTick
  BY DEF Visit, Verdict, ValidateThrows, PollInv, CursorInv, InLoop, InTick
<1>2. k \in Indexes /\ listed[k] \in BatchView /\ KeyOf(k, listed[k]) \in Indexes \X Roots
  BY <1>1, CurrentBatch
<1>3. /\ pollFrom \in Nat /\ nextStart \in Nat /\ cursor \in Nat /\ count \in Nat /\ k \in Nat
      /\ pollFrom <= nextStart /\ nextStart <= count /\ nextStart <= cursor
      /\ pollFrom <= k /\ cursor <= count /\ k <= nextStart
      /\ windowSecs # Unknown
      /\ pc = "validate" => k < nextStart
  BY <1>1 DEF PollInv, TypeOK, TowerTypeOK, ChainTypeOK, CursorInv, InTick, InLoop, Listing
<1>4. /\ nextStart' \in Nat /\ nextStart <= nextStart' /\ nextStart' <= cursor
      /\ k < nextStart' /\ nextStart' <= count
  BY <1>1, <1>3 DEF Visit, Verdict, ValidateThrows
<1>5. seen' \subseteq Indexes \X Roots /\ unjudged' \subseteq Indexes \X Roots
      /\ warned' \subseteq Indexes \X Roots
  <2>1. seen' = seen \/ seen' = seen \cup {KeyOf(k, listed[k])}
    BY DEF Visit, Surface, Verdict, ValidateThrows
  <2>2. unjudged' \subseteq unjudged \cup {KeyOf(k, listed[k])}
    BY DEF Visit, Surface, Verdict, ValidateThrows
  <2> QED BY <1>1, <1>2, <2>1, <2>2 DEF PollInv, TypeOK, TowerTypeOK
<1>6. CASE Catch
  BY <1>1, <1>4, <1>5, <1>6, CatchKeeps
<1>7. CASE ~Catch
  <2>1. /\ pc' \in {"deadline", "validate"}
        /\ UNCHANGED <<pollFrom, listed, cursor, tip, k, oldestOpen, escaped, faults>>
    BY <1>7 DEF Visit, Surface, Verdict, ValidateThrows
  <2>2. stopped' \in BOOLEAN /\ bell' \in BOOLEAN
    BY <1>7 DEF Visit, Surface, Verdict, ValidateThrows, Silent, Calls, PollInv, TypeOK, TowerTypeOK
  <2>3. ChainTypeOK'
    BY <1>1 DEF PollInv, TypeOK, ChainTypeOK, chainVars
  <2>4. TowerTypeOK'
    BY <1>1, <1>4, <1>5, <2>1, <2>2 DEF PollInv, TypeOK, TowerTypeOK, Awaits, Sync
  <2>5. CursorInv'
    BY <1>1, <1>3, <1>4, <2>1 DEF CursorInv, InTick, InLoop, Listing, chainVars
  <2>6. SnapshotInv'
    BY <1>1, <2>1 DEF PollInv, SnapshotInv, InTick, InLoop, chainVars
  <2>7. OldestOpenInv'
    BY <1>1, <2>1 DEF PollInv, OldestOpenInv, InLoop, OpenView
  <2>8. OpenBatchesStayPolled'
    BY <1>1, <2>1, PolledKept
  <2> QED BY <2>3, <2>4, <2>5, <2>6, <2>7, <2>8 DEF PollInv, TypeOK
<1> QED BY <1>6, <1>7

\* Passing a batch keeps oldestOpen the least open index.
LEMMA DeadlineKeeps ==
  ASSUME PollInv, CheckDeadline
  PROVE  PollInv'
<1> DEFINE b == listed[k]
           open == LiveView(b) /\ OpenView(b)
           alert == open /\ NearDeadline(b) /\ KeyOf(k, b) \notin warned /\ ~stopped
<1>1. /\ UNCHANGED <<chainVars, windowSecs, nextStart, seen, unjudged>>
      /\ pc = "deadline" /\ k < cursor
      /\ pc \in InLoop /\ pc \in InTick
  BY DEF CheckDeadline, PollInv, CursorInv, InLoop, InTick
<1>2. k \in Indexes /\ listed[k] \in BatchView /\ KeyOf(k, listed[k]) \in Indexes \X Roots
  BY <1>1, CurrentBatch
<1>3. /\ pollFrom \in Nat /\ nextStart \in Nat /\ cursor \in Nat /\ count \in Nat /\ k \in Nat
      /\ pollFrom <= nextStart /\ nextStart <= count /\ nextStart <= cursor
      /\ pollFrom <= k /\ cursor <= count /\ k < nextStart
      /\ windowSecs # Unknown /\ oldestOpen \in Nat \cup {Unknown} /\ Unknown \notin Nat
  BY <1>1 DEF PollInv, TypeOK, TowerTypeOK, ChainTypeOK, CursorInv, InTick, InLoop, Listing
<1>4. /\ seen' \subseteq Indexes \X Roots /\ unjudged' \subseteq Indexes \X Roots
      /\ warned' \subseteq Indexes \X Roots
  <2>1. warned' \subseteq warned \cup {KeyOf(k, listed[k])}
    BY DEF CheckDeadline
  <2> QED BY <1>1, <1>2, <2>1 DEF PollInv, TypeOK, TowerTypeOK
<1>5. CASE Catch
  BY <1>1, <1>3, <1>4, <1>5, CatchKeeps
<1>6. CASE ~Catch
  <2>1. /\ pc' = "loop" /\ k' = k + 1
        /\ UNCHANGED <<pollFrom, listed, cursor, tip, escaped, faults>>
        /\ oldestOpen' = IF open /\ (oldestOpen = Unknown \/ k < oldestOpen)
                         THEN k ELSE oldestOpen
    BY <1>6 DEF CheckDeadline
  <2>2. stopped' \in BOOLEAN /\ bell' \in BOOLEAN
    BY <1>6 DEF CheckDeadline, Silent, Calls, PollInv, TypeOK, TowerTypeOK
  <2>3. ChainTypeOK'
    BY <1>1 DEF PollInv, TypeOK, ChainTypeOK, chainVars
  <2>4. TowerTypeOK'
    BY <1>1, <1>3, <1>4, <2>1, <2>2 DEF PollInv, TypeOK, TowerTypeOK, Sync
  <2>5. CursorInv'
    BY <1>1, <1>3, <2>1 DEF CursorInv, InTick, InLoop, Listing, chainVars
  <2>6. SnapshotInv'
    BY <1>1, <2>1 DEF PollInv, SnapshotInv, InTick, InLoop, chainVars
  <2>7. OldestOpenInv'
    <3>0. pc' \in InLoop
      BY <2>1 DEF InLoop
    <3>1. /\ oldestOpen # Unknown => pollFrom <= oldestOpen /\ oldestOpen < k
          /\ \A j \in Indexes :
               pollFrom <= j /\ j < k /\ LiveView(listed[j]) /\ OpenView(listed[j]) =>
                 oldestOpen # Unknown /\ oldestOpen <= j
      BY <1>1 DEF PollInv, OldestOpenInv
    <3>2. \A j \in Indexes : OpenView(listed[j])' <=> OpenView(listed[j])
      BY <1>1, <2>1 DEF OpenView
    <3>3. oldestOpen' # Unknown => pollFrom' <= oldestOpen' /\ oldestOpen' < k'
      BY <1>3, <2>1, <3>1
    <3>4. ASSUME NEW j \in Indexes, pollFrom <= j, j < k + 1,
                 LiveView(listed[j]), OpenView(listed[j])
          PROVE  oldestOpen' # Unknown /\ oldestOpen' <= j
      <4>0. j \in Nat
        BY DEF Indexes
      <4>1. CASE j = k
        <5>1. open
          BY <3>4, <4>1
        <5> HIDE DEF open
        <5> QED BY <1>3, <2>1, <4>1, <5>1
      <4>2. CASE j < k
        <5>1. oldestOpen # Unknown /\ oldestOpen <= j
          BY <3>1, <3>4, <4>2
        <5> HIDE DEF open
        <5> QED BY <1>3, <2>1, <4>0, <4>2, <5>1
      <4> QED BY <1>3, <3>4, <4>0, <4>1, <4>2
    <3> HIDE DEF open, alert
    <3>5. \A j \in Indexes :
            pollFrom' <= j /\ j < k' /\ LiveView(listed[j])' /\ OpenView(listed[j])' =>
              oldestOpen' # Unknown /\ oldestOpen' <= j
      BY <2>1, <3>2, <3>4
    <3> QED BY <3>0, <3>3, <3>5 DEF OldestOpenInv
  <2>8. OpenBatchesStayPolled'
    BY <1>1, <2>1, PolledKept
  <2> QED BY <2>3, <2>4, <2>5, <2>6, <2>7, <2>8 DEF PollInv, TypeOK
<1> QED BY <1>5, <1>6

\* The step the property is about: moving pollFrom leaves no challengeable
\* batch of a first submission behind.
LEMMA EndTickPolled ==
  ASSUME PollInv, EndTick
  PROVE  OpenBatchesStayPolled'
<1>1. /\ UNCHANGED <<chainVars, windowSecs>> /\ pc = "loop" /\ k >= cursor
      /\ pollFrom' = NextPollFrom /\ pc \in InLoop /\ pc \in InTick
  BY DEF EndTick, InLoop, InTick
<1> SUFFICES ASSUME windowSecs = RollupWindow, NEW i \in Indexes,
                    Challengeable(i), batches[i].submission = 1
             PROVE  NextPollFrom <= i
  BY <1>1 DEF OpenBatchesStayPolled, Challengeable, chainVars
<1>2. pollFrom <= i
  BY DEF PollInv, OpenBatchesStayPolled
<1>3. /\ pollFrom \in Nat /\ nextStart \in Nat /\ cursor \in Nat /\ k \in Nat /\ i \in Nat
      /\ nextStart <= cursor /\ k <= cursor
      /\ oldestOpen \in Nat \cup {Unknown} /\ Unknown \notin Int
      /\ oldestOpen # Unknown => oldestOpen < k
  BY <1>1 DEF PollInv, TypeOK, TowerTypeOK, CursorInv, OldestOpenInv, InLoop, Indexes
<1>4. CASE tip = Unknown
  BY <1>2, <1>4 DEF NextPollFrom
<1>5. CASE tip # Unknown /\ i < cursor
  <2>1. /\ listed[i] \in BatchView /\ LiveNotFinal(listed[i])
        /\ Follows(listed[i], batches[i])
    BY <1>1, <1>2, <1>5 DEF PollInv, SnapshotInv
  <2>2. batches[i] \in BatchView
    BY DEF PollInv, TypeOK, ChainTypeOK, Challengeable
  <2>3. listed[i].submission = 1
    BY <2>1 DEF Follows, BatchView
  <2>4. /\ listed[i].submittedAt = batches[i].submittedAt
        /\ listed[i].submittedTime = batches[i].submittedTime
        /\ Live(listed[i]) /\ listed[i].finalizedAt = 0
    BY <2>1, <2>3 DEF Follows, LiveNotFinal, Challengeable
  <2>5. LiveView(listed[i])
    BY <2>4 DEF LiveView, Live, Finalized
  <2>6. /\ tip \in TipType /\ chainTip \in TipType /\ tip.height <= chainTip.height
        /\ tip.timeSecs <= chainTip.timeSecs
    BY <1>1, <1>5 DEF PollInv, TypeOK, TowerTypeOK, ChainTypeOK, SnapshotInv
  <2>7. /\ batches[i].submittedAt \in Nat /\ batches[i].submittedTime \in Nat
        /\ RollupWindow \in Nat /\ WindowOpen(batches[i], RollupWindow, chainTip)
    BY <2>2 DEF BatchView, Challengeable
  <2>8. WindowOpen(listed[i], RollupWindow, tip)
    BY <2>4, <2>6, <2>7, OpenAntitone
  <2>9. OpenView(listed[i])
    BY <1>5, <2>8 DEF OpenView
  <2>10. oldestOpen # Unknown /\ oldestOpen <= i
    BY <1>1, <1>2, <1>3, <1>5, <2>5, <2>9 DEF PollInv, OldestOpenInv
  <2> QED BY <1>5, <2>10 DEF NextPollFrom
<1>6. CASE tip # Unknown /\ ~(i < cursor)
  BY <1>3, <1>6 DEF NextPollFrom
<1> QED BY <1>4, <1>5, <1>6

\* The end of a tick keeps the invariant.
LEMMA EndKeeps ==
  ASSUME PollInv, EndTick \/ Abandon
  PROVE  PollInv'
<1>1. /\ UNCHANGED <<chainVars, windowSecs, nextStart, tip, seen, warned, unjudged, faults,
                     escaped, bell, stopped>>
      /\ DropTick /\ pc' \in {"sleep", "off"} /\ pc = "loop" /\ pc \in InLoop
  BY DEF EndTick, Abandon, Silent, Rearm, InLoop
<1>2. /\ pollFrom \in Nat /\ nextStart \in Nat /\ pollFrom <= nextStart
      /\ k \in Nat /\ k <= nextStart /\ windowSecs # Unknown
      /\ oldestOpen \in Nat \cup {Unknown}
      /\ oldestOpen # Unknown => oldestOpen < k
  BY <1>1 DEF PollInv, TypeOK, TowerTypeOK, CursorInv, OldestOpenInv, InLoop, Listing
<1>3. pollFrom' = pollFrom \/ pollFrom' = NextPollFrom
  BY DEF EndTick, Abandon
<1>4. pollFrom' \in Nat /\ pollFrom' <= nextStart
  BY <1>2, <1>3 DEF NextPollFrom
<1>5. OpenBatchesStayPolled'
  <2>1. CASE EndTick
    BY <2>1, EndTickPolled
  <2>2. CASE Abandon
    BY <1>1, <2>2, PolledKept DEF Abandon
  <2> QED BY <2>1, <2>2
<1>6. /\ stopped' \in BOOLEAN /\ bell' \in BOOLEAN /\ escaped' \in BOOLEAN
      /\ tip' \in TipType \cup {Unknown}
      /\ seen' \subseteq Indexes \X Roots /\ warned' \subseteq Indexes \X Roots
      /\ unjudged' \subseteq Indexes \X Roots /\ faults' \in 0 .. MaxFaults
  BY <1>1 DEF PollInv, TypeOK, TowerTypeOK
<1> QED BY <1>1, <1>2, <1>4, <1>5, <1>6, RestKeeps

\* stop() keeps the invariant.
LEMMA StopKeeps ==
  ASSUME PollInv, Stop
  PROVE  PollInv'
<1>1. /\ UNCHANGED <<chainVars, windowSecs, pollFrom, nextStart, cursor, k, listed, tip,
                     oldestOpen, seen, warned, unjudged, bell, escaped, faults>>
      /\ stopped' = TRUE /\ (pc' = pc \/ pc' = "off") /\ pc \in Awaits
  BY DEF Stop, loopVars
<1>2. pc' = "off" => pc' \notin InTick /\ pc' \notin InLoop /\ pc' \notin Listing
  BY DEF InTick, InLoop, Listing
<1>3. pc' = "off" => pc \in {"sleep", "off"}
  BY <1>1 DEF Stop, Awaits
<1>4. ChainTypeOK'
  BY <1>1 DEF PollInv, TypeOK, ChainTypeOK, chainVars
<1>5. TowerTypeOK'
  BY <1>1 DEF PollInv, TypeOK, TowerTypeOK
<1>6. CursorInv'
  BY <1>1, <1>2 DEF PollInv, CursorInv, InTick, InLoop, Listing, chainVars
<1>7. SnapshotInv'
  BY <1>1, <1>2 DEF PollInv, SnapshotInv, chainVars
<1>8. OldestOpenInv'
  BY <1>1, <1>3 DEF PollInv, OldestOpenInv, InLoop, OpenView
<1>9. OpenBatchesStayPolled'
  BY <1>1, PolledKept
<1> QED BY <1>4, <1>5, <1>6, <1>7, <1>8, <1>9 DEF PollInv, TypeOK

\* A failed read keeps the invariant.
LEMMA ReadFailsKeeps ==
  ASSUME PollInv, ReadFails
  PROVE  PollInv'
<1>1. /\ UNCHANGED <<chainVars, windowSecs, nextStart, seen, warned, unjudged>>
      /\ Catch /\ pc \in InTick
  BY DEF ReadFails, InTick
<1>2. /\ nextStart \in Nat /\ nextStart <= count
      /\ seen \subseteq Indexes \X Roots /\ warned \subseteq Indexes \X Roots
      /\ unjudged \subseteq Indexes \X Roots
  BY DEF PollInv, TypeOK, TowerTypeOK, CursorInv
<1> QED BY <1>1, <1>2, CatchKeeps

\* The inductive invariant holds throughout every behaviour of the watchtower
\* beside the chain.
THEOREM PollInvariant == Spec => []PollInv
<1>1. Init => PollInv
  BY PollInvInit
<1>2. PollInv /\ [Next]_vars => PollInv'
  <2> SUFFICES ASSUME PollInv, [Next]_vars PROVE PollInv'
    OBVIOUS
  <2>1. CASE Next
    BY <2>1, ChainStepKeeps, StartKeeps, ListPageKeeps, ReadFailsKeeps, ReadTipKeeps,
       EndKeeps, VisitKeeps, DeadlineKeeps, StopKeeps
    DEF Next, TowerStep
  <2>2. CASE UNCHANGED vars
    BY <2>2
    DEF vars, chainVars, towerVars, loopVars, PollInv, TypeOK, ChainTypeOK, TowerTypeOK,
        CursorInv, SnapshotInv, OldestOpenInv, OpenBatchesStayPolled, Challengeable, OpenView
  <2> QED BY <2>1, <2>2
<1> QED BY <1>1, <1>2, PTL DEF Spec

\* Type correctness of the watchtower and the chain it reads.
THEOREM TypeCorrect == Spec => []TypeOK
<1>1. PollInv => TypeOK
  BY DEF PollInv
<1> QED BY <1>1, PollInvariant, PTL

\* Polling never moves past a first submission that can still be challenged.
THEOREM OpenBatchesPolled == Spec => []OpenBatchesStayPolled
<1>1. PollInv => OpenBatchesStayPolled
  BY DEF PollInv
<1> QED BY <1>1, PollInvariant, PTL

\* A step with a callback or without one, inside a tick, is a step of a tick
\* of the abstract loop.
LEMMA CallsOrSilent ==
  ASSUME TowerTypeOK, (Silent \/ (~stopped /\ Calls))
  PROVE  Loop!CallBack \/ UNCHANGED <<stopped, bell>>
<1>1. CASE Silent
  BY <1>1 DEF Silent
<1>2. CASE ~stopped /\ Calls
  BY <1>2 DEF Calls, Loop!CallBack, TowerTypeOK
<1> QED BY <1>1, <1>2

\* The timer of a stopped watchtower is never set: stop() clears it, and a
\* tick under way when stop() comes does not set it again.
THEOREM NeverSleepsStopped == Spec => []SleepsUnstopped
<1>1. Init => SleepsUnstopped
  BY DEF Init, SleepsUnstopped
<1>2. SleepsUnstopped /\ [Next]_vars => SleepsUnstopped'
  <2> SUFFICES ASSUME SleepsUnstopped, [Next]_vars PROVE SleepsUnstopped'
    OBVIOUS
  <2> USE DEF SleepsUnstopped
  <2>c. ASSUME Catch PROVE SleepsUnstopped'
    BY <2>c DEF Catch, Rearm, Escapes
  <2>1. CASE Tick \/ GetRollup \/ GetParams \/ ListPage \/ ReadTip
    BY <2>1, <2>c DEF Tick, StartTick, GetRollup, GetParams, ListPage, ReadTip
  <2>2. CASE ReadFails \/ ValidateThrows
    BY <2>2, <2>c DEF ReadFails, ValidateThrows
  <2>3. CASE Abandon \/ EndTick
    BY <2>3 DEF Abandon, EndTick, Rearm
  <2>4. CASE Visit
    BY <2>4, <2>c DEF Visit, Surface
  <2>5. CASE Verdict \/ CheckDeadline
    BY <2>5, <2>c DEF Verdict, CheckDeadline
  <2>6. CASE Stop
    BY <2>6 DEF Stop
  <2>7. CASE ChainStep \/ UNCHANGED vars
    BY <2>7 DEF ChainStep, vars, towerVars
  <2> QED BY <2>1, <2>2, <2>3, <2>4, <2>5, <2>6, <2>7 DEF Next, TowerStep
<1> QED BY <1>1, <1>2, PTL DEF Spec

\* The watchtower implements the polling loop: at most one tick at a time,
\* and neither a callback nor a tick once stop() has been called.
THEOREM WatchtowerPolls == Spec => PollsAsPromised
<1>1. Init => Loop!LoopInit
  <2> SUFFICES ASSUME Init PROVE Loop!LoopInit
    OBVIOUS
  <2>1. PollMode \in {"running", "off"}
    BY DEF Init, PollMode
  <2> QED BY <2>1 DEF Init, Loop!LoopInit
<1>2. TypeOK /\ SleepsUnstopped /\ [Next]_vars => [Loop!LoopNext]_(Loop!loopVars)
  <2> SUFFICES ASSUME TypeOK, SleepsUnstopped, [Next]_vars
               PROVE  Loop!LoopNext \/ UNCHANGED <<PollMode, stopped, bell>>
    BY DEF Loop!loopVars
  <2>0. TowerTypeOK
    BY DEF TypeOK
  <2> DEFINE Atomic == Silent \/ (~stopped /\ Calls)
  <2>r. ASSUME PollMode = "running", Atomic,
               PollMode' = "running" \/ PollMode' = IF stopped' THEN "off" ELSE "armed"
        PROVE  Loop!LoopNext
    BY <2>0, <2>r, CallsOrSilent DEF Loop!LoopNext, Loop!Work
  <2>c. ASSUME Catch, PollMode = "running"
        PROVE  Loop!LoopNext
    <3>1. Atomic
      BY <2>c DEF Catch, ReportError
    <3>2. CASE Escapes
      <4>1. PollMode' = "off" /\ ~stopped /\ Calls
        BY <2>c, <3>2 DEF Catch, Escapes, ReportError, PollMode
      <4> QED BY <2>0, <2>c, <4>1
          DEF Calls, TowerTypeOK, Loop!LoopNext, Loop!Die, Loop!CallBack
    <3>3. CASE Rearm
      <4>1. PollMode' = IF stopped' THEN "off" ELSE "armed"
        BY <3>3 DEF Rearm, PollMode
      <4> HIDE DEF Atomic
      <4> QED BY <2>c, <2>r, <3>1, <4>1
    <3> QED BY <2>c, <3>2, <3>3 DEF Catch
  <2>1. CASE Tick
    <3>1. PollMode = "armed" /\ PollMode' = "running"
      BY <2>1 DEF Tick, StartTick, PollMode
    <3>2. ~stopped
      BY <2>1 DEF Tick, SleepsUnstopped
    <3> QED BY <2>1, <3>1, <3>2 DEF Tick, Silent, Loop!LoopNext, Loop!Fire
  <2>2. CASE GetRollup \/ GetParams \/ ListPage
    <3>1. PollMode = "running" /\ PollMode' = "running" /\ Silent
      BY <2>2 DEF GetRollup, GetParams, ListPage, PollMode
    <3> QED BY <2>r, <3>1
  <2>3. CASE ReadFails \/ ValidateThrows
    <3>1. PollMode = "running" /\ Catch
      BY <2>3 DEF ReadFails, ValidateThrows, PollMode
    <3> QED BY <2>c, <3>1
  <2>4. CASE ReadTip
    <3>1. PollMode = "running"
      BY <2>4 DEF ReadTip, PollMode
    <3>2. CASE ~Catch
      <4>1. PollMode' = "running"
        BY <2>4, <3>2 DEF ReadTip, PollMode
      <4>2. Atomic
        BY <2>4, <3>2 DEF ReadTip, ReportError
      <4> HIDE DEF Atomic
      <4> QED BY <2>r, <3>1, <4>1, <4>2
    <3> QED BY <2>c, <3>1, <3>2
  <2>5. CASE Abandon \/ EndTick
    <3>1. PollMode = "running" /\ Silent
      BY <2>5 DEF Abandon, EndTick, PollMode
    <3>2. PollMode' = IF stopped' THEN "off" ELSE "armed"
      BY <2>5 DEF Abandon, EndTick, Rearm, Silent, PollMode
    <3> QED BY <2>r, <3>1, <3>2
  <2>6. CASE Visit
    <3>1. PollMode = "running"
      BY <2>6 DEF Visit, PollMode
    <3>2. CASE ~Catch
      <4>1. pc' \in {"validate", "deadline"}
        BY <2>6, <3>2 DEF Visit, Surface
      <4>2. Atomic
        BY <2>6, <3>2 DEF Visit, Surface
      <4>3. PollMode' = "running"
        BY <4>1 DEF PollMode
      <4> HIDE DEF Atomic
      <4> QED BY <2>r, <3>1, <4>2, <4>3
    <3> QED BY <2>c, <3>1, <3>2
  <2>7. CASE Verdict \/ CheckDeadline
    <3>1. PollMode = "running"
      BY <2>7 DEF Verdict, CheckDeadline, PollMode
    <3>2. CASE ~Catch
      <4>1. pc' \in {"loop", "deadline"}
        BY <2>7, <3>2 DEF Verdict, CheckDeadline
      <4>2. Atomic
        BY <2>7, <3>2 DEF Verdict, CheckDeadline
      <4>3. PollMode' = "running"
        BY <4>1 DEF PollMode
      <4> HIDE DEF Atomic
      <4> QED BY <2>r, <3>1, <4>2, <4>3
    <3> QED BY <2>c, <3>1, <3>2
  <2>8. CASE Stop
    BY <2>8 DEF Stop, Awaits, PollMode, Loop!LoopNext, Loop!Stop
  <2>9. CASE ChainStep \/ UNCHANGED vars
    BY <2>9 DEF ChainStep, vars, towerVars, PollMode
  <2> QED BY <2>1, <2>2, <2>3, <2>4, <2>5, <2>6, <2>7, <2>8, <2>9 DEF Next, TowerStep
<1> QED
  BY <1>1, <1>2, TypeCorrect, NeverSleepsStopped, PTL DEF Spec, PollsAsPromised, Loop!LoopSpec

(***************************************************************************)
(* Alerts before a deadline.                                               *)
(***************************************************************************)

\* A first submission that is live was there, live and the same, one step of
\* the chain earlier.
LEMMA FirstSubmissionKept ==
  ASSUME NEW v \in BatchView, NEW b \in BatchView, Follows(v, b),
         b.submission = 1, Live(b)
  PROVE  /\ v.submission = 1 /\ Live(v)
         /\ v.stateRoot = b.stateRoot
         /\ v.submittedAt = b.submittedAt /\ v.submittedTime = b.submittedTime
BY DEF Follows, BatchView

\* A step with which the tick is given up, or has not come to its loop yet.
LEMMA WarnIdle ==
  ASSUME pc' \notin InLoop, pc' = "sleep" => tip' = Unknown
  PROVE  WarnInv'
BY DEF WarnInv, NearDeadlineWarned

\* A failure leaves no tip behind.
LEMMA WarnCatch ==
  ASSUME Catch
  PROVE  WarnInv'
<1>1. tip' = Unknown /\ pc' \in {"sleep", "off"}
  BY DEF Catch, Rearm, Escapes
<1> QED BY <1>1, WarnIdle DEF InLoop

\* A step inside the loop that passes no batch.
LEMMA WarnInside ==
  ASSUME WarnInv, pc \in InLoop, pc' \in InLoop,
         UNCHANGED <<batches, windowSecs, pollFrom, listed, tip, k, warned>>,
         stopped => stopped'
  PROVE  WarnInv'
<1>1. \A j \in Indexes : NearDeadline(listed[j])' <=> NearDeadline(listed[j])
  BY DEF NearDeadline, OpenView
<1>2. \A j \in Indexes : KeyOf(j, listed[j])' = KeyOf(j, listed[j])
  BY DEF KeyOf
<1>3. pc' # "sleep"
  BY DEF InLoop
<1> QED BY <1>1, <1>2, <1>3 DEF WarnInv, NearDeadlineWarned

\* The tip is read: what polling has left behind is closed at it.
LEMMA WarnReadTip ==
  ASSUME PollInv, ReadTip
  PROVE  WarnInv'
<1>c. CASE Catch
  BY <1>c, WarnCatch
<1>n. CASE ~Catch
  <2>1. /\ pc' = "loop" /\ k' = pollFrom
        /\ UNCHANGED <<windowSecs, pollFrom, batches, chainTip, count>>
        /\ tip' = chainTip \/ tip' = Unknown
    BY <1>n DEF ReadTip, chainVars
  <2>2. pollFrom \in Nat /\ count \in Nat /\ pollFrom <= count /\ \A i \in Indexes : i \in Nat
    BY DEF PollInv, TypeOK, TowerTypeOK, ChainTypeOK, CursorInv, Indexes
  <2>3. ASSUME NEW i \in Indexes, i < pollFrom, Live(batches[i]), batches[i].submission = 1,
               tip' # Unknown, windowSecs = RollupWindow
        PROVE  ~WindowOpen(batches[i], RollupWindow, chainTip)
    <3>1. i < count /\ ~(pollFrom <= i)
      BY <2>2, <2>3
    <3> QED BY <2>3, <3>1 DEF PollInv, OpenBatchesStayPolled, Challengeable
  <2>4. \A j \in Indexes : ~(pollFrom' <= j /\ j < k')
    BY <2>1, <2>2
  <2> QED BY <2>1, <2>3, <2>4 DEF WarnInv, NearDeadlineWarned
<1> QED BY <1>c, <1>n

\* A batch is passed: alerted, if it is near its deadline.
LEMMA WarnDeadline ==
  ASSUME PollInv, WarnInv, CheckDeadline
  PROVE  WarnInv'
<1> DEFINE b == listed[k]
           open == LiveView(b) /\ OpenView(b)
           alert == open /\ NearDeadline(b) /\ KeyOf(k, b) \notin warned /\ ~stopped
<1>1. CASE Catch
  BY <1>1, WarnCatch
<1>2. CASE ~Catch
  <2>1. /\ pc = "deadline" /\ pc' = "loop" /\ k' = k + 1
        /\ UNCHANGED <<pollFrom, listed, tip, windowSecs, chainVars>>
        /\ warned' = IF alert THEN warned \cup {KeyOf(k, b)} ELSE warned
        /\ stopped => stopped'
    BY <1>2 DEF CheckDeadline, Calls, Silent
  <2>2. pc \in InLoop /\ pc' \in InLoop /\ pc' # "sleep"
    BY <2>1 DEF InLoop
  <2>3. /\ \A j \in Indexes : NearDeadline(listed[j])' <=> NearDeadline(listed[j])
        /\ \A j \in Indexes : KeyOf(j, listed[j])' = KeyOf(j, listed[j])
    BY <2>1 DEF NearDeadline, OpenView, KeyOf
  <2>4. k \in Nat /\ \A j \in Indexes : j \in Nat
    BY DEF PollInv, TypeOK, TowerTypeOK, Indexes
  <2>5. ASSUME NEW j \in Indexes, pollFrom <= j, j < k + 1, ~stopped',
               LiveView(listed[j]), NearDeadline(listed[j])
        PROVE  KeyOf(j, listed[j]) \in warned'
    <3>1. CASE j < k
      <4>1. KeyOf(j, listed[j]) \in warned
        BY <2>1, <2>2, <2>5, <3>1 DEF WarnInv
      <4> HIDE DEF alert
      <4> QED BY <2>1, <4>1
    <3>2. CASE j = k
      <4>1. open /\ NearDeadline(b) /\ ~stopped
        BY <2>1, <2>5, <3>2 DEF NearDeadline
      <4>2. alert \/ KeyOf(k, b) \in warned
        BY <4>1
      <4> HIDE DEF alert
      <4> QED BY <2>1, <3>2, <4>2
    <3> QED BY <2>4, <2>5, <3>1, <3>2
  <2> HIDE DEF alert
  <2>6. \A j \in Indexes :
          pollFrom' <= j /\ j < k' /\ LiveView(listed[j])' /\ NearDeadline(listed[j])' /\ ~stopped' =>
            KeyOf(j, listed[j])' \in warned'
    BY <2>1, <2>3, <2>5
  <2>7. tip' # Unknown /\ windowSecs' = RollupWindow =>
          \A i \in Indexes :
            i < pollFrom' /\ Live(batches'[i]) /\ batches'[i].submission = 1 =>
              ~WindowOpen(batches'[i], RollupWindow, tip')
    BY <2>1, <2>2 DEF WarnInv, chainVars
  <2> QED BY <2>2, <2>6, <2>7 DEF WarnInv, NearDeadlineWarned
<1> QED BY <1>1, <1>2

\* The end of a tick: every batch visited is behind pollFrom, and closed, or
\* was passed in this tick.
LEMMA WarnEndTick ==
  ASSUME PollInv, WarnInv, EndTick
  PROVE  WarnInv'
<1>1. /\ pc = "loop" /\ k >= cursor /\ pc \in InLoop /\ pc \in InTick
      /\ UNCHANGED <<windowSecs, nextStart, tip, warned, batches, stopped>>
      /\ pc' = IF stopped' THEN "off" ELSE "sleep"
  BY DEF EndTick, InLoop, InTick, Silent, Rearm, chainVars
<1>2. pc' \notin InLoop
  BY <1>1 DEF InLoop
<1> SUFFICES ASSUME pc' = "sleep", tip # Unknown, windowSecs = RollupWindow,
                    NEW i \in Indexes, i < nextStart, Live(batches[i]),
                    batches[i].submission = 1, NearDeadline(batches[i])
             PROVE  KeyOf(i, batches[i]) \in warned
  <2>2. \A j \in Indexes : NearDeadline(batches[j])' <=> NearDeadline(batches[j])
    BY <1>1 DEF NearDeadline, OpenView
  <2>3. \A j \in Indexes : KeyOf(j, batches[j])' = KeyOf(j, batches[j])
    BY <1>1 DEF KeyOf
  <2> QED BY <1>1, <1>2, <2>2, <2>3 DEF WarnInv, NearDeadlineWarned
<1>3. ~stopped
  BY <1>1
<1>4. /\ pollFrom \in Nat /\ nextStart \in Nat /\ cursor \in Nat /\ k \in Nat /\ i \in Nat
      /\ count \in Nat /\ nextStart <= cursor /\ nextStart <= count
  BY <1>1 DEF PollInv, TypeOK, TowerTypeOK, ChainTypeOK, CursorInv, InLoop, Indexes
<1>5. CASE i < pollFrom
  <2>1. ~WindowOpen(batches[i], RollupWindow, tip)
    BY <1>1, <1>5 DEF WarnInv
  <2> QED BY <2>1 DEF NearDeadline, OpenView
<1>6. CASE pollFrom <= i
  <2>1. i < cursor /\ i < k /\ i < count
    BY <1>1, <1>4
  <2>2. /\ listed[i] \in BatchView /\ LiveNotFinal(listed[i])
        /\ Follows(listed[i], batches[i])
    BY <1>1, <1>6, <2>1 DEF PollInv, SnapshotInv
  <2>3. batches[i] \in BatchView
    BY <2>1 DEF PollInv, TypeOK, ChainTypeOK
  <2>4. /\ Live(listed[i]) /\ listed[i].stateRoot = batches[i].stateRoot
        /\ listed[i].submittedAt = batches[i].submittedAt
        /\ listed[i].submittedTime = batches[i].submittedTime
    BY <2>2, <2>3, FirstSubmissionKept
  <2>5. LiveView(listed[i])
    BY <2>2, <2>4 DEF LiveView, Live, Finalized, LiveNotFinal
  <2>6. NearDeadline(listed[i])
    BY <2>4 DEF NearDeadline, OpenView, WindowOpen, WindowRemaining, TimeMode, ElapsedFully
  <2>7. KeyOf(i, listed[i]) \in warned
    BY <1>1, <1>3, <1>6, <2>1, <2>5, <2>6 DEF WarnInv
  <2> QED BY <2>4, <2>7 DEF KeyOf
<1> QED BY <1>4, <1>5, <1>6

\* The chain moving on revives no batch and opens no window.
LEMMA WarnChain ==
  ASSUME PollInv, WarnInv, ChainStep
  PROVE  WarnInv'
<1>1. ChainNext /\ UNCHANGED <<pc, stopped, windowSecs, pollFrom, nextStart, k, listed, tip, warned>>
  BY DEF ChainStep, towerVars, loopVars
<1>2. ChainTypeOK /\ \A i \in Indexes : i < count => LiveNotFinal(batches[i])
  BY DEF PollInv, TypeOK, SnapshotInv
<1>3. /\ ChainTypeOK' /\ count <= count'
      /\ \A i \in Indexes : i < count => Follows(batches[i], batches'[i])
  BY <1>1, <1>2, ChainStepFollows
<1>4. /\ count \in Nat /\ count' \in Nat /\ pollFrom \in Nat /\ nextStart \in Nat
      /\ pollFrom <= nextStart /\ nextStart <= count /\ \A i \in Indexes : i \in Nat
  BY <1>2, <1>3 DEF PollInv, TypeOK, TowerTypeOK, ChainTypeOK, CursorInv, Indexes
<1>5. ASSUME NEW i \in Indexes, i < nextStart, Live(batches'[i]), batches'[i].submission = 1
      PROVE  /\ Live(batches[i]) /\ batches[i].submission = 1
             /\ batches[i].stateRoot = batches'[i].stateRoot
             /\ batches[i].submittedAt = batches'[i].submittedAt
             /\ batches[i].submittedTime = batches'[i].submittedTime
  <2>1. i < count /\ i < count'
    BY <1>3, <1>4, <1>5
  <2>2. batches[i] \in BatchView /\ batches'[i] \in BatchView
    BY <1>2, <1>3, <2>1 DEF ChainTypeOK
  <2> QED BY <1>3, <1>5, <2>1, <2>2, FirstSubmissionKept
<1>6. ASSUME pc' \in InLoop, tip' # Unknown, windowSecs' = RollupWindow,
             NEW i \in Indexes, i < pollFrom', Live(batches'[i]), batches'[i].submission = 1
      PROVE  ~WindowOpen(batches'[i], RollupWindow, tip')
  <2>1. i < nextStart
    BY <1>1, <1>4, <1>6
  <2>2. ~WindowOpen(batches[i], RollupWindow, tip)
    BY <1>1, <1>5, <1>6, <2>1 DEF WarnInv
  <2> QED BY <1>1, <1>5, <1>6, <2>1, <2>2 DEF WindowOpen, TimeMode, ElapsedFully
<1>7. ASSUME pc' \in InLoop, ~stopped', NEW j \in Indexes, pollFrom' <= j, j < k',
             LiveView(listed[j])', NearDeadline(listed[j])'
      PROVE  KeyOf(j, listed[j])' \in warned'
  <2>1. LiveView(listed[j]) /\ NearDeadline(listed[j])
    BY <1>1, <1>7 DEF NearDeadline, OpenView
  <2> QED BY <1>1, <1>7, <2>1 DEF WarnInv, KeyOf
<1>8. NearDeadlineWarned'
  <2> SUFFICES ASSUME pc' = "sleep", tip' # Unknown, windowSecs' = RollupWindow,
                      NEW i \in Indexes, i < nextStart', Live(batches'[i]),
                      batches'[i].submission = 1, NearDeadline(batches[i])'
               PROVE  KeyOf(i, batches[i])' \in warned'
    BY DEF NearDeadlineWarned
  <2>1. /\ Live(batches[i]) /\ batches[i].submission = 1
        /\ batches[i].stateRoot = batches'[i].stateRoot
        /\ batches[i].submittedAt = batches'[i].submittedAt
        /\ batches[i].submittedTime = batches'[i].submittedTime
    BY <1>1, <1>5
  <2>2. NearDeadline(batches[i])
    BY <1>1, <2>1 DEF NearDeadline, OpenView, WindowOpen, WindowRemaining, TimeMode, ElapsedFully
  <2>3. KeyOf(i, batches[i]) \in warned
    BY <1>1, <2>1, <2>2 DEF WarnInv, NearDeadlineWarned
  <2> QED BY <1>1, <2>1, <2>3 DEF KeyOf
<1> QED BY <1>6, <1>7, <1>8 DEF WarnInv

\* No window closes without an alert: pollFrom, which other ticks have moved
\* at other tips, never hides a batch whose deadline this tick had to announce.
THEOREM DeadlinesAnnounced == Spec => []NearDeadlineWarned
<1>1. Init => WarnInv
  BY DEF Init, WarnInv, NearDeadlineWarned, InLoop
<1>2. PollInv /\ WarnInv /\ [Next]_vars => WarnInv'
  <2> SUFFICES ASSUME PollInv, WarnInv, [Next]_vars PROVE WarnInv'
    OBVIOUS
  <2>1. CASE Tick \/ GetRollup \/ GetParams \/ ListPage \/ Abandon
    BY <2>1, WarnIdle DEF Tick, StartTick, GetRollup, GetParams, ListPage, Abandon, InLoop
  <2>2. CASE ReadFails \/ ValidateThrows
    BY <2>2, WarnCatch DEF ReadFails, ValidateThrows
  <2>3. CASE Visit \/ Verdict
    <3>1. CASE Catch
      BY <3>1, WarnCatch
    <3>2. CASE ~Catch
      <4>1. /\ UNCHANGED <<batches, windowSecs, pollFrom, listed, tip, k, warned>>
            /\ pc \in {"loop", "validate"} /\ pc' \in {"deadline", "validate"}
        BY <2>3, <3>2 DEF Visit, Surface, Verdict, chainVars
      <4>2. stopped => stopped'
        BY <2>3, <3>2 DEF Visit, Surface, Verdict, Silent, Calls
      <4> QED BY <4>1, <4>2, WarnInside DEF InLoop
    <3> QED BY <3>1, <3>2
  <2>4. CASE Stop
    <3>1. CASE pc \in InLoop
      BY <2>4, <3>1, WarnInside DEF Stop, loopVars, chainVars, InLoop
    <3>2. CASE pc \notin InLoop
      BY <2>4, <3>2, WarnIdle DEF Stop, InLoop
    <3> QED BY <3>1, <3>2
  <2>5. CASE UNCHANGED vars
    BY <2>5 DEF vars, chainVars, towerVars, loopVars, WarnInv, NearDeadlineWarned, NearDeadline,
                OpenView, KeyOf
  <2> QED
    BY <2>1, <2>2, <2>3, <2>4, <2>5, WarnReadTip, WarnDeadline, WarnEndTick, WarnChain
    DEF Next, TowerStep
<1>3. WarnInv => NearDeadlineWarned
  BY DEF WarnInv
<1> QED BY <1>1, <1>2, <1>3, PollInvariant, PTL DEF Spec

==============================================================================
