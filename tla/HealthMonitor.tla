---------------------------- MODULE HealthMonitor ----------------------------
(***************************************************************************)
(* watchRollup polling getRollupHealth.  A health snapshot is put together *)
(* from up to six reads, each a suspension point between which the chain   *)
(* moves on: the rollup, its latest batch, the tip, the parameters, the    *)
(* protocol features and the list of batches.                              *)
(***************************************************************************)
EXTENDS SettlementChain

CONSTANTS
  Unknown,       \* undefined
  DefaultWindow, \* the module parameter default_challenge_window
  PageSize,      \* batches per page of the Batches query
  Statuses,      \* bound: the statuses the rollup may come to have
  MaxFaults      \* bound: failed reads and throwing calls of onUpdate

RollupStatus == {"active", "paused", "stopped"}

ASSUME HealthAssumption ==
  /\ Statuses \subseteq RollupStatus
  /\ Unknown \notin Int /\ Unknown \notin TipType
  /\ DefaultWindow \in Nat /\ MaxFaults \in Nat /\ PageSize \in Nat \ {0}

VARIABLES
  rollupStatus, \* the rollup's status on the chain
  pc,           \* the read the tick is suspended at, "deliver", "sleep", "off"
  stopped,
  status,       \* what getRollup answered: the status ...
  ownWindow,    \* ... and the rollup's own window, Unknown before v3.2.4
  latest,       \* index of the batch getLatestBatch answered, Unknown if none
  latestBatch,  \* and the batch
  tip,
  window,       \* windowSecs, Unknown until it is decided
  cursor,       \* pages of the list have been read up to here (exclusive)
  heldBackBy,   \* index of the blocking batch, Unknown if none is reported
  moved,        \* history: the chain moved since the tick began
  failed,       \* history: a read of this tick failed
  bell,         \* history: flips at a step that calls a callback
  escaped,      \* history: onError threw, out of the tick
  faults

readVars == <<status, ownWindow, latest, latestBatch, tip, window, cursor, heldBackBy>>
vars == <<chainVars, rollupStatus, pc, stopped, readVars, moved, failed, bell,
          escaped, faults>>

Awaits == {"getRollup", "latestBatch", "tip", "params", "features", "list", "sleep"}

(***************************************************************************)
(* The batch LatestBatch answers.  After an upheld fraud it is the last    *)
(* one of the list or the last one resubmitted: the toolkit does not say   *)
(* which, so both are allowed.                                             *)
(***************************************************************************)
LatestIndexes ==
  {i \in 0 .. count - 1 :
     \/ i = count - 1
     \/ \A j \in i .. count - 1 : (j = i) <=> (batches[j].status # "rejected")}

Unsettled(b) == b.status \in {"submitted", "challenged"}

\* Mutant: the operands swapped.
SearchStartSwapped(i) == IF MaxPending > i THEN MaxPending - i ELSE 0

\* The batches a search for the blocker looks at: no further back than
\* MAX_PENDING_OPTIMISTIC_BATCHES before the latest.
SearchStart(i) == IF i > MaxPending THEN i - MaxPending ELSE 0

\* Mutant: the oldest unsettled batch of a page, later ones included.
OldestUnsettledListed(i, page) ==
  LET pending == {j \in page : j # i /\ Unsettled(batches[j])}
  IN  IF pending = {} THEN Unknown
      ELSE CHOOSE j \in pending : \A m \in pending : j <= m

\* oldestUnsettledBefore: the lowest unsettled index of a page before i, if any.
OldestUnsettledBefore(i, page) ==
  LET pending == {j \in page : j < i /\ Unsettled(batches[j])}
  IN  IF pending = {} THEN Unknown
      ELSE CHOOSE j \in pending : \A m \in pending : j <= m

\* health.healthy.
Healthy == status = "active" /\ (latest # Unknown => latestBatch.status # "rejected")

\* All variables have their types: what a tick holds is a batch, a tip and a
\* window it has read, or undefined.
TypeOK ==
  /\ ChainTypeOK
  /\ rollupStatus \in RollupStatus /\ status \in RollupStatus \cup {Unknown}
  /\ pc \in Awaits \cup {"deliver", "off"}
  /\ ownWindow \in Nat \cup {Unknown} /\ window \in Nat \cup {Unknown}
  /\ latest \in Indexes \cup {Unknown}
  /\ latestBatch \in BatchView \cup {NoBatch}
  /\ tip \in TipType \cup {Unknown}
  /\ cursor \in Nat /\ heldBackBy \in Indexes \cup {Unknown}
  /\ {stopped, moved, failed, bell, escaped} \subseteq BOOLEAN
  /\ faults \in 0 .. MaxFaults

Init ==
  /\ ChainInit
  /\ rollupStatus = "active"
  /\ pc \in {"getRollup", "off"}
  /\ stopped = FALSE
  /\ status = Unknown /\ ownWindow = Unknown /\ latest = Unknown
  /\ latestBatch = NoBatch /\ tip = Unknown /\ window = Unknown
  /\ cursor = 0 /\ heldBackBy = Unknown
  /\ moved = FALSE /\ failed = FALSE /\ bell = FALSE /\ escaped = FALSE /\ faults = 0

\* A read fails, or onUpdate throws.
Fault == faults < MaxFaults /\ faults' = faults + 1

Quiet == UNCHANGED <<chainVars, rollupStatus, stopped, bell, escaped>>
Read == Quiet /\ UNCHANGED <<moved, failed, faults>>
ReadFails == Quiet /\ Fault /\ failed' = TRUE /\ UNCHANGED moved

\* The tick's locals go with it.
DropTick ==
  /\ status' = Unknown /\ ownWindow' = Unknown /\ latest' = Unknown
  /\ latestBatch' = NoBatch /\ tip' = Unknown /\ window' = Unknown
  /\ cursor' = 0 /\ heldBackBy' = Unknown
  /\ moved' = FALSE /\ failed' = FALSE

\* The timer fires.
Tick ==
  /\ pc = "sleep"
  /\ pc' = "getRollup"
  /\ Read
  /\ UNCHANGED readVars

GetRollup ==
  /\ pc = "getRollup"
  /\ pc' = "latestBatch"
  /\ status' = rollupStatus
  /\ ownWindow' = IF version = 0 THEN Unknown ELSE RollupWindow
  /\ Read
  /\ UNCHANGED <<latest, latestBatch, tip, window, cursor, heldBackBy>>

\* Mutant: the index of the latest batch is the count less one, of no batch too.
LatestIsCountLessOne ==
  /\ pc = "latestBatch"
  /\ latest' = count - 1
  /\ latestBatch' = IF count = 0 THEN NoBatch ELSE batches[count - 1]
  /\ pc' = IF count = 0 THEN "deliver" ELSE "tip"
  /\ Read
  /\ UNCHANGED <<status, ownWindow, tip, window, cursor, heldBackBy>>

\* Any failure of the query reads as "no settlement batches submitted yet".
GetLatestBatch ==
  /\ pc = "latestBatch"
  /\ \/ /\ \E i \in LatestIndexes : latest' = i /\ latestBatch' = batches[i]
        /\ pc' = "tip"
        /\ Read
     \/ /\ count = 0
        /\ pc' = "deliver"
        /\ Read
        /\ UNCHANGED <<latest, latestBatch>>
     \/ /\ pc' = "deliver"
        /\ ReadFails
        /\ UNCHANGED <<latest, latestBatch>>
  /\ UNCHANGED <<status, ownWindow, tip, window, cursor, heldBackBy>>

\* After the tip: a settled batch needs no window, and a known window no read.
AfterTip ==
  IF ~Unsettled(latestBatch) THEN "deliver"
  ELSE IF ownWindow = Unknown THEN "params" ELSE "window"

\* The features are asked for only when the latest batch would finalize.
AfterWindow(w, t) ==
  IF latestBatch.status = "submitted" /\ t # Unknown /\ WindowFinalizable(latestBatch, w, t)
  THEN "features" ELSE "deliver"

GetTip ==
  /\ pc = "tip"
  /\ \/ tip' = chainTip /\ Read
     \/ tip' = Unknown /\ ReadFails
  /\ window' = IF Unsettled(latestBatch) THEN ownWindow ELSE Unknown
  /\ pc' = IF AfterTip = "window" THEN AfterWindow(ownWindow, tip') ELSE AfterTip
  /\ UNCHANGED <<status, ownWindow, latest, latestBatch, cursor, heldBackBy>>

GetParams ==
  /\ pc = "params"
  /\ window' = DefaultWindow
  /\ pc' = AfterWindow(DefaultWindow, tip)
  /\ Read
  /\ UNCHANGED <<status, ownWindow, latest, latestBatch, tip, cursor, heldBackBy>>

\* Mutant: the blocker is looked for whatever the chain's version.
AsksEveryChain ==
  /\ pc = "features"
  /\ pc' = "list" /\ cursor' = SearchStart(latest)
  /\ Read
  /\ UNCHANGED <<status, ownWindow, latest, latestBatch, tip, window, heldBackBy>>

\* isProtocolFeatureEnabled(rdk-challenge-settlement).
GetFeatures ==
  /\ pc = "features"
  /\ IF version = 2 THEN pc' = "list" /\ cursor' = SearchStart(latest)
     ELSE pc' = "deliver" /\ UNCHANGED cursor
  /\ Read
  /\ UNCHANGED <<status, ownWindow, latest, latestBatch, tip, window, heldBackBy>>

\* One page of listBatches, in index order: the first unsettled batch found
\* is the lowest.
ListPage ==
  LET upto == IF cursor + PageSize < count THEN cursor + PageSize ELSE count
  IN  /\ pc = "list"
      /\ heldBackBy' = IF heldBackBy # Unknown THEN heldBackBy
                       ELSE OldestUnsettledBefore(latest, cursor .. upto - 1)
      /\ cursor' = upto
      /\ pc' = IF upto < count THEN "list" ELSE "deliver"
      /\ Read
      /\ UNCHANGED <<status, ownWindow, latest, latestBatch, tip, window>>

\* A callback is called unless stopped, and may itself call stop().
CallBack == IF stopped THEN UNCHANGED <<stopped, bell>>
            ELSE bell' = ~bell /\ stopped' \in BOOLEAN

\* Mutant: the timer is set again although stop() came during the tick.
RearmAlways == pc' = "sleep"

\* The timer is set again unless stopped.
Rearm == pc' = IF stopped' THEN "off" ELSE "sleep"

\* onError throws: the error leaves tick() before the timer is set again, and
\* the watch is over although nobody has stopped it.
Escapes == ~stopped /\ pc' = "off" /\ escaped' = TRUE

\* onUpdate, unless stopped, and onError too if it throws; then round again,
\* unless that throws as well.
Deliver ==
  /\ pc = "deliver"
  /\ CallBack
  /\ \/ Rearm /\ UNCHANGED <<escaped, faults>>
     \/ Fault /\ Escapes
  /\ DropTick
  /\ UNCHANGED <<chainVars, rollupStatus>>

\* Mutant: a failed read ends the watch.
ThrowEnds ==
  /\ pc \in {"getRollup", "params", "features", "list"}
  /\ Fault
  /\ CallBack
  /\ pc' = "off"
  /\ DropTick
  /\ UNCHANGED <<chainVars, rollupStatus, escaped>>

\* Any other failed read is reported to onError, and polling goes on unless
\* onError throws.
Throw ==
  /\ pc \in {"getRollup", "params", "features", "list"}
  /\ Fault
  /\ CallBack
  /\ Escapes \/ (Rearm /\ UNCHANGED escaped)
  /\ DropTick
  /\ UNCHANGED <<chainVars, rollupStatus>>

Stop ==
  /\ pc \in Awaits /\ ~stopped
  /\ stopped' = TRUE
  /\ pc' = IF pc = "sleep" THEN "off" ELSE pc
  /\ UNCHANGED <<chainVars, rollupStatus, readVars, moved, failed, bell, escaped, faults>>

\* The creator pauses, resumes or stops the rollup.
RollupMoves ==
  /\ \/ rollupStatus = "active" /\ rollupStatus' = "paused"
     \/ rollupStatus = "paused" /\ rollupStatus' = "active"
     \/ rollupStatus \in {"active", "paused"} /\ rollupStatus' = "stopped"
  /\ rollupStatus' \in Statuses
  /\ UNCHANGED chainVars

ChainStep ==
  /\ pc \in Awaits
  /\ (ChainNext /\ UNCHANGED rollupStatus) \/ RollupMoves
  /\ moved' = (pc # "sleep")
  /\ UNCHANGED <<pc, stopped, readVars, failed, bell, escaped, faults>>

TickStep ==
  \/ Tick \/ GetRollup \/ GetLatestBatch \/ GetTip \/ GetParams \/ GetFeatures
  \/ ListPage \/ Deliver \/ Throw

Next == TickStep \/ Stop \/ ChainStep

Spec == Init /\ [][Next]_vars

FairSpec == Spec /\ WF_vars(TickStep)

(***************************************************************************)
(* Properties.                                                             *)
(***************************************************************************)

\* heldBackBy is never said of a batch that is already final when its blocker
\* is found: between the read of the latest batch and that of the page it may
\* have been finalized, but then, finality being in order, no earlier batch is
\* found unsettled.  (A chain that was upgraded to v3.2.5 between the two reads
\* may have finalized it out of order.)
HeldBackNotFinal ==
  [][heldBackBy = Unknown /\ heldBackBy' # Unknown =>
       batches[latest].status # "finalized"]_vars

\* A snapshot taken while nothing moved and nothing failed says what the chain
\* says: the blocker is the oldest unsettled batch before one that would
\* otherwise finalize (v3.2.5), and healthy is an active rollup whose latest
\* batch is not rejected.
SnapshotExact ==
  pc = "deliver" /\ ~moved /\ ~failed =>
    /\ Healthy <=> /\ rollupStatus = "active"
                   /\ latest # Unknown => batches[latest].status # "rejected"
    /\ (latest = Unknown) <=> (count = 0)
    /\ latest # Unknown =>
         LET earlier == {j \in 0 .. latest - 1 : Live(batches[j])}
             waits == /\ version = 2
                      /\ batches[latest].status = "submitted"
                      /\ WindowFinalizable(batches[latest], RollupWindow, chainTip)
         IN  IF waits /\ earlier # {}
             THEN heldBackBy \in earlier /\ \A j \in earlier : heldBackBy <= j
             ELSE heldBackBy = Unknown

\* The monitor implements the polling loop.
PollMode ==
  IF pc = "sleep" THEN "armed" ELSE IF pc = "off" THEN "off" ELSE "running"

Loop == INSTANCE PollLoop WITH mode <- PollMode

PollsAsPromised == Loop!LoopSpec

\* A monitor that is not stopped reports a rollup that was stopped, however
\* many reads fail and onUpdate calls throw before: a failure is not the end of
\* the watch, unless onError itself throws.
StopReported ==
  (rollupStatus = "stopped" /\ pc # "off") ~>
    (stopped \/ escaped \/ (pc = "deliver" /\ status = "stopped" /\ ~Healthy))

==============================================================================
