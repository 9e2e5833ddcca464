------------------------------ MODULE Watchtower ------------------------------
(***************************************************************************)
(* watchBatches: the watchtower's polling loop over the batches of one     *)
(* rollup, running beside the chain it reads.                              *)
(*                                                                         *)
(* pc names the await the loop is suspended at ("getRollup", "getParams",  *)
(* "list", "tip", "validate", or "sleep" for the timer) or the synchronous *)
(* code it is in ("loop", "deadline").  JavaScript runs that code to       *)
(* completion, so stop() arrives, and the chain moves on as far as the     *)
(* loop can tell, only at an await.                                        *)
(***************************************************************************)
EXTENDS SettlementChain

CONSTANTS
  Unknown,         \* an undefined windowSecs, tip or oldestOpen
  OptionWindow,    \* options.challengeWindowSecs: Unknown or a number
  DefaultWindow,   \* the module parameter default_challenge_window
  PageSize,        \* batches per page of the Batches query
  WarnWithin,      \* deadlineWarnSecs / deadlineWarnBlocks
  Validates,       \* whether options.validate is set
  MaxFaults        \* bound: failures onError is told of

ASSUME TowerAssumption ==
  /\ Unknown \notin Int /\ Unknown \notin TipType
  /\ OptionWindow \in Nat \cup {Unknown} /\ DefaultWindow \in Nat
  /\ PageSize \in Nat \ {0} /\ WarnWithin \in Nat
  /\ Validates \in BOOLEAN /\ MaxFaults \in Nat

VARIABLES
  pc,
  stopped,
  windowSecs,
  pollFrom,    \* where the next poll starts
  nextStart,   \* just past the newest batch visited
  listed,      \* index -> the batch view this tick read (NoBatch if none)
  cursor,      \* pages have been read up to here (exclusive)
  tip,         \* the tip this tick read
  k,           \* index of the batch the loop is at
  oldestOpen,
  seen,        \* keys already surfaced
  warned,      \* keys already alerted as near their deadline
  unjudged,    \* history: live batches surfaced and left without a verdict
  bell,        \* history: flips at a step that calls a callback
  escaped,     \* history: onError threw, out of the tick
  faults       \* failures so far

loopVars == <<pollFrom, nextStart, cursor, k>>
towerVars == <<pc, stopped, windowSecs, loopVars, listed, tip, oldestOpen,
               seen, warned, unjudged, bell, escaped, faults>>
vars == <<chainVars, towerVars>>

Awaits == {"getRollup", "getParams", "list", "tip", "validate", "sleep"}
Sync == {"loop", "deadline"}

NothingListed == [i \in Indexes |-> NoBatch]

\* A batch is told apart by its index and its state root.
KeyOf(i, b) == <<i, b.stateRoot>>

Finalized(b) == b.status = "finalized" \/ b.finalizedAt > 0

LiveView(b) == ~Finalized(b) /\ b.status # "rejected"

\* info.window?.open: without a tip or a window there is no window to judge.
OpenView(b) ==
  tip # Unknown /\ windowSecs # Unknown /\ WindowOpen(b, windowSecs, tip)

NearDeadline(b) ==
  OpenView(b) /\ WindowRemaining(b, windowSecs, tip) <= WarnWithin

TowerTypeOK ==
  /\ pc \in Awaits \cup Sync \cup {"off"}
  /\ stopped \in BOOLEAN
  /\ windowSecs \in Nat \cup {Unknown}
  /\ pollFrom \in Nat /\ nextStart \in Nat /\ cursor \in Nat /\ k \in Nat
  /\ listed \in [Indexes -> BatchView \cup {NoBatch}]
  /\ tip \in TipType \cup {Unknown}
  /\ oldestOpen \in Nat \cup {Unknown}
  /\ seen \subseteq Indexes \X Roots
  /\ warned \subseteq Indexes \X Roots
  /\ unjudged \subseteq Indexes \X Roots
  /\ bell \in BOOLEAN /\ escaped \in BOOLEAN
  /\ faults \in 0 .. MaxFaults

\* All variables have their types.
TypeOK == ChainTypeOK /\ TowerTypeOK

(***************************************************************************)
(* What callbacks and the end of a tick do.                                *)
(***************************************************************************)

\* No callback runs in this step.
Silent == UNCHANGED <<bell, stopped>>

\* A callback runs; it may have called stop().
Calls == bell' = ~bell /\ stopped' \in {stopped, TRUE}

\* A read fails or a callback throws.
Fault == faults < MaxFaults /\ faults' = faults + 1

\* Mutant: onError is called whether or not the watchtower was stopped.
ReportErrorAlways == Calls

\* onError, unless stopped.
ReportError == IF stopped THEN Silent ELSE Calls

\* Mutant: the timer is set again although stop() came during the tick.
RearmAlways == pc' = "sleep"

\* The timer is set again unless stopped.
Rearm == pc' = IF stopped' THEN "off" ELSE "sleep"

\* What the tick held is dropped.
DropTick ==
  /\ listed' = NothingListed
  /\ cursor' = 0 /\ k' = 0
  /\ oldestOpen' = Unknown

\* onError throws in the outer catch: the error leaves tick() before the timer
\* is set again, and the loop is over although nobody has stopped it.
Escapes == ~stopped /\ pc' = "off" /\ escaped' = TRUE

\* The outer catch: report, keep pollFrom, go round again.
Catch ==
  /\ Fault
  /\ ReportError
  /\ Escapes \/ (Rearm /\ UNCHANGED escaped)
  /\ DropTick
  /\ tip' = Unknown
  /\ UNCHANGED pollFrom

(***************************************************************************)
(* The tick.                                                               *)
(***************************************************************************)

\* Up to the first await: getRollup if the window is unknown, else the list.
StartTick(w) ==
  /\ pc' = IF w = Unknown THEN "getRollup" ELSE "list"
  /\ cursor' = pollFrom

Tick ==
  /\ pc = "sleep"
  /\ StartTick(windowSecs)
  /\ tip' = Unknown
  /\ Silent
  /\ UNCHANGED <<windowSecs, pollFrom, nextStart, listed, k, oldestOpen, seen,
                 warned, unjudged, escaped, faults, chainVars>>

\* rollup.challengeWindowSec, which a node reports from v3.2.4 on.
GetRollup ==
  /\ pc = "getRollup"
  /\ IF version = 0
     THEN pc' = "getParams" /\ UNCHANGED windowSecs
     ELSE pc' = "list" /\ windowSecs' = RollupWindow
  /\ Silent
  /\ UNCHANGED <<loopVars, listed, tip, oldestOpen, seen, warned, unjudged,
                 escaped, faults, chainVars>>

GetParams ==
  /\ pc = "getParams"
  /\ pc' = "list"
  /\ windowSecs' = DefaultWindow
  /\ Silent
  /\ UNCHANGED <<loopVars, listed, tip, oldestOpen, seen, warned, unjudged,
                 escaped, faults, chainVars>>

\* Mutant: only the first page is read, as releases before 0.6.0 did.
FirstPageOnly ==
  LET upto == IF cursor + PageSize < count THEN cursor + PageSize ELSE count
  IN  /\ pc = "list"
      /\ listed' = [i \in Indexes |->
                      IF cursor <= i /\ i < upto THEN batches[i] ELSE listed[i]]
      /\ cursor' = upto
      /\ pc' = "tip"
      /\ Silent
      /\ UNCHANGED <<windowSecs, pollFrom, nextStart, k, tip, oldestOpen, seen,
                     warned, unjudged, escaped, faults, chainVars>>

\* One page of listBatches, appended; the last page leads on to the tip.
ListPage ==
  LET upto == IF cursor + PageSize < count THEN cursor + PageSize ELSE count
      more == upto < count
  IN  /\ pc = "list"
      /\ listed' = [i \in Indexes |->
                      IF cursor <= i /\ i < upto THEN batches[i] ELSE listed[i]]
      /\ cursor' = upto
      /\ pc' = IF more THEN "list" ELSE "tip"
      /\ Silent
      /\ UNCHANGED <<windowSecs, pollFrom, nextStart, k, tip, oldestOpen, seen,
                     warned, unjudged, escaped, faults, chainVars>>

ReadFails ==
  /\ pc \in {"getRollup", "getParams", "list"}
  /\ Catch
  /\ UNCHANGED <<windowSecs, nextStart, seen, warned, unjudged, chainVars>>

\* The tip, or an error reported and the tick carried on without one.  If
\* onError throws here the outer catch reports that as well.
ReadTip ==
  /\ pc = "tip"
  /\ \/ /\ pc' = "loop" /\ k' = pollFrom
        /\ \/ tip' = chainTip /\ Silent /\ UNCHANGED faults
           \/ tip' = Unknown /\ Fault /\ ReportError
        /\ UNCHANGED <<escaped, pollFrom, listed, cursor, oldestOpen>>
     \/ ~stopped /\ Catch
  /\ UNCHANGED <<windowSecs, nextStart, seen, warned, unjudged, chainVars>>

\* if (stopped) return.
Abandon ==
  /\ pc = "loop" /\ k < cursor /\ stopped
  /\ pc' = "off"
  /\ DropTick
  /\ Silent
  /\ UNCHANGED <<windowSecs, pollFrom, nextStart, tip, seen, warned, unjudged,
                 escaped, faults, chainVars>>

\* The loop reaches a batch: surfaced if new, then judged if it is live,
\* unless onBatch throws.
Surface(b) ==
  LET judge == Validates /\ LiveView(b)
  IN  /\ seen' = seen \cup {KeyOf(k, b)}
      /\ unjudged' = IF judge THEN unjudged \cup {KeyOf(k, b)} ELSE unjudged
      /\ \/ /\ Calls
            /\ pc' = IF judge THEN "validate" ELSE "deadline"
            /\ UNCHANGED <<pollFrom, listed, cursor, tip, k, oldestOpen, escaped, faults>>
         \/ Catch

Visit ==
  LET b == listed[k]
  IN  /\ pc = "loop" /\ k < cursor /\ ~stopped
      /\ nextStart' = IF k >= nextStart THEN k + 1 ELSE nextStart
      /\ IF KeyOf(k, b) \in seen
         THEN /\ pc' = "deadline"
              /\ Silent
              /\ UNCHANGED <<pollFrom, listed, cursor, tip, k, oldestOpen, seen,
                             unjudged, escaped, faults>>
         ELSE Surface(b)
      /\ UNCHANGED <<windowSecs, warned, chainVars>>

\* validate's promise settles with a verdict; onInvalid for a batch it
\* refuses, unless stopped meanwhile.
Verdict ==
  LET b == listed[k]
  IN  /\ pc = "validate"
      /\ unjudged' = unjudged \ {KeyOf(k, b)}
      /\ \/ /\ IF b.valid \/ stopped THEN Silent ELSE Calls
            /\ pc' = "deadline"
            /\ UNCHANGED <<pollFrom, listed, cursor, tip, k, oldestOpen, escaped, faults>>
         \/ ~b.valid /\ ~stopped /\ Catch
      /\ UNCHANGED <<windowSecs, nextStart, seen, warned, chainVars>>

ValidateThrows ==
  /\ pc = "validate"
  /\ Catch
  /\ UNCHANGED <<windowSecs, nextStart, seen, warned, unjudged, chainVars>>

\* oldestOpen, and one alert for a live batch whose window is about to close.
CheckDeadline ==
  LET b == listed[k]
      open == LiveView(b) /\ OpenView(b)
      alert == open /\ NearDeadline(b) /\ KeyOf(k, b) \notin warned /\ ~stopped
      goOn == /\ pc' = "loop" /\ k' = k + 1
              /\ oldestOpen' = IF open /\ (oldestOpen = Unknown \/ k < oldestOpen)
                               THEN k ELSE oldestOpen
              /\ UNCHANGED <<pollFrom, listed, cursor, tip, escaped, faults>>
  IN  /\ pc = "deadline"
      /\ warned' = IF alert THEN warned \cup {KeyOf(k, b)} ELSE warned
      /\ \/ goOn /\ (IF alert THEN Calls ELSE Silent)
         \/ alert /\ Catch
      /\ UNCHANGED <<windowSecs, nextStart, seen, unjudged, chainVars>>

\* Mutant: always past the newest batch visited.
PollFromNewest == IF tip = Unknown THEN pollFrom ELSE nextStart

\* Mutant: polling moves on although no tip was read.
PollFromWithoutTip == IF oldestOpen # Unknown THEN oldestOpen ELSE nextStart

\* Mutant: oldestOpen is used without its default.
PollFromUndefined == IF tip = Unknown THEN pollFrom ELSE oldestOpen

\* Where the next poll starts.
NextPollFrom ==
  IF tip = Unknown THEN pollFrom
  ELSE IF oldestOpen # Unknown THEN oldestOpen ELSE nextStart

EndTick ==
  /\ pc = "loop" /\ k >= cursor
  /\ pollFrom' = NextPollFrom
  /\ Silent
  /\ Rearm
  /\ DropTick
  /\ UNCHANGED <<windowSecs, nextStart, tip, seen, warned, unjudged, escaped,
                 faults, chainVars>>

\* stop(), or the abort signal, while the loop is suspended.
Stop ==
  /\ pc \in Awaits /\ ~stopped
  /\ stopped' = TRUE
  /\ pc' = IF pc = "sleep" THEN "off" ELSE pc
  /\ UNCHANGED <<windowSecs, loopVars, listed, tip, oldestOpen, seen, warned,
                 unjudged, bell, escaped, faults, chainVars>>

\* A signal that has already fired leaves the watchtower off.
Init ==
  /\ ChainInit
  /\ windowSecs = OptionWindow
  /\ pc \in {IF OptionWindow = Unknown THEN "getRollup" ELSE "list", "off"}
  /\ stopped = FALSE
  /\ pollFrom = 0 /\ nextStart = 0 /\ cursor = 0 /\ k = 0
  /\ listed = NothingListed
  /\ tip = Unknown /\ oldestOpen = Unknown
  /\ seen = {} /\ warned = {} /\ unjudged = {}
  /\ bell = FALSE /\ escaped = FALSE /\ faults = 0

TowerStep ==
  \/ Tick \/ GetRollup \/ GetParams \/ ListPage \/ ReadFails \/ ReadTip
  \/ Abandon \/ Visit \/ Verdict \/ ValidateThrows \/ CheckDeadline \/ EndTick

ChainStep ==
  /\ pc \in Awaits
  /\ ChainNext
  /\ UNCHANGED towerVars

Next == TowerStep \/ Stop \/ ChainStep

Spec == Init /\ [][Next]_vars

\* Every await settles and a set timer fires: each suspended step is fair.
\* Nothing forces the chain, the operator's stop() or a failure.
TowerFairness == WF_vars(TowerStep)

FairSpec == Spec /\ TowerFairness

(***************************************************************************)
(* Properties.                                                             *)
(***************************************************************************)

\* A batch of the chain the watchtower has to keep an eye on: live, and the
\* chain still accepts a challenge against it.
Challengeable(i) ==
  i < count /\ Live(batches[i]) /\ WindowOpen(batches[i], RollupWindow, chainTip)

\* Polling never moves past a batch that can still be challenged, for a batch
\* submitted under a fresh index and a watchtower that knows the rollup's own
\* window: pollFrom is only advanced to the oldest open batch, or past the
\* newest one visited, however reads, failures and chain steps interleave.
OpenBatchesStayPolled ==
  windowSecs = RollupWindow =>
    \A i \in Indexes :
      Challengeable(i) /\ batches[i].submission = 1 => pollFrom <= i

(***************************************************************************)
(* The inductive invariant behind OpenBatchesStayPolled.                   *)
(***************************************************************************)

\* b is what became of v: the same submission, no less settled, or a later one.
Follows(v, b) ==
  /\ v.submission <= b.submission
  /\ v.submission = b.submission =>
       /\ v.stateRoot = b.stateRoot
       /\ v.submittedAt = b.submittedAt
       /\ v.submittedTime = b.submittedTime
       /\ Live(b) => Live(v)

LiveNotFinal(b) == Live(b) => b.finalizedAt = 0

InTick == {"getRollup", "getParams", "list", "tip", "loop", "deadline", "validate"}
Listing == {"list", "tip", "loop", "deadline", "validate"}
InLoop == {"loop", "deadline", "validate"}

\* The cursors are ordered, and nothing is visited before it is listed.
CursorInv ==
  /\ pollFrom <= nextStart /\ nextStart <= count
  /\ pc \in InTick => pollFrom <= cursor /\ cursor <= count
  /\ pc \in InLoop \cup {"tip"} => nextStart <= cursor
  /\ pc \in InLoop => pollFrom <= k /\ k <= cursor /\ k <= nextStart
  /\ pc \in {"deadline", "validate"} => k < cursor /\ k < nextStart
  /\ windowSecs = Unknown => pollFrom = 0
  /\ pc \in Listing => windowSecs # Unknown
  /\ pc \in {"getRollup", "getParams"} => windowSecs = Unknown

\* What the tick has read is what the chain held at some earlier moment.
SnapshotInv ==
  /\ \A i \in Indexes : i < count => LiveNotFinal(batches[i])
  /\ pc \in InTick =>
       \A i \in Indexes : pollFrom <= i /\ i < cursor =>
         /\ listed[i] \in BatchView
         /\ LiveNotFinal(listed[i])
         /\ Follows(listed[i], batches[i])
  /\ pc \in InLoop /\ tip # Unknown =>
       tip.height <= chainTip.height /\ tip.timeSecs <= chainTip.timeSecs

\* oldestOpen is the least open index among the batches passed in the loop.
OldestOpenInv ==
  /\ pc \notin InLoop => oldestOpen = Unknown
  /\ pc \in InLoop =>
       /\ oldestOpen # Unknown => pollFrom <= oldestOpen /\ oldestOpen < k
       /\ \A j \in Indexes :
            pollFrom <= j /\ j < k /\ LiveView(listed[j]) /\ OpenView(listed[j]) =>
              oldestOpen # Unknown /\ oldestOpen <= j

PollInv ==
  TypeOK /\ CursorInv /\ SnapshotInv /\ OldestOpenInv /\ OpenBatchesStayPolled

\* The same for every batch, resubmitted ones included: what the module header
\* and the guide say of a resubmitted index (it "is judged again").
ResubmissionsStayPolled ==
  windowSecs = RollupWindow =>
    \A i \in Indexes : Challengeable(i) => pollFrom <= i

\* No window closes without an alert: after a tick that read the tip, every
\* live batch visited so far whose window was open and near its end at that
\* tip has been alerted.
NearDeadlineWarned ==
  pc = "sleep" /\ tip # Unknown /\ windowSecs = RollupWindow =>
    \A i \in Indexes :
      /\ i < nextStart /\ Live(batches[i]) /\ batches[i].submission = 1
      /\ NearDeadline(batches[i])
      => KeyOf(i, batches[i]) \in warned

\* What NearDeadlineWarned needs beside PollInv.  Behind pollFrom no window is
\* open at the tip of the tick; of the batches passed, those near their
\* deadline have been alerted, unless stop() came in between.
WarnInv ==
  /\ pc \in InLoop /\ tip # Unknown /\ windowSecs = RollupWindow =>
       \A i \in Indexes :
         i < pollFrom /\ Live(batches[i]) /\ batches[i].submission = 1 =>
           ~WindowOpen(batches[i], RollupWindow, tip)
  /\ pc \in InLoop /\ ~stopped =>
       \A j \in Indexes :
         pollFrom <= j /\ j < k /\ LiveView(listed[j]) /\ NearDeadline(listed[j]) =>
           KeyOf(j, listed[j]) \in warned
  /\ NearDeadlineWarned

\* A live batch that was surfaced gets its verdict sooner or later while it can
\* still be challenged ("flags batches you should challenge before the window
\* closes"), on whichever poll, unless the watchtower is stopped or onError
\* throws.
SurfacedBatchesJudged ==
  \A i \in Indexes, r \in Roots :
    <<i, r>> \in unjudged ~>
      \/ <<i, r>> \notin unjudged
      \/ ~Challengeable(i) \/ batches[i].stateRoot # r
      \/ stopped \/ escaped

\* Every batch is surfaced sooner or later, however many reads fail and
\* callbacks throw, unless the watchtower is stopped or onError itself throws.
BatchesSurfaced ==
  \A i \in Indexes :
    (pc # "off" /\ i < count) ~>
      (stopped \/ escaped \/ \E r \in Roots : <<i, r>> \in seen)

\* After a failure only stop() ends the loop ("Called on a polling error (the
\* loop continues)").
LoopContinues == pc = "off" /\ faults > 0 => stopped

\* stop() ends the loop: whatever it is suspended at, it does not come back.
StopEnds == stopped ~> (pc = "off")

\* A stopped watchtower has no timer set.
SleepsUnstopped == pc = "sleep" => ~stopped

\* The loop is a polling watcher: no callback and no tick after stop().
PollMode ==
  IF pc = "sleep" THEN "armed" ELSE IF pc = "off" THEN "off" ELSE "running"

Loop == INSTANCE PollLoop WITH mode <- PollMode

PollsAsPromised == Loop!LoopSpec

==============================================================================
