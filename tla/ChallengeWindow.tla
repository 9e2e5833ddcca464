--------------------------- MODULE ChallengeWindow ---------------------------
(***************************************************************************)
(* The challenge window of a settlement batch, as lifecycle/state-machine  *)
(* computes it.  A batch that records its submission block time is judged  *)
(* by time; an older one by a number of blocks counted from its submission *)
(* height, SecsPerBlock seconds to a block.                                *)
(***************************************************************************)
EXTENDS Integers

\* The block time the block-count rule assumes (the literal 6 in the code).
SecsPerBlock == 6

\* A chain tip: the height and block time a window is judged against.
TipType == [height : Nat, timeSecs : Nat]

\* submittedTime is 0 for a batch submitted before chain v3.2.4.
TimeMode(b) == b.submittedTime > 0

WindowBlocks(windowSecs) == windowSecs \div SecsPerBlock

ElapsedFully(b, windowSecs, tip) ==
  LET elapsed == tip.timeSecs - b.submittedTime
  IN  elapsed >= 0 /\ elapsed >= windowSecs

\* Whether the chain still accepts a challenge against b at tip.
WindowOpen(b, windowSecs, tip) ==
  IF TimeMode(b)
  THEN ~ElapsedFully(b, windowSecs, tip)
  ELSE tip.height - b.submittedAt <= WindowBlocks(windowSecs)

\* Whether the chain would finalize b at tip, its own window having run.
WindowFinalizable(b, windowSecs, tip) ==
  IF TimeMode(b)
  THEN ElapsedFully(b, windowSecs, tip)
  ELSE tip.height - b.submittedAt >= WindowBlocks(windowSecs)

\* secondsRemaining in time mode, blocksRemaining in block-count mode.
WindowRemaining(b, windowSecs, tip) ==
  IF TimeMode(b)
  THEN b.submittedTime + windowSecs - tip.timeSecs
  ELSE b.submittedAt + WindowBlocks(windowSecs) - tip.height

==============================================================================
