------------------------------- MODULE PollLoop -------------------------------
(***************************************************************************)
(* What a polling watcher promises (watchRollup and watchBatches): one     *)
(* tick at a time, the next one armed only when the last one has ended,    *)
(* and, once stop() has been called, no further callback and no further    *)
(* tick.  A watcher whose own callback throws out of a tick ends there.    *)
(***************************************************************************)

VARIABLES
  mode,     \* "armed": the timer is set; "running": a tick is under way;
            \* "off": neither
  stopped,  \* stop() has been called (or the signal has fired)
  bell      \* flips whenever the watcher calls one of its callbacks

loopVars == <<mode, stopped, bell>>

\* A watcher starts with a tick, or not at all if the signal has already fired.
LoopInit ==
  /\ mode \in {"running", "off"}
  /\ stopped = FALSE
  /\ bell = FALSE

Fire ==
  /\ mode = "armed" /\ ~stopped
  /\ mode' = "running"
  /\ UNCHANGED <<stopped, bell>>

\* A callback, which stop() rules out and which may itself call stop().
CallBack ==
  /\ ~stopped
  /\ bell' = ~bell
  /\ stopped' \in BOOLEAN

\* A step of a tick, with or without a callback.
Work ==
  /\ mode = "running"
  /\ CallBack \/ UNCHANGED <<stopped, bell>>
  /\ \/ mode' = "running"
     \/ mode' = IF stopped' THEN "off" ELSE "armed"

\* The callback that reports errors throws, out of the tick.
Die ==
  /\ mode = "running"
  /\ CallBack
  /\ mode' = "off"

Stop ==
  /\ ~stopped
  /\ stopped' = TRUE
  /\ mode' = IF mode = "armed" THEN "off" ELSE mode
  /\ UNCHANGED bell

LoopNext == Fire \/ Work \/ Die \/ Stop

LoopSpec == LoopInit /\ [][LoopNext]_loopVars

==============================================================================
