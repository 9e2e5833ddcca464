------------------------------- MODULE TxClient -------------------------------
(***************************************************************************)
(* RdkTxClient and the connection the command line makes for it.  Several  *)
(* processes act for one operator account: each reads the rollup, resolves *)
(* the account's post-quantum key against the chain, connects and sends    *)
(* transactions, every check being a read that the chain may outrun before *)
(* the transaction executes.                                               *)
(***************************************************************************)
EXTENDS Naturals, FiniteSets

CONSTANTS
  Procs,      \* processes that use the account
  Setups,     \* how a process may be configured, see SetupType
  Inputs,     \* the calls a process may make, see InputType
  Rollups,    \* the rollups that may be meant, see RollupType
  MaxCalls    \* bound: calls per process

Ops == {"create", "submit", "challenge", "resolve", "pause", "resume", "stop", "withdraw"}
Lifecycle == {"pause", "resume", "stop"}
Keys == {"canonical", "legacy", "seed", "other"}
RollupStatus == {"none", "active", "paused", "stopped"}
BatchStatus == {"none", "submitted", "challenged", "finalized", "rejected"}

\* source: what the environment holds; rest: a REST endpoint is configured;
\* priced: a gas price is set.  A classical client has no post-quantum key.
SetupType ==
  [hybrid : BOOLEAN, source : {"mnemonic", "seed"}, rest : BOOLEAN, priced : BOOLEAN]

\* valid: the input keeps the rules checked without a read (id grammar, length
\* of the withdrawals root, fields of a withdrawal); anchor: the anchor mode;
\* signature: an explicit anchor signature, right or wrong; passStatus: the
\* caller passes the status it knows as currentStatus; fee: an explicit fee.
InputType ==
  [op : Ops, valid : BOOLEAN, anchor : {"auto", "require", "off"},
   signature : {"none", "good", "bad"}, dataHash : BOOLEAN,
   passStatus : BOOLEAN, fee : {"explicit", "auto"}]

\* mine: the account is the rollup's creator; native: its data availability is
\* native or both.
RollupType == [mine : BOOLEAN, native : BOOLEAN]

\* The calls that have such rules: createRollup, submitBatch, executeWithdrawal.
RuledOps == {"create", "submit", "withdraw"}

ASSUME TxAssumption ==
  /\ Setups \subseteq SetupType /\ Inputs \subseteq InputType
  /\ \A in \in Inputs : in.op \notin RuledOps => in.valid
  /\ Rollups \subseteq RollupType /\ MaxCalls \in Nat

VARIABLES
  rollup,     \* chain: the rollup, as it was created
  status,     \* chain: the rollup's status
  latest,     \* chain: status of its latest batch
  feature,    \* chain: rdk-challenge-settlement is enabled
  registered, \* chain: the account's registered key, "none" if it has none
  sequence,   \* chain: the account's sequence
  mempool,    \* transactions broadcast and not yet executed
  proc        \* the processes

chainVars == <<rollup, status, latest, feature, registered, sequence>>
vars == <<chainVars, mempool, proc>>

Unread == "unread"

\* What a process has read: the last answers it got (feature is FALSE until
\* it is asked for).
SawType ==
  [status : RollupStatus \cup {Unread}, registered : Keys \cup {"none", Unread},
   feature : BOOLEAN, latest : BatchStatus \cup {Unread}]

NothingSeen ==
  [status |-> Unread, registered |-> Unread, feature |-> FALSE, latest |-> Unread]

NoInput == [op |-> "none"]

TxType ==
  [by : Procs, n : Nat, hybrid : BOOLEAN, rest : BOOLEAN,
   key : Keys \cup {"none"}, include : BOOLEAN, input : InputType,
   anchor : {"none", "own", "good", "bad"}, sequence : Nat, saw : SawType]

\* The await a process is suspended at, or "idle", or "dead" if it could not
\* connect.
Steps == {"readStatus", "connect", "idle", "readDa", "readRollup", "anchorChainId",
          "features", "latest", "fee", "sequence", "broadcast", "wait", "dead"}

Outcomes == {"none", "ok", "refused", "thrown", "timeout"}

ProcType ==
  [pc : Steps, setup : SetupType, key : Keys \cup {"none"}, include : BOOLEAN,
   saw : SawType, input : InputType \cup {NoInput},
   anchor : {"none", "own", "good", "bad"}, sequence : Nat, n : 0 .. MaxCalls,
   raced : BOOLEAN, outcome : Outcomes]

\* All variables have their types.
TypeOK ==
  /\ rollup \in RollupType
  /\ status \in RollupStatus /\ latest \in BatchStatus /\ feature \in BOOLEAN
  /\ registered \in Keys \cup {"none"} /\ sequence \in Nat
  /\ \A tx \in mempool : tx \in TxType
  /\ proc \in [Procs -> ProcType]

Init ==
  /\ rollup \in Rollups
  /\ status \in {"none", "active"} /\ latest = "none" /\ feature \in BOOLEAN
  /\ registered \in Keys \cup {"none"} /\ sequence = 0
  /\ mempool = {}
  /\ \E s \in [Procs -> Setups] :
       proc = [p \in Procs |->
                 [pc |-> "readStatus", setup |-> s[p], key |-> "none",
                  include |-> FALSE, saw |-> NothingSeen, input |-> NoInput,
                  anchor |-> "none", sequence |-> 0, n |-> 0, raced |-> FALSE,
                  outcome |-> "none"]]

(***************************************************************************)
(* The chain's rules, as the toolkit mirrors them.                         *)
(***************************************************************************)

Unsettled == {"submitted", "challenged"}

\* ROLLUP_ACTION_FROM.
ActionFrom(op) ==
  CASE op = "pause" -> {"active"}
    [] op = "resume" -> {"paused"}
    [] op = "stop" -> {"active", "paused"}
    [] OTHER -> RollupStatus

StatusAfter(op) ==
  CASE op = "pause" -> "paused"
    [] op \in {"resume", "create"} -> "active"
    [] op = "stop" -> "stopped"
    [] OTHER -> status

LatestAfter(op) ==
  CASE op = "submit" -> {"submitted"}
    [] op = "challenge" -> {"challenged"}
    [] op = "resolve" -> {"finalized", "rejected"}
    [] OTHER -> {latest}

\* The signature half the account's registered key has to match.
KeyAccepted(tx) ==
  tx.hybrid /\ (tx.key = registered \/ (registered = "none" /\ tx.include))

Reasons ==
  {"invalid", "status", "latest", "data", "anchor", "creator", "exists", "halted", "batch"}

\* Why the chain refuses a transaction once its fee is paid.
Refused(tx, why) ==
  LET op == tx.input.op
  IN  CASE why = "invalid" -> ~tx.input.valid /\ (op = "submit" => feature)
        [] why = "status"  -> op \in Lifecycle /\ status \notin ActionFrom(op)
        [] why = "latest"  -> op = "stop" /\ feature /\ latest \in Unsettled
        [] why = "data"    -> op = "submit" /\ tx.input.dataHash /\ rollup.native
        [] why = "anchor"  ->
             op = "submit" /\ (tx.anchor = "bad" \/ (tx.anchor = "own" /\ ~rollup.mine))
        [] why = "creator" -> op \in Lifecycle /\ ~rollup.mine
        [] why = "exists"  -> op = "create" /\ status # "none"
        [] why = "halted"  -> op = "submit" /\ status # "active"
        [] why = "batch"   -> \/ op = "challenge" /\ latest # "submitted"
                              \/ op = "resolve" /\ latest # "challenged"

Refusals(tx) == {why \in Reasons : Refused(tx, why)}

(***************************************************************************)
(* Connecting.                                                             *)
(***************************************************************************)

Goto(p, step) == proc' = [proc EXCEPT ![p].pc = step]

\* The call ends: resolved or rejected, the client is free again.
Ended(c, outcome) ==
  [c EXCEPT !.pc = "idle", !.outcome = outcome, !.input = NoInput, !.anchor = "none",
            !.sequence = 0, !.raced = FALSE, !.saw.feature = FALSE, !.saw.latest = Unread]

EndWith(p, outcome) == proc' = [proc EXCEPT ![p] = Ended(proc[p], outcome)]

Off == UNCHANGED <<chainVars, mempool>>

\* The caller reads the rollup to know its status.
ReadStatus(p) ==
  /\ proc[p].pc \in {"readStatus", "idle"}
  /\ proc[p].pc = "idle" => proc[p].n < MaxCalls
  /\ proc' = [proc EXCEPT ![p].saw.status = status,
                          ![p].pc = IF @ = "idle" THEN "idle" ELSE "connect"]
  /\ Off

\* Mutant: the canonical key, whatever the chain has.
CanonicalOnly(source, answer) ==
  IF source = "mnemonic" THEN "canonical"
  ELSE IF answer \in {"none", "seed"} THEN "seed" ELSE "refuse"

\* pqcKeypairFromEnv: the key for what the chain answers, "refuse" to throw.
ResolvedKey(source, answer) ==
  IF source = "seed"
  THEN IF answer \in {"none", "seed"} THEN "seed" ELSE "refuse"
  ELSE IF answer = "none" THEN "canonical"
  ELSE IF answer \in {"canonical", "legacy"} THEN answer ELSE "refuse"

\* Mutant: a key that cannot be resolved does not stop the connection.
ConnectAnyway(p) ==
  /\ proc[p].pc = "connect"
  /\ proc' = [proc EXCEPT ![p].pc = "idle",
                          ![p].key = ResolvedKey(proc[p].setup.source, registered),
                          ![p].saw.registered = registered]
  /\ Off

\* connectTx; a query that fails reads as an account without a key.
Connect(p) ==
  /\ proc[p].pc = "connect"
  /\ \E answer \in {registered, "none"} :
       LET key == ResolvedKey(proc[p].setup.source, answer)
       IN  IF proc[p].setup.hybrid
           THEN proc' = [proc EXCEPT ![p].pc = IF key = "refuse" THEN "dead" ELSE "idle",
                                     ![p].key = IF key = "refuse" THEN "none" ELSE key,
                                     ![p].include = key # "refuse" /\ answer = "none",
                                     ![p].saw.registered = answer]
           ELSE Goto(p, "idle")
  /\ Off

(***************************************************************************)
(* A call.                                                                 *)
(***************************************************************************)

CanRead(p) == proc[p].setup.hybrid /\ proc[p].setup.rest

\* A rule checked without a read is broken: rollupIdError, withdrawalsRootError,
\* withdrawalErrors, assertRollupAction.
BrokenRule(p, in) ==
  \/ in.op \in RuledOps /\ ~in.valid
  \/ in.op \in Lifecycle /\ in.passStatus /\ proc[p].saw.status \notin ActionFrom(in.op)

\* Mutant: a required anchor that cannot be made is left out.
UnanchoredAnyway(p) == Goto(p, "fee")

\* No anchor signature could be made: refuse it or submit unanchored.
Unanchored(p) ==
  IF proc[p].input.anchor = "require" THEN EndWith(p, "thrown") ELSE Goto(p, "fee")

\* The first await of submitBatch's anchoring, given the input.
AnchorStep(p, in) ==
  IF in.signature # "none" \/ in.anchor = "off" THEN "fee"
  ELSE IF CanRead(p) THEN "readRollup"
  ELSE IF in.anchor = "require" THEN "throw" ELSE "fee"

FirstStep(p, in) ==
  IF in.op = "submit"
  THEN IF in.dataHash /\ CanRead(p) THEN "readDa" ELSE AnchorStep(p, in)
  ELSE IF in.op = "stop" /\ CanRead(p) THEN "features" ELSE "fee"

Begin(p, in) ==
  /\ proc[p].pc = "idle" /\ proc[p].n < MaxCalls
  /\ LET step == IF BrokenRule(p, in) THEN "throw" ELSE FirstStep(p, in)
     IN  proc' = [proc EXCEPT
           ![p].n = @ + 1,
           ![p].pc = IF step = "throw" THEN "idle" ELSE step,
           ![p].outcome = IF step = "throw" THEN "thrown" ELSE "none",
           ![p].input = IF step = "throw" THEN NoInput ELSE in,
           ![p].anchor = IF step = "throw" \/ in.op # "submit" THEN "none" ELSE in.signature]
  /\ Off

\* getRollup for dataHashError.
ReadDa(p) ==
  /\ proc[p].pc = "readDa"
  /\ LET step == AnchorStep(p, proc[p].input)
     IN  \/ ~rollup.native /\ step # "throw" /\ Goto(p, step)
         \/ EndWith(p, "thrown")
  /\ Off

\* Mutant: whoever signs hybrid signs the anchor.
AnyoneAnchors(p) ==
  /\ proc[p].pc = "readRollup"
  /\ \/ Goto(p, "anchorChainId")
     \/ Unanchored(p)
  /\ Off

\* getRollup in tryAnchorSignature: only the creator signs, a failure does not.
ReadRollup(p) ==
  /\ proc[p].pc = "readRollup"
  /\ \/ rollup.mine /\ Goto(p, "anchorChainId")
     \/ Unanchored(p)
  /\ Off

\* getChainId in tryAnchorSignature, outside its try: a failure ends the call
\* whatever the anchor mode.
AnchorChainId(p) ==
  /\ proc[p].pc = "anchorChainId"
  /\ \/ proc' = [proc EXCEPT ![p].pc = "fee", ![p].anchor = "own"]
     \/ EndWith(p, "thrown")
  /\ Off

\* isProtocolFeatureEnabled(rdk-challenge-settlement) in stopRollup.
Features(p) ==
  /\ proc[p].pc = "features"
  /\ \/ proc' = [proc EXCEPT ![p].pc = IF feature THEN "latest" ELSE "fee",
                             ![p].saw.feature = feature]
     \/ EndWith(p, "thrown")
  /\ Off

\* Mutant: only a challenged batch is thought to stand in the way.
StopBlockedByChallenge(answer) == answer = "challenged"

\* stopRollupError.
StopBlocked(answer) == answer \in Unsettled

\* getLatestBatch in stopRollup; a failure reads as no batch.
Latest(p) ==
  /\ proc[p].pc = "latest"
  /\ \E answer \in {latest, "none"} :
       IF StopBlocked(answer) THEN EndWith(p, "thrown")
       ELSE proc' = [proc EXCEPT ![p].pc = "fee", ![p].saw.latest = answer]
  /\ Off

\* resolveFee, then getChainId.
Fee(p) ==
  /\ proc[p].pc = "fee"
  /\ \/ /\ proc[p].input.fee = "explicit" \/ proc[p].setup.priced
        /\ Goto(p, "sequence")
     \/ EndWith(p, "thrown")
  /\ Off

\* Mutant: the sequence is read once and counted on from there.
SequenceCounted(p) ==
  /\ proc[p].pc = "sequence"
  /\ proc' = [proc EXCEPT ![p].pc = "broadcast", ![p].sequence = proc[p].n - 1]
  /\ Off

\* getSequence.
ReadSequence(p) ==
  /\ proc[p].pc = "sequence"
  /\ \/ proc' = [proc EXCEPT ![p].pc = "broadcast", ![p].sequence = sequence]
     \/ EndWith(p, "thrown")
  /\ Off

\* signAndBroadcastHybrid (or cosmjs for a classical client): signed and sent.
Broadcast(p) ==
  /\ proc[p].pc = "broadcast"
  /\ \/ /\ mempool' = mempool \cup
             {[by |-> p, n |-> proc[p].n, hybrid |-> proc[p].setup.hybrid,
               rest |-> proc[p].setup.rest, key |-> proc[p].key,
               include |-> proc[p].include, input |-> proc[p].input,
               anchor |-> proc[p].anchor, sequence |-> proc[p].sequence,
               saw |-> proc[p].saw]}
        /\ Goto(p, "wait")
     \/ EndWith(p, "thrown") /\ UNCHANGED mempool
  /\ UNCHANGED chainVars

\* broadcastTx gives up waiting; the transaction may still be executed.
TimeOut(p) ==
  /\ proc[p].pc = "wait"
  /\ EndWith(p, "timeout")
  /\ Off

(***************************************************************************)
(* The chain.                                                              *)
(***************************************************************************)

UnderWay(p) == proc[p].pc \notin {"readStatus", "connect", "idle", "dead"}

\* Every call under way has been overtaken by a transaction of the account.
Overtaken == [p \in Procs |-> [proc[p] EXCEPT !.raced = @ \/ UnderWay(p)]]

\* The answer reaches the process if it still waits for this transaction.
Answered(tx, procs, outcome) ==
  IF procs[tx.by].pc = "wait" /\ procs[tx.by].n = tx.n
  THEN [procs EXCEPT ![tx.by] = Ended(procs[tx.by], outcome)]
  ELSE procs

\* Refused before a fee is paid, by the sequence or the signatures.
Bounce(tx) ==
  /\ tx \in mempool
  /\ tx.sequence # sequence \/ ~KeyAccepted(tx)
  /\ mempool' = mempool \ {tx}
  /\ proc' = Answered(tx, proc, "refused")
  /\ UNCHANGED chainVars

\* Executed in a block: the fee is paid, the key registered, and the message
\* takes effect unless it is refused.
Execute(tx) ==
  /\ tx \in mempool
  /\ tx.sequence = sequence /\ KeyAccepted(tx)
  /\ mempool' = mempool \ {tx}
  /\ sequence' = sequence + 1
  /\ registered' = tx.key
  /\ IF Refusals(tx) = {}
     THEN /\ status' = StatusAfter(tx.input.op)
          /\ latest' \in LatestAfter(tx.input.op)
          /\ proc' = Answered(tx, Overtaken, "ok")
     ELSE /\ proc' = Answered(tx, Overtaken, "refused")
          /\ UNCHANGED <<status, latest>>
  /\ UNCHANGED <<rollup, feature>>

\* Others act: batches are submitted, challenged and settled, a wallet
\* registers the account's key, an upgrade enables the feature.
ChainMoves ==
  /\ \/ /\ latest' \in (IF status = "active" THEN {"submitted"} ELSE {})
                  \cup (IF latest = "submitted" THEN {"challenged", "finalized"} ELSE {})
                  \cup (IF latest = "challenged" THEN {"rejected", "finalized"} ELSE {})
        /\ UNCHANGED <<feature, registered>>
     \/ ~feature /\ feature' = TRUE /\ UNCHANGED <<latest, registered>>
     \/ registered = "none" /\ registered' \in Keys /\ UNCHANGED <<latest, feature>>
  /\ UNCHANGED <<rollup, status, sequence, mempool, proc>>

ProcStep(p) ==
  \/ ReadStatus(p) \/ Connect(p) \/ (\E in \in Inputs : Begin(p, in))
  \/ ReadDa(p) \/ ReadRollup(p) \/ AnchorChainId(p) \/ Features(p) \/ Latest(p)
  \/ Fee(p) \/ ReadSequence(p) \/ Broadcast(p) \/ TimeOut(p)

Next ==
  \/ \E p \in Procs : ProcStep(p)
  \/ \E tx \in mempool : Bounce(tx) \/ Execute(tx)
  \/ ChainMoves

Spec == Init /\ [][Next]_vars

(***************************************************************************)
(* Properties.                                                             *)
(***************************************************************************)

\* What could excuse the refusal of tx for a reason the client checks.
Excused(tx, why) ==
  CASE why = "invalid" -> FALSE
    [] why = "data"    -> ~tx.rest
    [] why = "anchor"  -> tx.anchor # "own"
    [] why = "status"  -> ~tx.input.passStatus \/ tx.saw.status # status
    [] why = "latest"  -> ~tx.rest \/ tx.saw.feature # feature \/ tx.saw.latest # latest
    [] OTHER           -> TRUE

\* "a transaction the chain would refuse is caught before a fee is paid": a
\* transaction the chain executes and refuses for a reason the client checks
\* was checked against an answer that is no longer true, or could not be read.
PaidRefusalsExcused ==
  [][\A tx \in mempool \ mempool' :
       sequence' # sequence => \A why \in Refusals(tx) : Excused(tx, why)]_vars

\* Signatures are refused only if the registered key is not what the chain
\* answered when the process connected ("every transaction would be refused").
KeyRefusalsExcused ==
  [][\A tx \in mempool \ mempool' :
       tx.hybrid /\ ~KeyAccepted(tx) => tx.saw.registered # registered]_vars

\* A sequence is refused only if another transaction of the account was
\* executed while the call was under way: the client never reuses a stale one.
SequenceRefusedOnlyIfOvertaken ==
  \A tx \in mempool :
    /\ tx.sequence # sequence
    /\ proc[tx.by].pc = "wait" /\ proc[tx.by].n = tx.n
    => proc[tx.by].raced

\* "require" never submits unanchored, "off" never signs, and a signature the
\* caller supplies is sent as given.
AnchorModesKept ==
  \A tx \in mempool :
    tx.input.op = "submit" =>
      /\ tx.input.anchor = "require" => tx.anchor # "none"
      /\ tx.input.anchor = "off" => tx.anchor # "own"
      /\ tx.input.signature # "none" => tx.anchor = tx.input.signature

==============================================================================
