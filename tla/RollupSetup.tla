------------------------------ MODULE RollupSetup ------------------------------
(***************************************************************************)
(* The operator's first commands: doctor, which says whether a rollup can  *)
(* be created, and create, which shows what it costs, asks, connects and   *)
(* sends.  Between the reads, and between the commands, governance moves   *)
(* the parameters, the account's money comes and goes and ids are taken.   *)
(***************************************************************************)
EXTENDS RollupConfig, TLC

CONSTANTS
  NotANumber,    \* a --stake-uqor that is not digits
  MinStakes,     \* values of minStakeForRollup
  Rates,         \* values of rollupCreationBurnRate: a decimal's digits and its power of ten
  DefaultRate,   \* DEFAULT_RDK_PARAMS.rollupCreationBurnRate
  MaxBalance,    \* bound: the account's balance
  Fee,           \* what the chain charges for the transaction
  FeeBuffer,     \* feeBufferUqor
  MaxRollups,    \* maxRollups
  MaxMoves,      \* bound: changes of the chain by others
  MaxCommands    \* bound: commands the operator runs

ASSUME SetupAssumption ==
  /\ MinStakes \subseteq Nat \ {0} /\ MaxBalance \in Nat
  /\ DefaultRate \in Rates /\ \A r \in Rates : r.numerator \in Nat /\ r.scale \in Nat \ {0}
  /\ Fee \in Nat /\ FeeBuffer \in Nat /\ Fee <= FeeBuffer
  /\ NotANumber \notin Nat
  /\ MaxRollups \in Nat /\ MaxMoves \in Nat /\ MaxCommands \in Nat

VARIABLES
  minStake, rate,   \* chain: the parameters
  balance,          \* chain: the operator's money
  taken,            \* chain: rollup ids in use
  created,          \* chain: the operator's last rollup
  moves,
  signer,     \* "none", "key" (no post-quantum seed beside it), "hybrid"
  oPc,        \* the step of the command, "idle" between commands
  flags,      \* the flags of the command
  commands,   \* commands so far
  seen,       \* the parameters the command has read
  checks,     \* doctor: the statuses so far
  cleared,    \* what doctor saw when its balance check was ok, Undefined if it was not
  shown,      \* create: the cost shown to the operator
  refused,    \* create: why the chain refused it, "none" if it did not
  exit        \* the exit code of the last command

netVars == <<minStake, rate, balance, taken, created, moves>>
commandVars == <<signer, oPc, flags, commands, seen, checks, cleared, shown, refused, exit>>
setupVars == <<netVars, commandVars>>

(***************************************************************************)
(* The chain.                                                              *)
(***************************************************************************)

Moves ==
  /\ moves < MaxMoves /\ moves' = moves + 1
  /\ \/ minStake' \in MinStakes \ {minStake} /\ UNCHANGED <<rate, balance, taken>>
     \/ rate' \in Rates \ {rate} /\ UNCHANGED <<minStake, balance, taken>>
     \/ balance' \in 0 .. MaxBalance \ {balance} /\ UNCHANGED <<minStake, rate, taken>>
     \/ \E id \in {"id", "id2"} \ taken :
          taken' = taken \cup {id} /\ UNCHANGED <<minStake, rate, balance>>
  /\ UNCHANGED created /\ UNCHANGED commandVars

\* The burn is the rate's share of the stake, rounded down.
ChainBurn(stake) ==
  LET share == stake * rate.numerator IN
  CHOOSE b \in 0 .. share : b * rate.scale <= share /\ (b + 1) * rate.scale > share

CreateRefused(id, stake) ==
  IF id \in taken THEN "id"
  ELSE IF Cardinality(taken) >= MaxRollups THEN "full"
  ELSE IF stake < minStake THEN "stake"
  ELSE IF balance < stake + Fee THEN "funds" ELSE "none"

(***************************************************************************)
(* Commands.  An error raised anywhere in one is exit code 1.              *)
(***************************************************************************)
Flags ==
  [rollupId : {"", "bad", "id"}, profile : {Undefined, "unknown", "defi", "nft"},
   stake : {Undefined, NotANumber} \cup 0 .. MaxBalance, dryRun : BOOLEAN]

NoFlags == [rollupId |-> "", profile |-> Undefined, stake |-> Undefined, dryRun |-> FALSE]
NoParams == [min |-> 0, rate |-> DefaultRate]
NoCost == [stake |-> 0, burn |-> 0]

\* An unknown profile, like none, is defi.
profileFromFlags(f) == IF f.profile \in PROFILE_NAMES THEN f.profile ELSE "defi"

builderFromFlags(f) == makePreset(profileFromFlags(f), [rollupId |-> f.rollupId])

SetupInit ==
  /\ minStake \in MinStakes /\ rate = DefaultRate /\ balance \in 0 .. MaxBalance
  /\ taken = {} /\ created = Undefined /\ moves = 0
  /\ signer \in {"none", "key", "hybrid"} /\ oPc = "idle" /\ flags = NoFlags
  /\ commands = 0 /\ seen = NoParams /\ checks = <<>> /\ cleared = Undefined
  /\ shown = NoCost /\ refused = "none" /\ exit = 1

\* The command ends and its locals with it.
Return(c) ==
  /\ oPc' = "idle" /\ exit' = c
  /\ flags' = NoFlags /\ seen' = NoParams /\ checks' = <<>> /\ shown' = NoCost

Command(f, at) ==
  /\ oPc = "idle" /\ commands < MaxCommands /\ commands' = commands + 1
  /\ oPc' = at /\ flags' = f /\ refused' = "none" /\ created' = Undefined
  /\ UNCHANGED <<minStake, rate, balance, taken, moves, signer, seen, checks, shown, exit>>

(***************************************************************************)
(* doctor.                                                                 *)
(***************************************************************************)

Doctor(f) ==
  /\ f.stake = Undefined /\ ~f.dryRun
  /\ Command(f, "doctorParams")
  /\ cleared' = Undefined

\* The configuration is checked only under a profile.  The client is on the
\* network the command was told.
StaticChecks(f) ==
  LET v == validateRollupConfig(builderFromFlags(f)) IN
  (IF f.profile = Undefined THEN <<>>
   ELSE ("config" :> IF ~v.valid THEN "fail" ELSE IF v.warnings = {} THEN "ok" ELSE "warn"))
  @@ ("network" :> "ok") @@ ("signer" :> IF signer = "none" THEN "warn" ELSE "ok")

Passed(statuses) == \A c \in DOMAIN statuses : statuses[c] # "fail"

\* cmdDoctor returns what the checks say.
Diagnosed(statuses) == Return(IF Passed(statuses) THEN 0 ELSE 1)

DoctorParams ==
  /\ oPc = "doctorParams"
  /\ LET statuses == StaticChecks(flags) @@ ("rest" :> "ok") @@ ("params" :> "ok") IN
     IF signer = "none" THEN Diagnosed(statuses)
     ELSE /\ oPc' = "doctorBalance" /\ checks' = statuses
          /\ seen' = [min |-> minStake, rate |-> rate]
          /\ UNCHANGED <<flags, shown, exit>>
  /\ UNCHANGED <<netVars, signer, commands, cleared, refused>>

\* Without parameters the balance is not looked at.
DoctorParamsFail ==
  /\ oPc = "doctorParams"
  /\ Diagnosed(StaticChecks(flags) @@ ("rest" :> "fail"))
  /\ UNCHANGED <<netVars, signer, commands, cleared, refused>>

\* Mutant: the stake without the buffer.
RequiredStake(min) == min

Required(min) == min + FeeBuffer

DoctorBalance ==
  /\ oPc = "doctorBalance"
  /\ LET ok == balance >= Required(seen.min) IN
     /\ Diagnosed(checks @@ ("balance" :> IF ok THEN "ok" ELSE "fail"))
     /\ cleared' = IF ok /\ exit' = 0 THEN [min |-> seen.min, balance |-> balance] ELSE Undefined
  /\ UNCHANGED <<netVars, signer, commands, refused>>

\* A balance that cannot be read is a warning.
DoctorBalanceFail ==
  /\ oPc = "doctorBalance"
  /\ Diagnosed(checks @@ ("balance" :> "warn"))
  /\ UNCHANGED <<netVars, signer, commands, cleared, refused>>

(***************************************************************************)
(* create.                                                                 *)
(***************************************************************************)

Create(f) ==
  /\ Command(f, IF validateRollupConfig(builderFromFlags(f)).valid THEN "createParams" ELSE "rejected")
  /\ UNCHANGED cleared

\* No id, or an invalid configuration: the command says so before any read.
Rejected ==
  /\ oPc = "rejected" /\ Return(1)
  /\ UNCHANGED <<netVars, signer, commands, cleared, refused>>

mulDecimalFloor(amount, decimal) == (amount * decimal.numerator) \div decimal.scale

\* Mutant: the documented burn rate, not the live one.
CostByDefault(stake, burnRate) ==
  [stake |-> stake, burn |-> mulDecimalFloor(stake, DefaultRate)]

estimateCreationCost(stake, burnRate) ==
  [stake |-> stake, burn |-> mulDecimalFloor(stake, burnRate)]

\* The parameters are read and the cost is shown.  A stake that is no number is
\* raised; one below the minimum is not noticed.  A dry run ends here, with a
\* mock in place of the chain.
CreateParams ==
  /\ oPc = "createParams"
  /\ LET stake == IF flags.stake = Undefined THEN minStake ELSE flags.stake IN
     IF stake = NotANumber THEN Return(1)
     ELSE IF flags.dryRun THEN Return(0)
     ELSE /\ oPc' = "confirm"
          /\ seen' = [min |-> minStake, rate |-> rate]
          /\ shown' = estimateCreationCost(stake, rate)
          /\ UNCHANGED <<flags, checks, exit>>
  /\ UNCHANGED <<netVars, signer, commands, cleared, refused>>

CreateParamsFail ==
  /\ oPc = "createParams" /\ Return(1)
  /\ UNCHANGED <<netVars, signer, commands, cleared, refused>>

\* The operator answers the prompt (or has said yes before), and connectTx needs
\* a signer and a post-quantum key.
Confirm ==
  /\ oPc = "confirm"
  /\ \/ signer = "hybrid" /\ oPc' = "send" /\ UNCHANGED <<flags, seen, checks, shown, exit>>
     \/ Return(1)
  /\ UNCHANGED <<netVars, signer, commands, cleared, refused>>

\* toCreateMsg: the stake handed to it comes before the configuration's.
toCreateMsg(c, stake) ==
  [rollupId |-> c.rollupId, profile |-> c.profile, vmType |-> c.vmType,
   stakeAmount |-> IF stake # Undefined THEN stake ELSE c.stakeAmountUqor]

\* The transaction is executed, and the answer's code is the command's.  One
\* that is refused may cost its fee.
SendCreate ==
  /\ oPc = "send"
  /\ LET msg == toCreateMsg(builderFromFlags(flags), shown.stake)
         answer == CreateRefused(msg.rollupId, msg.stakeAmount)
     IN /\ refused' = answer
        /\ Return(IF answer = "none" THEN 0 ELSE 1)
        /\ IF answer = "none"
           THEN /\ taken' = taken \cup {msg.rollupId}
                /\ balance' = balance - msg.stakeAmount - Fee
                /\ created' = [rollupId |-> msg.rollupId, profile |-> msg.profile,
                               stake |-> msg.stakeAmount, burn |-> ChainBurn(msg.stakeAmount)]
           ELSE /\ balance' \in {balance} \cup (IF balance < Fee THEN {} ELSE {balance - Fee})
                /\ UNCHANGED <<taken, created>>
  /\ UNCHANGED <<minStake, rate, moves, signer, commands, cleared>>

SetupNext ==
  \/ Moves
  \/ \E f \in Flags : Doctor(f) \/ Create(f)
  \/ DoctorParams \/ DoctorParamsFail \/ DoctorBalance \/ DoctorBalanceFail
  \/ Rejected \/ CreateParams \/ CreateParamsFail \/ Confirm \/ SendCreate

SetupSpec == SetupInit /\ [][SetupNext]_setupVars

(***************************************************************************)
(* Properties.                                                             *)
(***************************************************************************)

\* "Balance covers stake + fees": once doctor has said so, a creation with the
\* minimum stake lacks the money only if money was spent or the minimum was
\* raised since, and its stake is too small only if the minimum was raised
\* after create read it.
DoctorClearsCreate ==
  [][SendCreate /\ flags.stake = Undefined =>
       /\ refused' = "funds" /\ cleared # Undefined =>
            balance < cleared.balance \/ seen.min > cleared.min
       /\ refused' = "stake" => minStake > seen.min]_setupVars

\* What the operator agreed to is what happens: the rollup is created with the
\* stake that was shown, and burns what was shown unless governance changed the
\* rate between the reading and the execution.
BurnAsConfirmed ==
  [][SendCreate /\ refused' = "none" =>
       /\ created'.rollupId = flags.rollupId /\ created'.stake = shown.stake
       /\ created'.burn = shown.burn \/ rate # seen.rate]_setupVars

=============================================================================
