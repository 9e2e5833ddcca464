------------------------------ MODULE MCCommands ------------------------------
(* Small instances of RollupConfig, RollupSetup, Scaffold and Receipts: a       *)
(* builder session, an operator's first commands, the scaffolder, and a receipt *)
(* from building to verification.  They share no state; a behaviour is about    *)
(* one of them and leaves the others at one initial state.                      *)
EXTENDS Receipts, RollupSetup, Scaffold

VARIABLE program

commandsVars == <<program, vars, builderVars, setupVars, scaffoldVars>>

\* Burn rates 0.5 and 0.75; stakes up to MaxBalance are rounded under both.
MyDefaultRate == [numerator |-> 5, scale |-> 10]
MyRates == {MyDefaultRate, [numerator |-> 75, scale |-> 100]}

\* A template with a directory that is not copied, and one without.
MyFiles(t) ==
  {"package.json", ".env.example"}
    \cup (IF t = "defi-rollup" THEN {"src", "node_modules"} ELSE {"challenge"})

\* Roots are compared for equality only.
RootSymmetry == Permutations(Roots)

SetupIdle ==
  /\ signer = "none" /\ balance = 0 /\ minStake = (CHOOSE m \in MinStakes : TRUE) /\ SetupInit

CommandsInit ==
  /\ Init /\ BuilderInit /\ ScaffoldInit
  /\ \/ program = "setup" /\ SetupInit
     \/ program \in {"receipts", "builder", "scaffold"} /\ SetupIdle

CommandsNext ==
  \/ program = "receipts" /\ Next
       /\ UNCHANGED <<program, builderVars, setupVars, scaffoldVars>>
  \/ program = "builder" /\ BuilderNext
       /\ UNCHANGED <<program, vars, setupVars, scaffoldVars>>
  \/ program = "setup" /\ SetupNext
       /\ UNCHANGED <<program, vars, builderVars, scaffoldVars>>
  \/ program = "scaffold" /\ ScaffoldNext
       /\ UNCHANGED <<program, vars, builderVars, setupVars>>

CommandsSpec == CommandsInit /\ [][CommandsNext]_commandsVars

=============================================================================
