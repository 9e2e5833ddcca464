------------------------------ MODULE MCTxClient ------------------------------
(* Small instances of TxClient for TLC. *)
EXTENDS TxClient, TLC

\* A connection as the command line makes it, and ones made by hand.
CliSetup == [hybrid |-> TRUE, source |-> "mnemonic", rest |-> TRUE, priced |-> TRUE]
KeySetups == {CliSetup, [CliSetup EXCEPT !.source = "seed"]}
AllSetups ==
  {CliSetup, [CliSetup EXCEPT !.rest = FALSE], [CliSetup EXCEPT !.hybrid = FALSE],
   [CliSetup EXCEPT !.priced = FALSE]}

\* A rollup of the account's own, and every rollup.
MyRollup == {[mine |-> TRUE, native |-> FALSE]}
AnyRollup == RollupType

Plain(op) ==
  [op |-> op, valid |-> TRUE, anchor |-> "auto", signature |-> "none",
   dataHash |-> FALSE, passStatus |-> TRUE, fee |-> "auto"]

\* Lifecycle calls beside the submissions and challenges they race with.
LifecycleInputs ==
  {Plain(op) : op \in {"pause", "resume", "stop", "submit"}}
    \cup {[Plain("stop") EXCEPT !.passStatus = FALSE]}

\* Submissions in every anchor mode, and the calls with rules of their own.
SubmitInputs ==
  {[Plain("submit") EXCEPT !.anchor = m, !.signature = s, !.dataHash = d] :
     m \in {"auto", "require", "off"}, s \in {"none", "bad"}, d \in BOOLEAN}
    \cup {[Plain(op) EXCEPT !.valid = FALSE, !.fee = "explicit"] :
            op \in {"create", "submit", "withdraw"}}
    \cup {Plain(op) : op \in {"create", "withdraw", "challenge", "resolve"}}

Perms == Permutations(Procs)

==============================================================================
