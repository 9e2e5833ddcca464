------------------------------ MODULE Withdrawal ------------------------------
(***************************************************************************)
(* The withdraw command against the chain of Transition: it reads a batch, *)
(* finds which leaf encoding the batch commits, builds the tree and its    *)
(* proof, compares roots, connects and sends, while the batch is rejected, *)
(* replaced or finalized and the upgrade changes the encoding.  A root     *)
(* stands for the list of withdrawals and the encoding of its leaves; that *)
(* a proof verifies for its own leaf and place only is Merkle's matter.    *)
(* One person is at the keyboard, challenging or withdrawing.              *)
(***************************************************************************)
EXTENDS Transition, Sequences

CONSTANTS
  Lists,      \* withdrawals of a batch, in index order
  Unpayable,  \* withdrawals the escrow cannot pay (withdrawalErrors)
  Missing     \* a field the file leaves out

ASSUME WithdrawalAssumption == WithdrawalRoots = Forms \X Lists

VARIABLES
  role,     \* "challenger" or "withdrawer"
  wPc,      \* "idle", "batch", "version", "connect", "send", "exit"
  spec,     \* the file: what to withdraw
  dryRun,
  wView,    \* what is used of the batch as it was read, NoBatch if it could not be
  wProof,   \* the proof: its root, index and the withdrawal the message names
  refusal,  \* why the chain refused the transaction, "none" if it did not
  paidOut,  \* chain: withdrawals executed
  code      \* exit code

wVars == <<role, wPc, spec, dryRun, wView, wProof, refusal, paidOut, code>>

Withdrawals == UNION {{l[i] : i \in DOMAIN l} : l \in Lists}

\* Either the batch's withdrawals, or the hashes of its leaves in some encoding
\* beside what the message is to say, or neither.
Files ==
  [kind : {"withdrawals"}, form : {"v1"}, list : Lists \cup {<<>>}, batch : Indexes,
   index : 1 .. 3, says : {Missing}]
  \cup [kind : {"leaves"}, form : Forms, list : Lists, batch : Indexes, index : {1},
        says : Withdrawals \cup Unpayable \cup {Missing}]
  \cup [kind : {"neither"}, form : {"v1"}, list : {<<>>}, batch : Indexes, index : {1},
        says : {Missing}]

NoProof == [root |-> Other, index |-> 1, says |-> Missing]
NoFile == [kind |-> "neither", form |-> "v1", list |-> <<>>, batch |-> 0, index |-> 1,
           says |-> Missing]

WInit ==
  /\ Init
  /\ role \in {"challenger", "withdrawer"}
  /\ wPc = "idle" /\ spec = NoFile /\ dryRun = FALSE
  /\ wView = NoBatch /\ wProof = NoProof
  /\ refusal = "none" /\ paidOut = {} /\ code = 1

Exit(c) == wPc' = "exit" /\ code' = c

Run(f, dry) ==
  /\ role = "withdrawer" /\ wPc = "idle" /\ wPc' = "batch"
  /\ spec' = f /\ dryRun' = dry
  /\ UNCHANGED <<vars, role, wView, wProof, refusal, paidOut, code>>

\* withdrawalLeafV1 or V2 of every withdrawal, and the tree over them.
withdrawalsTree(list, form) == <<form, list>>

\* The proof of a leaf; the message names a withdrawal beside it.
assembleWithdrawalProof(root, index_, says) ==
  [root |-> root, index |-> index_, says |-> says]

\* Mutant: the roots are not compared.
CheckedFieldsOnly(b, p) ==
  IF p.says = Missing THEN Exit(1)
  ELSE IF dryRun THEN Exit(0)
  ELSE wPc' = "connect" /\ UNCHANGED code

\* Every field is there, and the root is the one the batch commits, if the
\* batch could be read: checked before a fee is paid.
Checked(b, p) ==
  IF p.says = Missing \/ (b # NoBatch /\ b.wroot # p.root) THEN Exit(1)
  ELSE IF dryRun THEN Exit(0)
  ELSE wPc' = "connect" /\ UNCHANGED code

\* getBatch has answered (b) or failed (NoBatch), which a dry run goes on from.
\* Leaves need nothing more; withdrawals need the batch and its encoding.
WithBatch(b) ==
  /\ wPc = "batch" /\ wView' = b
  /\ IF b = NoBatch /\ ~dryRun THEN Exit(1) /\ UNCHANGED wProof
     ELSE CASE spec.kind = "withdrawals" ->
                 /\ IF b = NoBatch THEN Exit(1) ELSE wPc' = "version" /\ UNCHANGED code
                 /\ UNCHANGED wProof
            [] spec.kind = "leaves" ->
                 /\ wProof' = assembleWithdrawalProof(withdrawalsTree(spec.list, spec.form),
                                                      spec.index, spec.says)
                 /\ Checked(b, wProof')
            [] spec.kind = "neither" -> Exit(1) /\ UNCHANGED wProof
  /\ UNCHANGED <<role, spec, dryRun, refusal, paidOut>>

\* The fields the command looks at.  The status is not among them.
Seen(b) ==
  IF b = NoBatch THEN NoBatch
  ELSE [wroot |-> b.wroot, submittedAt |-> b.submittedAt, bound |-> b.bound]

GetBatch == WithBatch(Seen(batches[spec.batch])) /\ UNCHANGED vars

GetBatchFails ==
  /\ faults < MaxFaults /\ faults' = faults + 1
  /\ WithBatch(NoBatch)
  /\ UNCHANGED <<chainVars, seqVars, towerVars>>

\* transitionRootVersionForBatch, then the tree: no withdrawals, or an index
\* past the last one, is raised.
BuildProof ==
  /\ wPc = "version"
  /\ IF spec.index \notin DOMAIN spec.list THEN Exit(1) /\ UNCHANGED wProof
     ELSE /\ wProof' = assembleWithdrawalProof(
                         withdrawalsTree(spec.list, transitionRootVersionForBatch(wView)),
                         spec.index, spec.list[spec.index])
          /\ Checked(wView, wProof')
  /\ UNCHANGED <<vars, role, spec, dryRun, wView, refusal, paidOut>>

VersionFails ==
  /\ wPc = "version" /\ Exit(1)
  /\ faults < MaxFaults /\ faults' = faults + 1
  /\ UNCHANGED <<chainVars, seqVars, towerVars>>
  /\ UNCHANGED <<role, spec, dryRun, wView, wProof, refusal, paidOut>>

\* connectTx, and the rules executeWithdrawal checks before it broadcasts.
Connect ==
  /\ wPc = "connect"
  /\ IF wProof.says \in Unpayable THEN Exit(1) ELSE wPc' = "send" /\ UNCHANGED code
  /\ UNCHANGED <<vars, role, spec, dryRun, wView, wProof, refusal, paidOut>>

ConnectFails ==
  /\ wPc = "connect" /\ Exit(1)
  /\ faults < MaxFaults /\ faults' = faults + 1
  /\ UNCHANGED <<chainVars, seqVars, towerVars>>
  /\ UNCHANGED <<role, spec, dryRun, wView, wProof, refusal, paidOut>>

\* The leaf the chain hashes is in the tree the batch commits, at the index.
Verifies(b, p) ==
  /\ p.root = b.wroot /\ b.wroot[1] = ChainForm(b)
  /\ p.index \in DOMAIN b.wroot[2] /\ b.wroot[2][p.index] = p.says

ChainAnswer(b, p) ==
  IF b = NoBatch THEN "not final"
  ELSE IF b.status # "finalized" THEN "not final"
  ELSE IF ~Verifies(b, p) THEN "proof" ELSE "none"

\* Mutant: the answer's code is not looked at.
ExitCodeSent(answer) == 0

\* res.code of the answer to the transaction.
ExitCode(answer) == IF answer = "none" THEN 0 ELSE 1

\* The transaction is included, against whatever is under the index by then.
ExecuteWithdrawal ==
  /\ wPc = "send"
  /\ refusal' = ChainAnswer(batches[spec.batch], wProof)
  /\ paidOut' = IF refusal' = "none"
                THEN paidOut \cup {[batch |-> spec.batch, index |-> wProof.index,
                                    withdrawal |-> wProof.says]}
                ELSE paidOut
  /\ Exit(ExitCode(refusal'))
  /\ UNCHANGED <<vars, role, spec, dryRun, wView, wProof>>

\* While one withdraws, others submit, finalize and reject.
WNext ==
  \/ role = "challenger" /\ Next /\ UNCHANGED wVars
  \/ role = "withdrawer" /\ Next /\ UNCHANGED <<seqVars, towerVars, wVars>>
  \/ \E f \in Files, dry \in BOOLEAN : Run(f, dry)
  \/ GetBatch \/ GetBatchFails \/ BuildProof \/ VersionFails
  \/ Connect \/ ConnectFails \/ ExecuteWithdrawal

WSpec == WInit /\ [][WNext]_<<vars, wVars>>

(***************************************************************************)
(* Properties.                                                             *)
(***************************************************************************)

\* "check before paying the fee": the chain refuses no proof built from the
\* batch's withdrawals, on either side of the upgrade, unless another batch
\* took the place of the one the command read.
ProofRefusedOnlyIfReplaced ==
  refusal = "proof" /\ spec.kind = "withdrawals" =>
    \/ batches[spec.batch].submittedAt # wView.submittedAt
    \/ batches[spec.batch].wroot # wView.wroot

\* Exit code 0 is a dry run or a withdrawal executed: the one the file has at
\* its index, and in the list the batch finally committed.
ExitZeroPaysTheListed ==
  wPc = "exit" /\ code = 0 /\ ~dryRun =>
    \E w \in paidOut :
      /\ w.batch = spec.batch /\ w.index = spec.index
      /\ w.withdrawal = spec.list[spec.index]
      /\ batches[w.batch].wroot[2][w.index] = w.withdrawal

=============================================================================
