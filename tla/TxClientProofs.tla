---------------------------- MODULE TxClientProofs ----------------------------
(***************************************************************************)
(* What the transaction client makes sure of before a fee is paid, for any *)
(* number of processes of one account, any calls and any configuration.    *)
(*                                                                         *)
(* Each check of a call is a read of its own, and the transaction executes *)
(* much later.  What carries a check to the chain is said of the point the *)
(* call has come to: the answers it holds permit the call, from the check  *)
(* on to the transaction in the mempool, whatever the chain does meanwhile.*)
(***************************************************************************)
EXTENDS TxClient, TLAPS

Sending == {"fee", "sequence", "broadcast", "wait"}
Calling == {"readDa", "readRollup", "anchorChainId", "features", "latest"} \cup Sending

\* The input keeps the rules checked without a read.
RulesKept(r) ==
  /\ r.input \in Inputs
  /\ r.input.op \in RuledOps => r.input.valid
  /\ r.input.op \in Lifecycle /\ r.input.passStatus => r.saw.status \in ActionFrom(r.input.op)

\* The key goes with what the chain answered when the process connected.
Keyed(hybrid, r) ==
  hybrid => IF r.saw.registered = "none" THEN r.include ELSE r.key = r.saw.registered

\* The anchor goes with its mode, and is only made by the creator of the rollup o.
Anchored(r, o) ==
  /\ r.input.anchor = "require" => r.anchor # "none"
  /\ r.input.anchor = "off" => r.anchor # "own"
  /\ r.input.signature # "none" => r.anchor = r.input.signature
  /\ r.anchor = "own" => o.mine

\* A data hash is only sent where it is taken, as far as the client can read.
DataTaken(reads, r, o) == r.input.dataHash /\ reads => ~o.native

\* What a call has made sure of when it comes to its fee.
Cleared(hybrid, rest, r, o) ==
  /\ RulesKept(r)
  /\ Keyed(hybrid, r)
  /\ r.input.op = "submit" => Anchored(r, o) /\ DataTaken(hybrid /\ rest, r, o)
  /\ r.input.op = "stop" /\ hybrid /\ rest /\ r.saw.feature => r.saw.latest \notin Unsettled

\* What a process holds at the point it has come to; s is the account's sequence.
CallOK(r, o, s) ==
  /\ r.pc \in Calling => RulesKept(r)
  /\ r.pc \in Calling \cup {"idle"} => Keyed(r.setup.hybrid, r)
  /\ r.pc \in Sending => Cleared(r.setup.hybrid, r.setup.rest, r, o)
  /\ r.pc \in {"readDa", "readRollup", "anchorChainId"} =>
       r.input.op = "submit" /\ r.anchor = r.input.signature
  /\ r.pc \in {"readRollup", "anchorChainId"} =>
       /\ r.input.signature = "none" /\ r.input.anchor # "off"
       /\ DataTaken(r.setup.hybrid /\ r.setup.rest, r, o)
  /\ r.pc = "anchorChainId" => o.mine
  /\ r.pc \in {"features", "latest"} => r.input.op = "stop"
  /\ r.pc \notin Calling => ~r.raced
  /\ r.pc \in {"broadcast", "wait"} /\ ~r.raced => r.sequence = s

\* A transaction in the mempool is one its process r sent, by the call it is at if
\* that still waits, or by one that has ended.
Sent(tx, r, o) ==
  /\ Cleared(tx.hybrid, tx.rest, tx, o)
  /\ tx.n <= r.n
  /\ tx.n = r.n => r.pc \in {"wait", "idle"}
  /\ tx.n = r.n /\ r.pc = "wait" => tx.sequence = r.sequence

ClientInv ==
  /\ TypeOK
  /\ \A p \in Procs : CallOK(proc[p], rollup, sequence)
  /\ \A tx \in mempool : Sent(tx, proc[tx.by], rollup)

(***************************************************************************)
(* Processes, one at a time.                                               *)
(***************************************************************************)

\* A process at another step is otherwise the process it was.
LEMMA GotoFields ==
  ASSUME NEW c \in ProcType, NEW s \in Steps
  PROVE  LET r == [c EXCEPT !.pc = s]
         IN  /\ r \in ProcType /\ r.pc = s
             /\ r.setup = c.setup /\ r.key = c.key /\ r.include = c.include /\ r.saw = c.saw
             /\ r.input = c.input /\ r.anchor = c.anchor /\ r.sequence = c.sequence
             /\ r.n = c.n /\ r.raced = c.raced
BY DEF ProcType

\* The fields of a process are of their types.
LEMMA Fields ==
  ASSUME NEW c \in ProcType
  PROVE  /\ c.pc \in Steps /\ c.setup \in SetupType /\ c.key \in Keys \cup {"none"}
         /\ c.include \in BOOLEAN /\ c.saw \in SawType /\ c.input \in InputType \cup {NoInput}
         /\ c.anchor \in {"none", "own", "good", "bad"} /\ c.sequence \in Nat
         /\ c.n \in 0 .. MaxCalls /\ c.raced \in BOOLEAN /\ c.outcome \in Outcomes
BY DEF ProcType

\* A call that has ended leaves the connection as it was, and nothing of itself.
LEMMA EndedFields ==
  ASSUME NEW c \in ProcType, NEW how \in Outcomes
  PROVE  LET r == Ended(c, how)
         IN  /\ r \in ProcType /\ r.pc = "idle" /\ r.raced = FALSE /\ r.n = c.n
             /\ r.setup = c.setup /\ r.key = c.key /\ r.include = c.include
             /\ r.saw.registered = c.saw.registered
<1>1. c.saw \in SawType
  BY Fields
<1> DEFINE saw == [c.saw EXCEPT !.feature = FALSE, !.latest = Unread]
<1>2. saw \in SawType /\ saw.registered = c.saw.registered
  BY <1>1 DEF SawType
<1>3. Ended(c, how) =
        [pc |-> "idle", setup |-> c.setup, key |-> c.key, include |-> c.include, saw |-> saw,
         input |-> NoInput, anchor |-> "none", sequence |-> 0, n |-> c.n, raced |-> FALSE,
         outcome |-> how]
  <2>1. c = [pc |-> c.pc, setup |-> c.setup, key |-> c.key, include |-> c.include, saw |-> c.saw,
             input |-> c.input, anchor |-> c.anchor, sequence |-> c.sequence, n |-> c.n,
             raced |-> c.raced, outcome |-> c.outcome]
    BY DEF ProcType
  <2>2. Ended(c, how) =
          [c EXCEPT !.pc = "idle", !.outcome = how, !.input = NoInput, !.anchor = "none",
                    !.sequence = 0, !.raced = FALSE, !.saw = saw]
    BY <1>1 DEF Ended, ProcType
  <2> HIDE DEF saw
  <2> QED BY <2>1, <2>2
<1> HIDE DEF saw
<1>4. "idle" \in Steps /\ FALSE \in BOOLEAN
  BY DEF Steps
<1>5. Ended(c, how) \in ProcType
  BY <1>2, <1>3, <1>4, Fields DEF ProcType
<1> QED BY <1>2, <1>3, <1>5

\* The invariant says of each process and each transaction what it needs.
LEMMA Holds ==
  ASSUME ClientInv
  PROVE  /\ \A p \in Procs : proc[p] \in ProcType /\ CallOK(proc[p], rollup, sequence)
         /\ \A tx \in mempool : tx \in TxType /\ tx.by \in Procs /\ Sent(tx, proc[tx.by], rollup)
BY DEF ClientInv, TypeOK, TxType

\* A step of one process that sends nothing.
LEMMA OneProcess ==
  ASSUME ClientInv, NEW p \in Procs, NEW r \in ProcType,
         proc' = [proc EXCEPT ![p] = r], Off,
         CallOK(r, rollup, sequence), r.pc # "wait",
         \/ r.n = proc[p].n + 1
         \/ r.n = proc[p].n /\ (proc[p].pc \in {"wait", "idle"} => r.pc = "idle")
  PROVE  ClientInv'
<1>1. /\ rollup' = rollup /\ status' = status /\ latest' = latest /\ feature' = feature
      /\ registered' = registered /\ sequence' = sequence /\ mempool' = mempool
  BY DEF Off, chainVars
<1>2. proc' \in [Procs -> ProcType] /\ \A q \in Procs : proc'[q] = IF q = p THEN r ELSE proc[q]
  BY DEF ClientInv, TypeOK
<1>3. TypeOK'
  BY <1>1, <1>2 DEF ClientInv, TypeOK
<1>4. ASSUME NEW q \in Procs PROVE CallOK(proc'[q], rollup', sequence')
  BY <1>1, <1>2, Holds
<1>5. ASSUME NEW tx \in mempool PROVE Sent(tx, proc'[tx.by], rollup')
  <2>1. tx.by \in Procs /\ Sent(tx, proc[tx.by], rollup) /\ tx.n \in Nat
    BY Holds DEF TxType
  <2>2. CASE tx.by # p
    BY <1>1, <1>2, <2>1, <2>2
  <2>3. CASE tx.by = p
    <3>1. proc'[p] = r /\ r.n \in Nat /\ proc[p].n \in Nat
      BY <1>2, Holds, Fields
    <3>2. CASE r.n = proc[p].n + 1
      BY <1>1, <2>1, <2>3, <3>1, <3>2 DEF Sent
    <3>3. CASE r.n = proc[p].n /\ (proc[p].pc \in {"wait", "idle"} => r.pc = "idle")
      BY <1>1, <2>1, <2>3, <3>1, <3>3 DEF Sent
    <3> QED BY <3>2, <3>3
  <2> QED BY <2>2, <2>3
<1> QED BY <1>1, <1>3, <1>4, <1>5 DEF ClientInv

\* A call ends.
LEMMA Ends ==
  ASSUME ClientInv, NEW p \in Procs, NEW how \in Outcomes, proc[p].pc \in Calling,
         EndWith(p, how), Off
  PROVE  ClientInv'
<1> DEFINE r == Ended(proc[p], how)
<1>1. /\ r \in ProcType /\ r.pc = "idle" /\ r.raced = FALSE /\ r.n = proc[p].n
      /\ r.setup = proc[p].setup /\ r.key = proc[p].key /\ r.include = proc[p].include
      /\ r.saw.registered = proc[p].saw.registered
  BY Holds, EndedFields
<1>2. proc' = [proc EXCEPT ![p] = r]
  BY DEF EndWith
<1> HIDE DEF r
<1>3. CallOK(r, rollup, sequence)
  <2>1. Keyed(proc[p].setup.hybrid, proc[p])
    BY Holds DEF CallOK
  <2> QED BY <1>1, <2>1 DEF CallOK, Keyed, Calling, Sending
<1> QED BY <1>1, <1>2, <1>3, OneProcess

\* A call goes on to its next step, holding what it held.
LEMMA Goes ==
  ASSUME ClientInv, NEW p \in Procs, NEW s \in Steps, Goto(p, s), Off,
         s # "wait", proc[p].pc \notin {"wait", "idle"},
         CallOK([proc[p] EXCEPT !.pc = s], rollup, sequence)
  PROVE  ClientInv'
<1> DEFINE r == [proc[p] EXCEPT !.pc = s]
<1>1. r \in ProcType /\ r.pc = s /\ r.n = proc[p].n
  BY Holds, GotoFields
<1>2. proc' = [proc EXCEPT ![p] = r]
  BY DEF Goto
<1> HIDE DEF r
<1> QED BY <1>1, <1>2, OneProcess DEF r

\* A call that has cleared what it checks may go on to its fee.
LEMMA ToFee ==
  ASSUME NEW c \in ProcType, NEW o, NEW s, c.pc \in Calling, CallOK(c, o, s),
         c.input.op = "submit" => Anchored(c, o) /\ DataTaken(c.setup.hybrid /\ c.setup.rest, c, o),
         c.input.op = "stop" /\ c.setup.hybrid /\ c.setup.rest /\ c.saw.feature =>
           c.saw.latest \notin Unsettled
  PROVE  CallOK([c EXCEPT !.pc = "fee"], o, s)
<1> DEFINE r == [c EXCEPT !.pc = "fee"]
<1>1. /\ r \in ProcType /\ r.pc = "fee"
      /\ r.setup = c.setup /\ r.key = c.key /\ r.include = c.include /\ r.saw = c.saw
      /\ r.input = c.input /\ r.anchor = c.anchor
  BY GotoFields, ZenonT(40) DEF Steps
<1> HIDE DEF r
<1>2. RulesKept(r) /\ Keyed(r.setup.hybrid, r)
  BY <1>1 DEF CallOK, RulesKept, Keyed
<1>3. r.input.op = "submit" => Anchored(r, o) /\ DataTaken(r.setup.hybrid /\ r.setup.rest, r, o)
  BY <1>1 DEF Anchored, DataTaken
<1>4. Cleared(r.setup.hybrid, r.setup.rest, r, o)
  BY <1>1, <1>2, <1>3 DEF Cleared
<1>5. CallOK(r, o, s)
  BY <1>1, <1>2, <1>4 DEF CallOK, Calling, Sending
<1> QED BY <1>5 DEF r

\* The caller reads the rollup's status, between calls or before it connects.
LEMMA ReadStatusKeeps == ASSUME ClientInv, NEW p \in Procs, ReadStatus(p) PROVE ClientInv'
<1> DEFINE c == proc[p]
           saw == [c.saw EXCEPT !.status = status]
           r == [c EXCEPT !.saw = saw, !.pc = IF c.pc = "idle" THEN "idle" ELSE "connect"]
<1>1. /\ c \in ProcType /\ CallOK(c, rollup, sequence) /\ c.pc \in {"readStatus", "idle"}
      /\ c.saw \in SawType /\ status \in RollupStatus /\ Off
  BY Holds, Fields DEF ReadStatus, ClientInv, TypeOK
<1>2. proc' = [proc EXCEPT ![p] = r]
  BY <1>1 DEF ReadStatus, ClientInv, TypeOK, ProcType
<1>3. saw \in SawType /\ saw.registered = c.saw.registered
  BY <1>1 DEF SawType
<1> HIDE DEF saw
<1>4. /\ r \in ProcType /\ r.pc = (IF c.pc = "idle" THEN "idle" ELSE "connect")
      /\ r.setup = c.setup /\ r.key = c.key /\ r.include = c.include
      /\ r.saw = saw /\ r.n = c.n /\ r.raced = c.raced
  BY <1>1, <1>3 DEF ProcType, Steps
<1> HIDE DEF r, c
<1>5. CallOK(r, rollup, sequence)
  BY <1>1, <1>3, <1>4 DEF CallOK, Keyed, Calling, Sending
<1> QED BY <1>1, <1>2, <1>4, <1>5, OneProcess DEF c

\* pqcKeypairFromEnv gives the key the chain answered, or one to register with the
\* first transaction, or none.
LEMMA KeyResolved ==
  ASSUME NEW source \in {"mnemonic", "seed"}, NEW answer \in Keys \cup {"none"},
         ResolvedKey(source, answer) # "refuse"
  PROVE  /\ ResolvedKey(source, answer) \in Keys
         /\ answer # "none" => ResolvedKey(source, answer) = answer
BY DEF ResolvedKey, Keys

\* A process connects, or dies of a key it cannot use.
LEMMA ConnectKeeps == ASSUME ClientInv, NEW p \in Procs, Connect(p) PROVE ClientInv'
<1> DEFINE c == proc[p]
<1>1. /\ c \in ProcType /\ CallOK(c, rollup, sequence) /\ c.pc = "connect" /\ ~c.raced
      /\ c.saw \in SawType /\ c.setup \in SetupType /\ registered \in Keys \cup {"none"} /\ Off
  BY Holds, Fields DEF Connect, ClientInv, TypeOK, CallOK, Calling, Sending
<1>2. c.setup.source \in {"mnemonic", "seed"}
  BY <1>1 DEF SetupType
<1>3. CASE ~c.setup.hybrid
  <2>1. Goto(p, "idle")
    BY <1>3 DEF Connect
  <2> DEFINE r == [c EXCEPT !.pc = "idle"]
  <2>2. /\ r \in ProcType /\ r.pc = "idle" /\ r.setup = c.setup /\ r.raced = c.raced
    BY <1>1, GotoFields, ZenonT(40) DEF Steps
  <2> HIDE DEF r
  <2>3. CallOK(r, rollup, sequence)
    BY <1>1, <1>3, <2>2 DEF CallOK, Keyed, Calling, Sending
  <2> QED BY <1>1, <2>1, <2>3, Goes DEF r, Steps
<1>4. CASE c.setup.hybrid
  <2>1. PICK answer \in {registered, "none"} :
          LET key == ResolvedKey(c.setup.source, answer)
          IN  proc' = [proc EXCEPT ![p].pc = IF key = "refuse" THEN "dead" ELSE "idle",
                                   ![p].key = IF key = "refuse" THEN "none" ELSE key,
                                   ![p].include = key # "refuse" /\ answer = "none",
                                   ![p].saw.registered = answer]
    BY <1>4 DEF Connect
  <2> DEFINE key == ResolvedKey(c.setup.source, answer)
             saw == [c.saw EXCEPT !.registered = answer]
             inc == key # "refuse" /\ answer = "none"
             r == [c EXCEPT !.pc = IF key = "refuse" THEN "dead" ELSE "idle",
                            !.key = IF key = "refuse" THEN "none" ELSE key,
                            !.include = inc, !.saw = saw]
  <2>2. proc' = [proc EXCEPT ![p] = r]
    BY <1>1, <2>1 DEF ClientInv, TypeOK, ProcType
  <2>3. saw \in SawType /\ saw.registered = answer
    BY <1>1 DEF SawType
  <2>4. key # "refuse" => key \in Keys /\ (answer # "none" => key = answer)
    BY <1>1, <1>2, KeyResolved
  <2>5. inc \in BOOLEAN /\ (key # "refuse" /\ answer = "none" => inc)
    OBVIOUS
  <2> HIDE DEF saw, key, inc
  <2>6. /\ r \in ProcType /\ r.pc = (IF key = "refuse" THEN "dead" ELSE "idle")
        /\ r.key = (IF key = "refuse" THEN "none" ELSE key) /\ r.include = inc
        /\ r.saw = saw /\ r.n = c.n /\ r.raced = c.raced
    BY <1>1, <2>3, <2>4, <2>5 DEF ProcType, Steps
  <2> HIDE DEF r, c
  <2>7. CallOK(r, rollup, sequence)
    <3>1. CASE key = "refuse"
      BY <1>1, <2>6, <3>1 DEF CallOK, Calling, Sending
    <3>2. CASE key # "refuse"
      <4>1. Keyed(r.setup.hybrid, r)
        BY <2>3, <2>4, <2>5, <2>6, <3>2 DEF Keyed
      <4> QED BY <1>1, <2>6, <3>2, <4>1 DEF CallOK, Calling, Sending
    <3> QED BY <3>1, <3>2
  <2> QED BY <1>1, <2>2, <2>6, <2>7, OneProcess DEF c
<1> QED BY <1>3, <1>4

\* The first step of a submission that has nothing more to read about its data
\* holds what that step needs; s is where the anchoring begins.
LEMMA AnchorStepOK ==
  ASSUME NEW r \in ProcType, NEW o, NEW q, NEW p \in Procs,
         r.setup = proc[p].setup, r.pc = AnchorStep(p, r.input), r.pc # "throw",
         RulesKept(r), Keyed(r.setup.hybrid, r), r.input.op = "submit",
         r.anchor = r.input.signature, DataTaken(r.setup.hybrid /\ r.setup.rest, r, o)
  PROVE  CallOK(r, o, q)
<1>1. r.pc \in {"fee", "readRollup"}
  BY DEF AnchorStep
<1>2. r.input \in InputType
  BY TxAssumption DEF RulesKept
<1>3. r.input.signature \in {"none", "good", "bad"}
  BY <1>2 DEF InputType
<1>4. CASE r.pc = "fee"
  <2>1. Anchored(r, o)
    BY <1>3, <1>4 DEF AnchorStep, Anchored
  <2>2. Cleared(r.setup.hybrid, r.setup.rest, r, o)
    BY <2>1 DEF Cleared
  <2> QED BY <1>4, <2>2 DEF CallOK, Calling, Sending
<1>5. CASE r.pc = "readRollup"
  <2>1. r.input.signature = "none" /\ r.input.anchor # "off"
    BY <1>5 DEF AnchorStep
  <2> QED BY <1>5, <2>1 DEF CallOK, Calling, Sending
<1> QED BY <1>1, <1>4, <1>5

\* A call begins.
LEMMA BeginKeeps ==
  ASSUME ClientInv, NEW p \in Procs, NEW in \in Inputs, Begin(p, in)
  PROVE  ClientInv'
<1> DEFINE c == proc[p]
           step == IF BrokenRule(p, in) THEN "throw" ELSE FirstStep(p, in)
           to == IF step = "throw" THEN "idle" ELSE step
           how == IF step = "throw" THEN "thrown" ELSE "none"
           kept == IF step = "throw" THEN NoInput ELSE in
           sig == IF step = "throw" \/ in.op # "submit" THEN "none" ELSE in.signature
           r == [c EXCEPT !.n = c.n + 1, !.pc = to, !.outcome = how, !.input = kept,
                          !.anchor = sig]
<1>1. /\ c \in ProcType /\ CallOK(c, rollup, sequence) /\ c.pc = "idle" /\ c.n < MaxCalls
      /\ in \in InputType /\ Off
  BY Holds, TxAssumption DEF Begin
<1>2. proc' = [proc EXCEPT ![p] = r]
  BY <1>1 DEF Begin, ClientInv, TypeOK, ProcType
<1>3. step \in {"throw", "readDa", "readRollup", "features", "fee"}
  BY DEF FirstStep, AnchorStep
<1>4. in.signature \in {"none", "good", "bad"}
  BY <1>1 DEF InputType
<1>5. c.n + 1 \in 0 .. MaxCalls
  BY <1>1, Fields, TxAssumption
<1>6. ~c.raced /\ Keyed(c.setup.hybrid, c)
  BY <1>1 DEF CallOK, Calling, Sending
<1>7. step # "throw" => ~BrokenRule(p, in) /\ step = FirstStep(p, in)
  OBVIOUS
<1> HIDE DEF step
<1>8. /\ r \in ProcType /\ r.pc = (IF step = "throw" THEN "idle" ELSE step) /\ r.n = c.n + 1
      /\ r.setup = c.setup /\ r.key = c.key /\ r.include = c.include /\ r.saw = c.saw
      /\ r.raced = c.raced /\ r.input = (IF step = "throw" THEN NoInput ELSE in)
      /\ r.anchor = (IF step = "throw" \/ in.op # "submit" THEN "none" ELSE in.signature)
  <2>1. /\ to \in Steps /\ how \in Outcomes /\ kept \in InputType \cup {NoInput}
        /\ sig \in {"none", "own", "good", "bad"}
    BY <1>1, <1>3, <1>4 DEF Steps, Outcomes
  <2> HIDE DEF to, how, kept, sig
  <2>2. /\ r \in ProcType /\ r.pc = to /\ r.n = c.n + 1
        /\ r.setup = c.setup /\ r.key = c.key /\ r.include = c.include /\ r.saw = c.saw
        /\ r.raced = c.raced /\ r.input = kept /\ r.anchor = sig
    BY <1>1, <1>5, <2>1 DEF ProcType
  <2> QED BY <2>2 DEF to, kept, sig
<1> HIDE DEF r
<1>9. Keyed(r.setup.hybrid, r)
  BY <1>6, <1>8 DEF Keyed
<1>10. CallOK(r, rollup, sequence)
  <2>1. CASE step = "throw"
    BY <1>6, <1>8, <1>9, <2>1 DEF CallOK, Calling, Sending
  <2>2. CASE step # "throw"
    <3>1. r.input = in /\ r.pc = step /\ step = FirstStep(p, in) /\ ~BrokenRule(p, in)
      BY <1>7, <1>8, <2>2
    <3>2. RulesKept(r)
      BY <1>8, <3>1 DEF RulesKept, BrokenRule
    <3>3. CASE in.op = "submit" /\ in.dataHash /\ CanRead(p)
      <4>1. r.pc = "readDa" /\ r.anchor = in.signature
        BY <1>8, <2>2, <3>1, <3>3 DEF FirstStep
      <4> QED BY <1>6, <1>8, <1>9, <3>1, <3>2, <3>3, <4>1 DEF CallOK, Calling, Sending
    <3>4. CASE in.op = "submit" /\ ~(in.dataHash /\ CanRead(p))
      <4>1. r.pc = AnchorStep(p, in) /\ r.anchor = in.signature
        BY <1>8, <2>2, <3>1, <3>4 DEF FirstStep
      <4>2. DataTaken(r.setup.hybrid /\ r.setup.rest, r, rollup)
        BY <1>8, <3>1, <3>4 DEF DataTaken, CanRead
      <4> QED BY <1>8, <1>9, <2>2, <3>1, <3>2, <3>4, <4>1, <4>2, AnchorStepOK
    <3>5. CASE in.op = "stop" /\ CanRead(p)
      <4>1. r.pc = "features"
        BY <3>1, <3>5 DEF FirstStep
      <4> QED BY <1>6, <1>8, <1>9, <3>1, <3>2, <3>5, <4>1 DEF CallOK, Calling, Sending
    <3>6. CASE in.op # "submit" /\ ~(in.op = "stop" /\ CanRead(p))
      <4>1. r.pc = "fee"
        BY <3>1, <3>6 DEF FirstStep
      <4>2. Cleared(r.setup.hybrid, r.setup.rest, r, rollup)
        BY <1>8, <1>9, <3>1, <3>2, <3>6 DEF Cleared, CanRead
      <4> QED BY <1>9, <3>2, <4>1, <4>2 DEF CallOK, Calling, Sending
    <3> QED BY <3>3, <3>4, <3>5, <3>6
  <2> QED BY <2>1, <2>2
<1>11. r.pc # "wait"
  BY <1>3, <1>8
<1> QED BY <1>1, <1>2, <1>8, <1>10, <1>11, OneProcess DEF c

\* The rollup is read for the rule about data hashes.
LEMMA ReadDaKeeps == ASSUME ClientInv, NEW p \in Procs, ReadDa(p) PROVE ClientInv'
<1> DEFINE c == proc[p]
           step == AnchorStep(p, c.input)
<1>1. /\ c \in ProcType /\ CallOK(c, rollup, sequence) /\ c.pc = "readDa" /\ Off
  BY Holds DEF ReadDa
<1>2. CASE EndWith(p, "thrown")
  BY <1>1, <1>2, Ends DEF Calling, Outcomes
<1>3. CASE ~rollup.native /\ step # "throw" /\ Goto(p, step)
  <2> DEFINE r == [c EXCEPT !.pc = step]
  <2>1. step \in {"fee", "readRollup"}
    BY <1>3 DEF AnchorStep
  <2>s. step \in Steps
    BY <2>1 DEF Steps
  <2> HIDE DEF step
  <2>2. /\ r \in ProcType /\ r.pc = step
        /\ r.setup = c.setup /\ r.key = c.key /\ r.include = c.include /\ r.saw = c.saw
        /\ r.input = c.input /\ r.anchor = c.anchor
    BY <1>1, <2>s, GotoFields
  <2> HIDE DEF r
  <2>3. /\ RulesKept(c) /\ Keyed(c.setup.hybrid, c) /\ c.input.op = "submit"
        /\ c.anchor = c.input.signature
    BY <1>1 DEF CallOK, Calling
  <2>4. RulesKept(r) /\ Keyed(r.setup.hybrid, r)
    BY <2>2, <2>3 DEF RulesKept, Keyed
  <2>5. DataTaken(r.setup.hybrid /\ r.setup.rest, r, rollup)
    BY <1>3 DEF DataTaken
  <2>6. CallOK(r, rollup, sequence)
    BY <1>3, <2>2, <2>3, <2>4, <2>5, AnchorStepOK DEF step
  <2> QED BY <1>1, <1>3, <2>1, <2>6, Goes DEF r, Steps
<1> QED BY <1>2, <1>3 DEF ReadDa

\* The rollup is read for its creator.
LEMMA ReadRollupKeeps == ASSUME ClientInv, NEW p \in Procs, ReadRollup(p) PROVE ClientInv'
<1> DEFINE c == proc[p]
<1>1. /\ c \in ProcType /\ CallOK(c, rollup, sequence) /\ c.pc = "readRollup" /\ Off
  BY Holds DEF ReadRollup
<1>2. /\ RulesKept(c) /\ Keyed(c.setup.hybrid, c) /\ c.input.op = "submit"
      /\ c.anchor = "none" /\ c.input.signature = "none" /\ c.input.anchor # "off"
      /\ DataTaken(c.setup.hybrid /\ c.setup.rest, c, rollup)
  BY <1>1 DEF CallOK, Calling
<1>3. CASE EndWith(p, "thrown")
  BY <1>1, <1>3, Ends DEF Calling, Outcomes
<1>4. CASE c.input.anchor # "require" /\ Goto(p, "fee")
  <2>1. Anchored(c, rollup)
    BY <1>2, <1>4 DEF Anchored
  <2>2. CallOK([c EXCEPT !.pc = "fee"], rollup, sequence)
    BY <1>1, <1>2, <2>1, ToFee DEF Calling
  <2> QED BY <1>1, <1>4, <2>2, Goes DEF Steps
<1>5. CASE rollup.mine /\ Goto(p, "anchorChainId")
  <2> DEFINE r == [c EXCEPT !.pc = "anchorChainId"]
  <2>1. /\ r \in ProcType /\ r.pc = "anchorChainId"
        /\ r.setup = c.setup /\ r.key = c.key /\ r.include = c.include /\ r.saw = c.saw
        /\ r.input = c.input /\ r.anchor = c.anchor
    BY <1>1, GotoFields, ZenonT(40) DEF Steps
  <2> HIDE DEF r
  <2>2. RulesKept(r) /\ Keyed(r.setup.hybrid, r)
        /\ DataTaken(r.setup.hybrid /\ r.setup.rest, r, rollup)
    BY <1>2, <2>1 DEF RulesKept, Keyed, DataTaken
  <2>3. CallOK(r, rollup, sequence)
    BY <1>2, <1>5, <2>1, <2>2 DEF CallOK, Calling, Sending
  <2> QED BY <1>1, <1>5, <2>3, Goes DEF r, Steps
<1> QED BY <1>3, <1>4, <1>5 DEF ReadRollup, Unanchored

\* The creator's anchor is signed for the chain's id.
LEMMA AnchorChainIdKeeps == ASSUME ClientInv, NEW p \in Procs, AnchorChainId(p) PROVE ClientInv'
<1> DEFINE c == proc[p]
<1>1. /\ c \in ProcType /\ CallOK(c, rollup, sequence) /\ c.pc = "anchorChainId" /\ Off
  BY Holds DEF AnchorChainId
<1>2. /\ RulesKept(c) /\ Keyed(c.setup.hybrid, c) /\ c.input.op = "submit"
      /\ c.input.signature = "none" /\ c.input.anchor # "off" /\ rollup.mine
      /\ DataTaken(c.setup.hybrid /\ c.setup.rest, c, rollup)
  BY <1>1 DEF CallOK, Calling
<1>3. CASE EndWith(p, "thrown")
  BY <1>1, <1>3, Ends DEF Calling, Outcomes
<1>4. CASE proc' = [proc EXCEPT ![p].pc = "fee", ![p].anchor = "own"]
  <2> DEFINE r == [c EXCEPT !.pc = "fee", !.anchor = "own"]
  <2>1. proc' = [proc EXCEPT ![p] = r]
    BY <1>1, <1>4 DEF ClientInv, TypeOK, ProcType
  <2>2. /\ r \in ProcType /\ r.pc = "fee" /\ r.anchor = "own" /\ r.n = c.n
        /\ r.setup = c.setup /\ r.key = c.key /\ r.include = c.include /\ r.saw = c.saw
        /\ r.input = c.input
    BY <1>1 DEF ProcType, Steps
  <2> HIDE DEF r
  <2>3. RulesKept(r) /\ Keyed(r.setup.hybrid, r) /\ Anchored(r, rollup)
        /\ DataTaken(r.setup.hybrid /\ r.setup.rest, r, rollup)
    BY <1>2, <2>2 DEF RulesKept, Keyed, DataTaken, Anchored
  <2>4. CallOK(r, rollup, sequence)
    BY <1>2, <2>2, <2>3 DEF CallOK, Cleared, Calling, Sending
  <2> QED BY <1>1, <2>1, <2>2, <2>4, OneProcess
<1> QED BY <1>3, <1>4 DEF AnchorChainId

\* stopRollup asks whether the feature is enabled.
LEMMA FeaturesKeeps == ASSUME ClientInv, NEW p \in Procs, Features(p) PROVE ClientInv'
<1> DEFINE c == proc[p]
           saw == [c.saw EXCEPT !.feature = feature]
           r == [c EXCEPT !.pc = IF feature THEN "latest" ELSE "fee", !.saw = saw]
<1>1. /\ c \in ProcType /\ CallOK(c, rollup, sequence) /\ c.pc = "features" /\ Off
      /\ c.saw \in SawType /\ feature \in BOOLEAN
  BY Holds, Fields DEF Features, ClientInv, TypeOK
<1>2. RulesKept(c) /\ Keyed(c.setup.hybrid, c) /\ c.input.op = "stop"
  BY <1>1 DEF CallOK, Calling
<1>3. CASE EndWith(p, "thrown")
  BY <1>1, <1>3, Ends DEF Calling, Outcomes
<1>4. CASE proc' = [proc EXCEPT ![p].pc = IF feature THEN "latest" ELSE "fee",
                                ![p].saw.feature = feature]
  <2>1. proc' = [proc EXCEPT ![p] = r]
    BY <1>1, <1>4 DEF ClientInv, TypeOK, ProcType
  <2>2. /\ saw \in SawType /\ saw.feature = feature /\ saw.registered = c.saw.registered
        /\ saw.status = c.saw.status
    BY <1>1 DEF SawType
  <2> HIDE DEF saw
  <2>3. /\ r \in ProcType /\ r.pc = (IF feature THEN "latest" ELSE "fee") /\ r.n = c.n
        /\ r.setup = c.setup /\ r.key = c.key /\ r.include = c.include /\ r.saw = saw
        /\ r.input = c.input
    BY <1>1, <2>2 DEF ProcType, Steps
  <2> HIDE DEF r
  <2>4. RulesKept(r) /\ Keyed(r.setup.hybrid, r)
    BY <1>2, <2>2, <2>3 DEF RulesKept, Keyed
  <2>5. CallOK(r, rollup, sequence)
    <3>1. CASE feature
      BY <1>2, <2>3, <2>4, <3>1 DEF CallOK, Calling, Sending
    <3>2. CASE ~feature
      BY <1>2, <2>2, <2>3, <2>4, <3>2 DEF CallOK, Cleared, Calling, Sending
    <3> QED BY <3>1, <3>2
  <2>6. r.pc \notin {"wait", "idle"} /\ c.pc \notin {"wait", "idle"}
    BY <1>1, <2>3
  <2> QED BY <1>1, <2>1, <2>3, <2>5, <2>6, OneProcess
<1> QED BY <1>3, <1>4 DEF Features

\* stopRollup reads the latest batch.
LEMMA LatestKeeps == ASSUME ClientInv, NEW p \in Procs, Latest(p) PROVE ClientInv'
<1> DEFINE c == proc[p]
<1>1. /\ c \in ProcType /\ CallOK(c, rollup, sequence) /\ c.pc = "latest" /\ Off
      /\ c.saw \in SawType /\ latest \in BatchStatus
  BY Holds, Fields DEF Latest, ClientInv, TypeOK
<1>2. RulesKept(c) /\ Keyed(c.setup.hybrid, c) /\ c.input.op = "stop"
  BY <1>1 DEF CallOK, Calling
<1>3. CASE EndWith(p, "thrown")
  BY <1>1, <1>3, Ends DEF Calling, Outcomes
<1>4. ASSUME NEW answer \in {latest, "none"}, ~StopBlocked(answer),
             proc' = [proc EXCEPT ![p].pc = "fee", ![p].saw.latest = answer]
      PROVE  ClientInv'
  <2> DEFINE saw == [c.saw EXCEPT !.latest = answer]
             r == [c EXCEPT !.pc = "fee", !.saw = saw]
  <2>1. proc' = [proc EXCEPT ![p] = r]
    BY <1>1, <1>4 DEF ClientInv, TypeOK, ProcType
  <2>2. /\ saw \in SawType /\ saw.latest = answer /\ saw.registered = c.saw.registered
        /\ saw.status = c.saw.status /\ saw.latest \notin Unsettled
    BY <1>1, <1>4 DEF SawType, BatchStatus, StopBlocked
  <2> HIDE DEF saw
  <2>3. /\ r \in ProcType /\ r.pc = "fee" /\ r.n = c.n
        /\ r.setup = c.setup /\ r.key = c.key /\ r.include = c.include /\ r.saw = saw
        /\ r.input = c.input
    BY <1>1, <2>2 DEF ProcType, Steps
  <2> HIDE DEF r
  <2>4. RulesKept(r) /\ Keyed(r.setup.hybrid, r)
    BY <1>2, <2>2, <2>3 DEF RulesKept, Keyed
  <2>5. CallOK(r, rollup, sequence)
    BY <1>2, <2>2, <2>3, <2>4 DEF CallOK, Cleared, Calling, Sending
  <2> QED BY <1>1, <2>1, <2>3, <2>5, OneProcess
<1> QED BY <1>3, <1>4 DEF Latest

\* The fee is resolved, the sequence read.
LEMMA FeeSequenceKeeps ==
  ASSUME ClientInv, NEW p \in Procs, Fee(p) \/ ReadSequence(p) \/ TimeOut(p)
  PROVE  ClientInv'
<1> DEFINE c == proc[p]
<1>1. /\ c \in ProcType /\ CallOK(c, rollup, sequence) /\ c.pc \in Sending /\ Off
      /\ sequence \in Nat
  BY Holds DEF Fee, ReadSequence, TimeOut, Sending, ClientInv, TypeOK
<1>2. RulesKept(c) /\ Keyed(c.setup.hybrid, c) /\ Cleared(c.setup.hybrid, c.setup.rest, c, rollup)
  BY <1>1 DEF CallOK, Calling
<1>3. CASE EndWith(p, "thrown") \/ EndWith(p, "timeout")
  BY <1>1, <1>3, Ends DEF Calling, Outcomes
<1>4. CASE c.pc = "fee" /\ Goto(p, "sequence")
  <2> DEFINE r == [c EXCEPT !.pc = "sequence"]
  <2>1. /\ r \in ProcType /\ r.pc = "sequence"
        /\ r.setup = c.setup /\ r.key = c.key /\ r.include = c.include /\ r.saw = c.saw
        /\ r.input = c.input /\ r.anchor = c.anchor
    BY <1>1, GotoFields, ZenonT(40) DEF Steps
  <2> HIDE DEF r
  <2>2. /\ RulesKept(r) /\ Keyed(r.setup.hybrid, r)
        /\ Cleared(r.setup.hybrid, r.setup.rest, r, rollup)
    BY <1>2, <2>1 DEF RulesKept, Keyed, Cleared, Anchored, DataTaken
  <2>3. CallOK(r, rollup, sequence)
    BY <2>1, <2>2 DEF CallOK, Calling, Sending
  <2> QED BY <1>1, <1>4, <2>3, Goes DEF r, Steps
<1>5. CASE c.pc = "sequence" /\ proc' = [proc EXCEPT ![p].pc = "broadcast", ![p].sequence = sequence]
  <2> DEFINE r == [c EXCEPT !.pc = "broadcast", !.sequence = sequence]
  <2>1. proc' = [proc EXCEPT ![p] = r]
    BY <1>1, <1>5 DEF ClientInv, TypeOK, ProcType
  <2>2. /\ r \in ProcType /\ r.pc = "broadcast" /\ r.sequence = sequence /\ r.n = c.n
        /\ r.setup = c.setup /\ r.key = c.key /\ r.include = c.include /\ r.saw = c.saw
        /\ r.input = c.input /\ r.anchor = c.anchor
    BY <1>1 DEF ProcType, Steps
  <2> HIDE DEF r
  <2>3. /\ RulesKept(r) /\ Keyed(r.setup.hybrid, r)
        /\ Cleared(r.setup.hybrid, r.setup.rest, r, rollup)
    BY <1>2, <2>2 DEF RulesKept, Keyed, Cleared, Anchored, DataTaken
  <2>4. CallOK(r, rollup, sequence)
    BY <2>2, <2>3 DEF CallOK, Calling, Sending
  <2> QED BY <1>1, <1>5, <2>1, <2>2, <2>4, OneProcess
<1> QED BY <1>3, <1>4, <1>5 DEF Fee, ReadSequence, TimeOut

(***************************************************************************)
(* Transactions.                                                           *)
(***************************************************************************)

\* A transaction is sent: it carries what its call has made sure of.
LEMMA BroadcastKeeps == ASSUME ClientInv, NEW p \in Procs, Broadcast(p) PROVE ClientInv'
<1> DEFINE c == proc[p]
           new == [by |-> p, n |-> c.n, hybrid |-> c.setup.hybrid, rest |-> c.setup.rest,
                   key |-> c.key, include |-> c.include, input |-> c.input,
                   anchor |-> c.anchor, sequence |-> c.sequence, saw |-> c.saw]
           r == [c EXCEPT !.pc = "wait"]
<1>1. c \in ProcType /\ CallOK(c, rollup, sequence) /\ c.pc = "broadcast" /\ UNCHANGED chainVars
  BY Holds DEF Broadcast
<1>2. CASE EndWith(p, "thrown") /\ UNCHANGED mempool
  BY <1>1, <1>2, Ends DEF Calling, Sending, Outcomes, Off
<1>3. CASE mempool' = mempool \cup {new} /\ Goto(p, "wait")
  <2>1. /\ r \in ProcType /\ r.pc = "wait"
        /\ r.setup = c.setup /\ r.key = c.key /\ r.include = c.include /\ r.saw = c.saw
        /\ r.input = c.input /\ r.anchor = c.anchor /\ r.sequence = c.sequence
        /\ r.n = c.n /\ r.raced = c.raced
    BY <1>1, GotoFields DEF Steps
  <2>2. proc' = [proc EXCEPT ![p] = r]
    BY <1>3 DEF Goto
  <2> HIDE DEF r
  <2>3. /\ RulesKept(c) /\ Keyed(c.setup.hybrid, c)
        /\ Cleared(c.setup.hybrid, c.setup.rest, c, rollup) /\ (~c.raced => c.sequence = sequence)
    BY <1>1 DEF CallOK, Calling, Sending
  <2>4. c.input \in InputType /\ c.setup.hybrid \in BOOLEAN /\ c.setup.rest \in BOOLEAN
    BY <1>1, <2>3, Fields, TxAssumption DEF RulesKept, SetupType
  <2>5. new \in TxType
    BY <1>1, <2>4, Fields DEF TxType
  <2>6. Sent(new, r, rollup)
    <3>1. Cleared(new.hybrid, new.rest, new, rollup)
      BY <2>3 DEF Cleared, RulesKept, Keyed, Anchored, DataTaken
    <3>2. new.n = r.n /\ new.sequence = r.sequence /\ r.n \in Nat
      BY <2>1, Fields
    <3> QED BY <2>1, <3>1, <3>2 DEF Sent
  <2>7. new.by = p
    OBVIOUS
  <2> HIDE DEF new
  <2>8. /\ rollup' = rollup /\ status' = status /\ latest' = latest /\ feature' = feature
        /\ registered' = registered /\ sequence' = sequence
    BY <1>1 DEF chainVars
  <2>9. proc' \in [Procs -> ProcType] /\ \A q \in Procs : proc'[q] = IF q = p THEN r ELSE proc[q]
    BY <2>1, <2>2 DEF ClientInv, TypeOK
  <2>10. TypeOK'
    BY <1>3, <2>5, <2>8, <2>9 DEF ClientInv, TypeOK
  <2>11. CallOK(r, rollup, sequence)
    <3>1. /\ RulesKept(r) /\ Keyed(r.setup.hybrid, r)
          /\ Cleared(r.setup.hybrid, r.setup.rest, r, rollup)
      BY <2>1, <2>3 DEF RulesKept, Keyed, Cleared, Anchored, DataTaken
    <3> QED BY <2>1, <2>3, <3>1 DEF CallOK, Calling, Sending
  <2>12. ASSUME NEW q \in Procs PROVE CallOK(proc'[q], rollup', sequence')
    BY <2>8, <2>9, <2>11, Holds
  <2>13. ASSUME NEW tx \in mempool' PROVE Sent(tx, proc'[tx.by], rollup')
    <3>1. CASE tx = new
      BY <2>6, <2>7, <2>8, <2>9, <3>1
    <3>2. CASE tx \in mempool
      <4>1. tx.by \in Procs /\ Sent(tx, proc[tx.by], rollup) /\ tx.n \in Nat
        BY <3>2, Holds DEF TxType
      <4>2. CASE tx.by # p
        BY <2>8, <2>9, <4>1, <4>2
      <4>3. CASE tx.by = p
        <5>1. tx.n # c.n
          BY <1>1, <4>1, <4>3 DEF Sent
        <5> QED BY <2>1, <2>8, <2>9, <4>1, <4>3, <5>1 DEF Sent
      <4> QED BY <4>2, <4>3
    <3> QED BY <1>3, <3>1, <3>2
  <2> QED BY <2>10, <2>12, <2>13 DEF ClientInv
<1> QED BY <1>2, <1>3 DEF Broadcast

\* An answer reaches the call that waits for it, and no other.
LEMMA AnswerKeeps ==
  ASSUME NEW procs \in [Procs -> ProcType], NEW o, NEW s, NEW how \in Outcomes,
         NEW tx, tx.by \in Procs, \A q \in Procs : CallOK(procs[q], o, s)
  PROVE  LET after == Answered(tx, procs, how)
         IN  /\ after \in [Procs -> ProcType]
             /\ \A q \in Procs : CallOK(after[q], o, s)
             /\ \A t : t.by \in Procs /\ Sent(t, procs[t.by], o) => Sent(t, after[t.by], o)
<1> DEFINE after == Answered(tx, procs, how)
           c == procs[tx.by]
           r == Ended(c, how)
<1>1. CASE ~(c.pc = "wait" /\ c.n = tx.n)
  <2>1. after = procs
    BY <1>1 DEF Answered
  <2> HIDE DEF after
  <2> QED BY <2>1 DEF after
<1>2. CASE c.pc = "wait" /\ c.n = tx.n
  <2>1. after = [procs EXCEPT ![tx.by] = r]
    BY <1>2 DEF Answered
  <2>2. c \in ProcType /\ CallOK(c, o, s)
    OBVIOUS
  <2>3. /\ r \in ProcType /\ r.pc = "idle" /\ r.raced = FALSE /\ r.n = c.n
        /\ r.setup = c.setup /\ r.key = c.key /\ r.include = c.include
        /\ r.saw.registered = c.saw.registered
    BY <2>2, EndedFields
  <2> HIDE DEF r
  <2>4. CallOK(r, o, s)
    <3>1. Keyed(c.setup.hybrid, c)
      BY <1>2, <2>2 DEF CallOK, Calling, Sending
    <3> QED BY <2>3, <3>1 DEF CallOK, Keyed, Calling, Sending
  <2>5. /\ after \in [Procs -> ProcType]
        /\ \A q \in Procs : after[q] = IF q = tx.by THEN r ELSE procs[q]
    BY <2>1, <2>3
  <2> HIDE DEF after
  <2>6. ASSUME NEW t, t.by \in Procs, Sent(t, procs[t.by], o) PROVE Sent(t, after[t.by], o)
    <3>1. CASE t.by # tx.by
      BY <2>5, <2>6, <3>1
    <3>2. CASE t.by = tx.by
      BY <1>2, <2>3, <2>5, <2>6, <3>2 DEF Sent
    <3> QED BY <3>1, <3>2
  <2> QED BY <2>4, <2>5, <2>6 DEF after
<1> QED BY <1>1, <1>2

\* A transaction is refused before it is executed.
LEMMA BounceKeeps == ASSUME ClientInv, NEW tx \in mempool, Bounce(tx) PROVE ClientInv'
<1> DEFINE after == Answered(tx, proc, "refused")
<1>1. /\ rollup' = rollup /\ status' = status /\ latest' = latest /\ feature' = feature
      /\ registered' = registered /\ sequence' = sequence /\ mempool' = mempool \ {tx}
      /\ proc' = after
  BY DEF Bounce, chainVars
<1>2. /\ proc \in [Procs -> ProcType] /\ tx.by \in Procs
      /\ \A q \in Procs : CallOK(proc[q], rollup, sequence)
  BY Holds DEF ClientInv, TypeOK
<1>3. "refused" \in Outcomes
  BY DEF Outcomes
<1>4. /\ after \in [Procs -> ProcType]
      /\ \A q \in Procs : CallOK(after[q], rollup, sequence)
      /\ \A t : t.by \in Procs /\ Sent(t, proc[t.by], rollup) => Sent(t, after[t.by], rollup)
  BY <1>2, <1>3, AnswerKeeps
<1> HIDE DEF after
<1>5. TypeOK'
  BY <1>1, <1>4 DEF ClientInv, TypeOK
<1>6. \A t \in mempool' : Sent(t, proc'[t.by], rollup')
  BY <1>1, <1>4, Holds
<1> QED BY <1>1, <1>4, <1>5, <1>6 DEF ClientInv

\* Every call under way knows that it has been overtaken, so the next sequence is
\* held against none.
LEMMA OvertakenOK ==
  ASSUME ClientInv
  PROVE  /\ Overtaken \in [Procs -> ProcType]
         /\ \A q \in Procs : \A s : CallOK(Overtaken[q], rollup, s)
         /\ \A t : t.by \in Procs /\ Sent(t, proc[t.by], rollup) => Sent(t, Overtaken[t.by], rollup)
<1> DEFINE raced(q) == proc[q].raced \/ UnderWay(q)
           r(q) == [proc[q] EXCEPT !.raced = raced(q)]
<1>1. ASSUME NEW q \in Procs
      PROVE  /\ r(q) \in ProcType /\ (r(q).raced <=> raced(q)) /\ r(q).pc = proc[q].pc
             /\ r(q).setup = proc[q].setup /\ r(q).key = proc[q].key
             /\ r(q).include = proc[q].include /\ r(q).saw = proc[q].saw
             /\ r(q).input = proc[q].input /\ r(q).anchor = proc[q].anchor
             /\ r(q).sequence = proc[q].sequence /\ r(q).n = proc[q].n
  <2>1. proc[q] \in ProcType /\ raced(q) \in BOOLEAN
    BY Holds
  <2> HIDE DEF raced
  <2> QED BY <2>1 DEF ProcType
<1>2. Overtaken = [q \in Procs |-> r(q)]
  BY DEF Overtaken
<1> HIDE DEF r
<1>3. ASSUME NEW q \in Procs, NEW s PROVE CallOK(r(q), rollup, s)
  <2> DEFINE c == proc[q]
             d == r(q)
  <2>1. CallOK(c, rollup, sequence) /\ c.pc \in Steps
    BY Holds, Fields
  <2>2. /\ d.pc = c.pc /\ d.setup = c.setup /\ d.key = c.key /\ d.include = c.include
        /\ d.saw = c.saw /\ d.input = c.input /\ d.anchor = c.anchor
        /\ (d.raced <=> c.raced \/ c.pc \notin {"readStatus", "connect", "idle", "dead"})
    BY <1>1 DEF UnderWay
  <2> HIDE DEF c, d
  <2>3. /\ d.pc \in Calling => RulesKept(d)
        /\ d.pc \in Calling \cup {"idle"} => Keyed(d.setup.hybrid, d)
        /\ d.pc \in Sending => Cleared(d.setup.hybrid, d.setup.rest, d, rollup)
    BY <2>1, <2>2 DEF CallOK, RulesKept, Keyed, Cleared, Anchored, DataTaken
  <2>4. /\ d.pc \notin Calling => ~d.raced
        /\ d.pc \in {"broadcast", "wait"} => d.raced
    BY <2>1, <2>2 DEF CallOK, Calling, Sending, Steps
  <2>5. CallOK(d, rollup, s)
    BY <2>1, <2>2, <2>3, <2>4 DEF CallOK, DataTaken
  <2> QED BY <2>5 DEF d
<1>4. ASSUME NEW t, t.by \in Procs, Sent(t, proc[t.by], rollup) PROVE Sent(t, r(t.by), rollup)
  BY <1>1, <1>4 DEF Sent
<1> QED BY <1>1, <1>2, <1>3, <1>4

\* A transaction is executed.
LEMMA ExecuteKeeps == ASSUME ClientInv, NEW tx \in mempool, Execute(tx) PROVE ClientInv'
<1>1. PICK how \in Outcomes : proc' = Answered(tx, Overtaken, how)
  BY DEF Execute, Outcomes
<1> DEFINE after == Answered(tx, Overtaken, how)
<1>2. /\ rollup' = rollup /\ feature' = feature /\ registered' = tx.key
      /\ sequence' = sequence + 1 /\ mempool' = mempool \ {tx}
  BY DEF Execute
<1>3. tx \in TxType /\ tx.by \in Procs
  BY Holds
<1>4. status' \in RollupStatus /\ latest' \in BatchStatus
  <2>1. status \in RollupStatus /\ latest \in BatchStatus
    BY DEF ClientInv, TypeOK
  <2>2. StatusAfter(tx.input.op) \in RollupStatus
    BY <2>1 DEF StatusAfter, RollupStatus
  <2>3. LatestAfter(tx.input.op) \subseteq BatchStatus
    BY <2>1 DEF LatestAfter, BatchStatus
  <2> QED BY <2>1, <2>2, <2>3 DEF Execute
<1>5. /\ after \in [Procs -> ProcType]
      /\ \A q \in Procs : CallOK(after[q], rollup, sequence + 1)
      /\ \A t : t.by \in Procs /\ Sent(t, Overtaken[t.by], rollup) => Sent(t, after[t.by], rollup)
  BY <1>3, OvertakenOK, AnswerKeeps
<1> HIDE DEF after
<1>6. TypeOK'
  <2>1. registered' \in Keys \cup {"none"}
    BY <1>2, <1>3 DEF TxType
  <2> QED BY <1>1, <1>2, <1>4, <1>5, <2>1 DEF ClientInv, TypeOK, after
<1>7. \A t \in mempool' : Sent(t, proc'[t.by], rollup')
  BY <1>1, <1>2, <1>5, Holds, OvertakenOK DEF after
<1>8. \A q \in Procs : CallOK(proc'[q], rollup', sequence')
  BY <1>1, <1>2, <1>5 DEF after
<1> QED BY <1>6, <1>7, <1>8 DEF ClientInv

(***************************************************************************)
(* Every behaviour.                                                        *)
(***************************************************************************)

\* Before a process connects there is nothing to make sure of.
LEMMA ClientInit == Init => ClientInv
<1> SUFFICES ASSUME Init PROVE ClientInv
  OBVIOUS
<1>1. PICK s \in [Procs -> Setups] :
        proc = [p \in Procs |->
                  [pc |-> "readStatus", setup |-> s[p], key |-> "none",
                   include |-> FALSE, saw |-> NothingSeen, input |-> NoInput,
                   anchor |-> "none", sequence |-> 0, n |-> 0, raced |-> FALSE,
                   outcome |-> "none"]]
  BY DEF Init
<1>2. NothingSeen \in SawType
  BY DEF NothingSeen, SawType, Unread
<1>3. "readStatus" \in Steps /\ "none" \in Outcomes /\ 0 \in 0 .. MaxCalls /\ FALSE \in BOOLEAN
  BY TxAssumption DEF Steps, Outcomes
<1>4. ASSUME NEW p \in Procs
      PROVE  proc[p] \in ProcType /\ proc[p].pc = "readStatus" /\ ~proc[p].raced
  <2>1. s[p] \in SetupType
    BY TxAssumption
  <2>2. proc[p] = [pc |-> "readStatus", setup |-> s[p], key |-> "none",
                   include |-> FALSE, saw |-> NothingSeen, input |-> NoInput,
                   anchor |-> "none", sequence |-> 0, n |-> 0, raced |-> FALSE,
                   outcome |-> "none"]
    BY <1>1
  <2>3. proc[p] \in ProcType
    BY <1>2, <1>3, <2>1, <2>2 DEF ProcType
  <2> QED BY <2>2, <2>3
<1>5. proc \in [Procs -> ProcType]
  BY <1>1, <1>4
<1>6. TypeOK
  BY <1>5, TxAssumption DEF Init, TypeOK, RollupStatus, BatchStatus
<1>7. \A p \in Procs : CallOK(proc[p], rollup, sequence)
  BY <1>4 DEF CallOK, Calling, Sending
<1> QED BY <1>6, <1>7 DEF Init, ClientInv

\* Every step of a process and of the chain keeps the invariant.
LEMMA ClientStep == ClientInv /\ [Next]_vars => ClientInv'
<1>1. ASSUME ClientInv, NEW p \in Procs, ProcStep(p) PROVE ClientInv'
  BY <1>1, ReadStatusKeeps, ConnectKeeps, BeginKeeps, ReadDaKeeps, ReadRollupKeeps,
     AnchorChainIdKeeps, FeaturesKeeps, LatestKeeps, FeeSequenceKeeps, BroadcastKeeps, Zenon
  DEF ProcStep
<1>2. ASSUME ClientInv, ChainMoves PROVE ClientInv'
  <2>1. UNCHANGED <<rollup, status, sequence, mempool, proc>>
    BY <1>2 DEF ChainMoves
  <2>2. latest' \in BatchStatus /\ feature' \in BOOLEAN /\ registered' \in Keys \cup {"none"}
    BY <1>2 DEF ChainMoves, ClientInv, TypeOK, BatchStatus
  <2> QED BY <1>2, <2>1, <2>2 DEF ClientInv, TypeOK
<1>3. ASSUME ClientInv, UNCHANGED vars PROVE ClientInv'
  BY <1>3 DEF ClientInv, TypeOK, vars, chainVars
<1> QED BY <1>1, <1>2, <1>3, BounceKeeps, ExecuteKeeps, Zenon DEF Next

\* What a call holds and what a transaction carries has been checked as far as
\* the call has come, in every behaviour.
THEOREM ClientInvariant == Spec => []ClientInv
  BY ClientInit, ClientStep, PTL DEF Spec

\* Type correctness of the transaction client, in every behaviour.
THEOREM ClientTyped == Spec => []TypeOK
<1>1. ClientInv => TypeOK
  BY DEF ClientInv
<1> QED BY <1>1, ClientInvariant, PTL

\* A sequence the chain refuses was overtaken: getSequence is asked in every call,
\* and no call sends the sequence of an earlier one.
THEOREM SequencesFresh == Spec => []SequenceRefusedOnlyIfOvertaken
<1>1. ClientInv => SequenceRefusedOnlyIfOvertaken
  <2> SUFFICES ASSUME ClientInv, NEW tx \in mempool, tx.sequence # sequence,
                      proc[tx.by].pc = "wait", proc[tx.by].n = tx.n
               PROVE  proc[tx.by].raced
    BY DEF SequenceRefusedOnlyIfOvertaken
  <2>1. CallOK(proc[tx.by], rollup, sequence) /\ Sent(tx, proc[tx.by], rollup)
    BY Holds
  <2> QED BY <2>1 DEF CallOK, Sent
<1> QED BY <1>1, ClientInvariant, PTL

\* An anchor goes with its mode: "require" never submits without, "off" never
\* signs, and a signature of the caller's is sent as given.
THEOREM AnchorsKept == Spec => []AnchorModesKept
<1>1. ClientInv => AnchorModesKept
  <2> SUFFICES ASSUME ClientInv, NEW tx \in mempool, tx.input.op = "submit"
               PROVE  /\ tx.input.anchor = "require" => tx.anchor # "none"
                      /\ tx.input.anchor = "off" => tx.anchor # "own"
                      /\ tx.input.signature # "none" => tx.anchor = tx.input.signature
    BY DEF AnchorModesKept
  <2>1. Sent(tx, proc[tx.by], rollup)
    BY Holds
  <2> QED BY <2>1 DEF Sent, Cleared, Anchored
<1> QED BY <1>1, ClientInvariant, PTL

\* Signatures are refused only if the registered key changed since the process
\* connected.
THEOREM KeysExcused == Spec => KeyRefusalsExcused
<1> DEFINE Excuse == \A tx \in mempool \ mempool' :
                       tx.hybrid /\ ~KeyAccepted(tx) => tx.saw.registered # registered
<1>1. ClientInv => Excuse
  <2> SUFFICES ASSUME ClientInv, NEW tx \in mempool, tx.hybrid, tx.saw.registered = registered
               PROVE  KeyAccepted(tx)
    OBVIOUS
  <2>1. Keyed(tx.hybrid, tx)
    BY Holds DEF Sent, Cleared
  <2> QED BY <2>1 DEF Keyed, KeyAccepted
<1> QED BY <1>1, ClientInvariant, PTL DEF KeyRefusalsExcused

\* "a transaction the chain would refuse is caught before a fee is paid": what
\* the chain executes and refuses, for a reason the client checks, was checked
\* against an answer that is no longer true, or that could not be read.
THEOREM RefusalsExcused == Spec => PaidRefusalsExcused
<1> DEFINE Paid == \A tx \in mempool \ mempool' :
                     sequence' # sequence => \A why \in Refusals(tx) : Excused(tx, why)
<1>1. ASSUME ClientInv, [Next]_vars, NEW tx \in mempool, tx \notin mempool', sequence' # sequence
      PROVE  tx.hybrid
  <2>1. PICK t \in mempool : Execute(t)
    <3>1. ASSUME NEW p \in Procs, ProcStep(p) PROVE sequence' = sequence
      BY <3>1
      DEF ProcStep, ReadStatus, Connect, Begin, ReadDa, ReadRollup, AnchorChainId, Features,
          Latest, Fee, ReadSequence, Broadcast, TimeOut, Off, chainVars
    <3>2. ASSUME NEW b \in mempool, Bounce(b) PROVE sequence' = sequence
      BY <3>2 DEF Bounce, chainVars
    <3>3. ChainMoves \/ UNCHANGED vars => sequence' = sequence
      BY DEF ChainMoves, vars, chainVars
    <3> QED BY <1>1, <3>1, <3>2, <3>3, Zenon DEF Next
  <2>2. mempool' = mempool \ {t} /\ KeyAccepted(t)
    BY <2>1 DEF Execute
  <2>3. t = tx
    BY <1>1, <2>2
  <2> QED BY <2>2, <2>3 DEF KeyAccepted
<1>2. ASSUME ClientInv, NEW tx \in mempool, tx.hybrid, NEW why \in Refusals(tx)
      PROVE  Excused(tx, why)
  <2>1. Cleared(tx.hybrid, tx.rest, tx, rollup) /\ tx \in TxType
    BY <1>2, Holds DEF Sent
  <2>2. why \in Reasons /\ Refused(tx, why)
    BY <1>2 DEF Refusals
  <2>3. RulesKept(tx) /\ tx.input \in Inputs
    BY <2>1 DEF Cleared, RulesKept
  <2>4. tx.input.valid
    BY <2>3, TxAssumption DEF RulesKept
  <2>5. CASE why = "invalid"
    BY <2>2, <2>4, <2>5 DEF Refused
  <2>6. CASE why = "data"
    <3>1. tx.input.op = "submit" /\ tx.input.dataHash /\ rollup.native
      BY <2>2, <2>6 DEF Refused
    <3>2. ~tx.rest
      BY <1>2, <2>1, <3>1 DEF Cleared, DataTaken
    <3> QED BY <2>6, <3>2 DEF Excused
  <2>7. CASE why = "anchor"
    <3>1. tx.input.op = "submit" /\ (tx.anchor = "bad" \/ (tx.anchor = "own" /\ ~rollup.mine))
      BY <2>2, <2>7 DEF Refused
    <3>2. tx.anchor # "own"
      BY <2>1, <3>1 DEF Cleared, Anchored
    <3> QED BY <2>7, <3>2 DEF Excused
  <2>8. CASE why = "status"
    <3>1. tx.input.op \in Lifecycle /\ status \notin ActionFrom(tx.input.op)
      BY <2>2, <2>8 DEF Refused
    <3>2. ~tx.input.passStatus \/ tx.saw.status # status
      BY <2>3, <3>1 DEF RulesKept
    <3> QED BY <2>8, <3>2 DEF Excused
  <2>9. CASE why = "latest"
    <3>1. tx.input.op = "stop" /\ feature /\ latest \in Unsettled
      BY <2>2, <2>9 DEF Refused
    <3>2. ~tx.rest \/ ~tx.saw.feature \/ tx.saw.latest \notin Unsettled
      BY <1>2, <2>1, <3>1 DEF Cleared
    <3>3. ~tx.rest \/ tx.saw.feature # feature \/ tx.saw.latest # latest
      BY <3>1, <3>2
    <3> QED BY <2>9, <3>3 DEF Excused
  <2>10. CASE why \in {"creator", "exists", "halted", "batch"}
    BY <2>10 DEF Excused
  <2> QED BY <2>2, <2>5, <2>6, <2>7, <2>8, <2>9, <2>10 DEF Reasons
<1>3. ClientInv /\ [Next]_vars => [Paid]_vars
  BY <1>1, <1>2
<1> QED BY <1>3, ClientInvariant, PTL DEF Spec, PaidRefusalsExcused

===============================================================================
