-------------------------------- MODULE CrossVm --------------------------------
(***************************************************************************)
(* A call from an EVM context to a Native contract: the check that the     *)
(* target can be reached, the calldata, and the reading of what comes      *)
(* back, while governance switches the precompile, the bridge and the      *)
(* allowlist.  Bytes are numbers below Base and a word has Word of them    *)
(* (256 and 32 in the code); a selector is one byte.                       *)
(***************************************************************************)
EXTENDS Integers, SequencesExt

CONSTANTS
  Base,        \* values of a byte
  Word,        \* bytes of an ABI word
  Contracts,   \* Native contracts, by the bytes of their address
  Payloads,    \* execute messages, replies and reasons
  MaxMessageSize, \* cross-VM parameter max_message_size
  MaxChanges   \* bound: governance changes

ASSUME CrossVmAssumption ==
  /\ Base \in Nat /\ Base > 1 /\ Word \in Nat /\ Word > 1
  /\ MaxMessageSize \in Nat /\ MaxChanges \in Nat

(***************************************************************************)
(* ABI words.                                                              *)
(***************************************************************************)
Byte == 0 .. Base - 1

\* A number after k bytes are shifted out of it.
Shifted(value) ==
  LET v[k \in 0 .. Word] == IF k = 0 THEN value ELSE v[k - 1] \div Base
  IN v

u256be(value) == [i \in 1 .. Word |-> Shifted(value)[Word - i] % Base]

\* A number whose bytes are all in its word.
Fits(value) == Shifted(value)[Word] = 0

padRight32(data) ==
  [i \in 1 .. Word * ((Len(data) + Word - 1) \div Word) |->
     IF i <= Len(data) THEN data[i] ELSE 0]

\* The number after i bytes of the word at a position counted from 0.
Shifting(b, at) ==
  LET v[i \in 0 .. Word] == IF i = 0 THEN 0 ELSE v[i - 1] * Base + b[at + i]
  IN v

readWord(b, at) == Shifting(b, at)[Word]

\* Mutant: the static words before the offsets are not counted.
DynamicTupleHeadless(items, headWords) ==
  LET chunks == [i \in DOMAIN items |-> u256be(Len(items[i])) \o padRight32(items[i])]
      offset(i) == Len(items) * Word + Len(FlattenSeq(SubSeq(chunks, 1, i - 1)))
  IN FlattenSeq([i \in DOMAIN items |-> u256be(offset(i))]) \o FlattenSeq(chunks)

\* Offsets, past headWords words of static arguments, then the items: length
\* and padded data.
encodeDynamicTuple(items, headWords) ==
  LET chunks == [i \in DOMAIN items |-> u256be(Len(items[i])) \o padRight32(items[i])]
      offset(i) == (headWords + Len(items)) * Word + Len(FlattenSeq(SubSeq(chunks, 1, i - 1)))
  IN FlattenSeq([i \in DOMAIN items |-> u256be(offset(i))]) \o FlattenSeq(chunks)

CallSelector == 1
ErrorSelector == 0

EVM == 0
NATIVE == 1
SVM == 2       \* a lane the precompile does not accept

Supported(targetVm) == targetVm \in {EVM, NATIVE}

\* For a supported target: for another it throws (MakeCall).
encodeCrossVmCalldata(call) ==
  <<CallSelector>> \o u256be(call.targetVm)
    \o encodeDynamicTuple(<<call.contract, call.msg>>, 1)

\* The arguments of a call are no longer than the number a word holds (2^256).
ASSUME SizeAssumption ==
  /\ Contracts \subseteq Seq(Byte) /\ Payloads \subseteq Seq(Byte)
  /\ \A c \in Contracts, p \in Payloads :
       Fits(5 * Word + Len(padRight32(c)) + Len(padRight32(p)))

\* What data there is at an offset, or the error for data that is too short.
Slice(b, offset) ==
  IF offset + Word > Len(b) THEN [error |-> TRUE, data |-> <<>>]
  ELSE LET len == readWord(b, offset) IN
       IF offset + Word + len > Len(b) THEN [error |-> TRUE, data |-> <<>>]
       ELSE [error |-> FALSE, data |-> SubSeq(b, offset + Word + 1, offset + Word + len)]

\* Mutant: empty data is an empty reply.
ResultOfAny(b) ==
  IF Len(b) < 2 * Word THEN [error |-> FALSE, data |-> b] ELSE Slice(b, readWord(b, 0))

decodeCrossVmResult(b) ==
  IF Len(b) < 2 * Word THEN [error |-> TRUE, data |-> <<>>] ELSE Slice(b, readWord(b, 0))

decodeRevertReason(b) ==
  IF Len(b) < 1 + 2 * Word \/ b[1] # ErrorSelector THEN [error |-> TRUE, data |-> <<>>]
  ELSE LET body == Tail(b) IN Slice(body, readWord(body, 0))

(***************************************************************************)
(* The precompile, as the code describes it.                               *)
(***************************************************************************)
VARIABLES
  active,     \* the precompile is in active_static_precompiles
  enabled,    \* cross-VM parameter enabled
  allowed,    \* bridge_allowed_targets
  abi,        \* crossvm-bridge-abi applied (v3.2.5): the parameters are served
  changes,    \* governance changes so far
  xPc,        \* client: "precompile", "params", "call", "sent", "returned", "done"
  call,       \* the call the client is about to make
  ready,      \* what crossVmTargetReady answered
  calldata,
  ret,        \* what the EVM gave back: success and data
  ran,        \* history: the contract that was reached, if one was, and its answer
  outcome,    \* what the client makes of it
  settled     \* history: no governance change since the check began

gateVars == <<active, enabled, allowed, abi, changes>>
xVars == <<xPc, call, ready, calldata, ret, ran, outcome, settled>>
crossVmVars == <<gateVars, xVars>>

Calls == [contract : Contracts, msg : Payloads, targetVm : {EVM, NATIVE, SVM}]
NoReturn == [success |-> FALSE, data |-> <<>>]

\* The chain's own reading of the calldata.
Target(data) ==
  LET args == Tail(data) IN
  [targetVm |-> readWord(args, 0),
   contract |-> Slice(args, readWord(args, Word)).data,
   msg |-> Slice(args, readWord(args, 2 * Word)).data]

Reverted(reason) ==
  [success |-> FALSE, data |-> <<ErrorSelector>> \o encodeDynamicTuple(<<reason>>, 0)]
Returned(reply) == [success |-> TRUE, data |-> encodeDynamicTuple(<<reply>>, 0)]

Govern ==
  /\ changes < MaxChanges /\ changes' = changes + 1
  /\ \/ active' = ~active /\ UNCHANGED <<enabled, allowed, abi>>
     \/ enabled' = ~enabled /\ UNCHANGED <<active, allowed, abi>>
     \/ \E c \in Contracts :
          allowed' = (IF c \in allowed THEN allowed \ {c} ELSE allowed \cup {c})
            /\ UNCHANGED <<active, enabled, abi>>
     \/ ~abi /\ abi' = TRUE /\ UNCHANGED <<active, enabled, allowed>>
  /\ settled' = FALSE
  /\ UNCHANGED <<xPc, call, ready, calldata, ret, ran, outcome>>

\* No code at the address: the call succeeds with no data.  Active: the lane,
\* the bridge, the allowlist and the size of the message are checked, then the
\* contract runs: its reply comes back ABI-encoded, or its error as a revert.
\* Calls are sent from v3.2.5 on only, where the check can pass.
Execute(answer, ok) ==
  /\ xPc = "sent" /\ xPc' = "returned"
  /\ LET t == Target(calldata)
         accepted == /\ t.targetVm = NATIVE /\ enabled /\ t.contract \in allowed
                     /\ Len(t.msg) <= MaxMessageSize
     IN \/ ~active /\ ret' = [success |-> TRUE, data |-> <<>>] /\ UNCHANGED ran
        \/ active /\ ~accepted /\ ret' = Reverted(answer) /\ UNCHANGED ran
        \/ /\ active /\ accepted
           /\ ran' = <<[contract |-> t.contract, msg |-> t.msg, ok |-> ok, answer |-> answer]>>
           /\ ret' = IF ok THEN Returned(answer) ELSE Reverted(answer)
  /\ UNCHANGED <<gateVars, call, ready, calldata, outcome, settled>>

(***************************************************************************)
(* The client.                                                             *)
(***************************************************************************)
CrossVmInit ==
  /\ active \in BOOLEAN /\ enabled \in BOOLEAN /\ allowed \in SUBSET Contracts
  /\ abi \in BOOLEAN /\ changes = 0
  /\ xPc = "precompile" /\ ready = FALSE /\ calldata = <<>> /\ ret = NoReturn /\ ran = <<>>
  /\ call \in Calls
  /\ outcome = [kind |-> "none", data |-> <<>>] /\ settled = TRUE

NotReady == xPc' = "done" /\ ready' = FALSE

\* isCrossVmPrecompileActive: an answer that is not ok reads as not active; a
\* failed request is raised, with no answer.
ReadPrecompile ==
  /\ xPc = "precompile"
  /\ \/ active /\ xPc' = "params" /\ UNCHANGED ready
     \/ NotReady
  /\ UNCHANGED <<gateVars, call, calldata, ret, ran, outcome, settled>>

\* getCrossVmParams: not served before v3.2.5, and every error is "not ready".
ReadCrossVmParams ==
  /\ xPc = "params"
  /\ \/ abi /\ enabled /\ call.contract \in allowed /\ xPc' = "call" /\ ready' = TRUE
     \/ NotReady
  /\ UNCHANGED <<gateVars, call, calldata, ret, ran, outcome, settled>>

\* The caller acts on the answer: the check does not look at the lane, which
\* the encoder throws for when the precompile does not accept it.
MakeCall ==
  /\ xPc = "call"
  /\ \/ /\ Supported(call.targetVm) /\ xPc' = "sent"
        /\ calldata' = encodeCrossVmCalldata(call) /\ UNCHANGED outcome
     \/ /\ ~Supported(call.targetVm) /\ xPc' = "done"
        /\ outcome' = [kind |-> "unsupported", data |-> <<>>] /\ UNCHANGED calldata
  /\ UNCHANGED <<gateVars, call, ready, ret, ran, settled>>

ReadReturn ==
  /\ xPc = "returned" /\ xPc' = "done"
  /\ outcome' = LET r == IF ret.success THEN decodeCrossVmResult(ret.data)
                                        ELSE decodeRevertReason(ret.data)
                IN [kind |-> IF r.error THEN "unreadable"
                             ELSE IF ret.success THEN "reply" ELSE "reverted",
                    data |-> r.data]
  /\ UNCHANGED <<gateVars, call, ready, calldata, ret, ran, settled>>

CrossVmNext ==
  \/ Govern \/ ReadPrecompile \/ ReadCrossVmParams \/ MakeCall
  \/ \E answer \in Payloads, ok \in BOOLEAN : Execute(answer, ok)
  \/ ReadReturn

CrossVmSpec == CrossVmInit /\ [][CrossVmNext]_crossVmVars

(***************************************************************************)
(* Properties.                                                             *)
(***************************************************************************)

\* The contract the client meant was reached with the message it meant.
Reached(ok, answer) ==
  ran = <<[contract |-> call.contract, msg |-> call.msg, ok |-> ok, answer |-> answer]>>

\* A call that reached nothing, or whose contract failed, is never taken for
\* one that succeeded: what the client reads as a reply is the reply of the
\* contract it called, run with the message it sent, an empty reply included,
\* whatever governance did after the check.
ReplyMeansCalled == outcome.kind = "reply" => Reached(TRUE, outcome.data)

\* "Whether a call ... would reach it": after a check that said so and with no
\* governance change since, a call to the Native lane whose message the size
\* limit admits reaches its contract, and the client reads what the contract
\* answered: its reply, or the reason it gave for failing.
ReadyCallsReach ==
  /\ xPc = "done" /\ ready /\ settled
  /\ call.targetVm = NATIVE /\ Len(call.msg) <= MaxMessageSize
  => \E ok \in BOOLEAN :
       Reached(ok, outcome.data) /\ outcome.kind = IF ok THEN "reply" ELSE "reverted"

(***************************************************************************)
(* The inductive invariant behind both.                                    *)
(***************************************************************************)

\* What the check found, as long as governance leaves it alone.
CheckInv ==
  /\ call \in Calls
  /\ xPc \in {"precompile", "params"} => ~ready
  /\ xPc \in {"params", "call", "sent"} /\ settled => active
  /\ xPc \in {"call", "sent"} /\ settled => enabled /\ call.contract \in allowed
  /\ xPc = "sent" => Supported(call.targetVm) /\ calldata = encodeCrossVmCalldata(call)

\* What came back: nothing, a refusal, or what the contract called answered.
ReturnInv ==
  xPc = "returned" =>
    \/ ret = [success |-> TRUE, data |-> <<>>] /\ ~settled
    \/ /\ ~ret.success
       /\ ~(settled /\ call.targetVm = NATIVE /\ Len(call.msg) <= MaxMessageSize)
    \/ \E answer \in Payloads : ret = Returned(answer) /\ Reached(TRUE, answer)
    \/ \E answer \in Payloads : ret = Reverted(answer) /\ Reached(FALSE, answer)

CrossVmInv ==
  /\ CheckInv /\ ReturnInv /\ ReplyMeansCalled /\ ReadyCallsReach
  /\ xPc # "done" => outcome.kind = "none"

=============================================================================
