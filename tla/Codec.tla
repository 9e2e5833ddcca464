--------------------------------- MODULE Codec ---------------------------------
(***************************************************************************)
(* A transaction message on its way to the chain: the builders of          *)
(* tx/messages.ts, the registry, and the protobuf codecs of tx/codecs.ts.  *)
(* A codec is a pair of tables: what encode writes, in order, and what     *)
(* decode does with each field number.  Strings and byte strings are       *)
(* opaque and "" is the empty one; integers keep their width, and MaxInt   *)
(* is the largest signed one (2^63 - 1 in the code).  The wire is a        *)
(* sequence of fields, a tag and a payload each.  A peer of another        *)
(* release may put fields in between that this release does not know.      *)
(***************************************************************************)
EXTENDS Integers, SequencesExt

CONSTANTS
  MaxInt,        \* the largest signed integer
  Ints,          \* signed
  Uints,         \* and unsigned integers that are sent
  Texts,         \* strings and byte strings that are sent, beside a field's own
  MaxSiblings,   \* bound: elements of a repeated field
  Absent         \* an optional input left out

Modulus == 2 * (MaxInt + 1)

ASSUME CodecAssumption ==
  /\ MaxInt \in Nat /\ MaxSiblings \in Nat
  /\ Ints \subseteq -(MaxInt + 1) .. MaxInt /\ Uints \subseteq 0 .. Modulus - 1

(***************************************************************************)
(* The codecs: <<name, tag, kind>> to encode, <<name, kind>> of field n    *)
(* at n to decode.                                                         *)
(***************************************************************************)
MsgCreateRollup ==
  [encode |-> <<<<"creator", 10, "string">>, <<"rollupId", 18, "string">>,
                <<"profile", 26, "string">>, <<"vmType", 34, "string">>,
                <<"stakeAmount", 40, "int64">>>>,
   decode |-> <<<<"creator", "string">>, <<"rollupId", "string">>, <<"profile", "string">>,
                <<"vmType", "string">>, <<"stakeAmount", "int64">>>>]

MsgCreateRollupResponse ==
  [encode |-> <<<<"rollupId", 10, "string">>>>, decode |-> <<<<"rollupId", "string">>>>]

MsgSubmitBatch ==
  [encode |-> <<<<"sequencer", 10, "string">>, <<"rollupId", 18, "string">>,
                <<"batchIndex", 24, "uint64">>, <<"stateRoot", 34, "bytes">>,
                <<"prevStateRoot", 42, "bytes">>, <<"txCount", 48, "uint64">>,
                <<"dataHash", 58, "bytes">>, <<"proof", 66, "bytes">>,
                <<"withdrawalsRoot", 74, "bytes">>, <<"anchorSignature", 82, "bytes">>,
                <<"validatorSetHash", 90, "bytes">>>>,
   decode |-> <<<<"sequencer", "string">>, <<"rollupId", "string">>, <<"batchIndex", "uint64">>,
                <<"stateRoot", "bytes">>, <<"prevStateRoot", "bytes">>, <<"txCount", "uint64">>,
                <<"dataHash", "bytes">>, <<"proof", "bytes">>, <<"withdrawalsRoot", "bytes">>,
                <<"anchorSignature", "bytes">>, <<"validatorSetHash", "bytes">>>>]

MsgChallengeBatch ==
  [encode |-> <<<<"challenger", 10, "string">>, <<"rollupId", 18, "string">>,
                <<"batchIndex", 24, "uint64">>, <<"proof", 34, "bytes">>>>,
   decode |-> <<<<"challenger", "string">>, <<"rollupId", "string">>,
                <<"batchIndex", "uint64">>, <<"proof", "bytes">>>>]

MsgResolveChallenge ==
  [encode |-> <<<<"resolver", 10, "string">>, <<"rollupId", 18, "string">>,
                <<"batchIndex", 24, "uint64">>, <<"fraudUpheld", 32, "bool">>>>,
   decode |-> <<<<"resolver", "string">>, <<"rollupId", "string">>,
                <<"batchIndex", "uint64">>, <<"fraudUpheld", "bool">>>>]

MsgPauseRollup ==
  [encode |-> <<<<"creator", 10, "string">>, <<"rollupId", 18, "string">>,
                <<"reason", 26, "string">>>>,
   decode |-> <<<<"creator", "string">>, <<"rollupId", "string">>, <<"reason", "string">>>>]

MsgResumeRollup ==
  [encode |-> <<<<"creator", 10, "string">>, <<"rollupId", 18, "string">>>>,
   decode |-> <<<<"creator", "string">>, <<"rollupId", "string">>>>]

MsgStopRollup ==
  [encode |-> <<<<"creator", 10, "string">>, <<"rollupId", 18, "string">>>>,
   decode |-> <<<<"creator", "string">>, <<"rollupId", "string">>>>]

\* proof is a repeated field: an element is written whatever it is, and read
\* elements are appended.
MsgExecuteWithdrawal ==
  [encode |-> <<<<"submitter", 10, "string">>, <<"rollupId", 18, "string">>,
                <<"batchIndex", 24, "uint64">>, <<"withdrawalIndex", 32, "uint64">>,
                <<"recipient", 42, "string">>, <<"denom", 50, "string">>,
                <<"amount", 56, "int64">>, <<"proof", 66, "repeated">>>>,
   decode |-> <<<<"submitter", "string">>, <<"rollupId", "string">>, <<"batchIndex", "uint64">>,
                <<"withdrawalIndex", "uint64">>, <<"recipient", "string">>,
                <<"denom", "string">>, <<"amount", "int64">>, <<"proof", "repeated">>>>]

\* The registry's types; the answer to a creation is not among them.
RDK_TYPES ==
  [MsgCreateRollup |-> MsgCreateRollup, MsgSubmitBatch |-> MsgSubmitBatch,
   MsgChallengeBatch |-> MsgChallengeBatch, MsgResolveChallenge |-> MsgResolveChallenge,
   MsgPauseRollup |-> MsgPauseRollup, MsgResumeRollup |-> MsgResumeRollup,
   MsgStopRollup |-> MsgStopRollup, MsgExecuteWithdrawal |-> MsgExecuteWithdrawal]

\* The answer's codec is used by itself.
CodecOf(t) ==
  IF t = "MsgCreateRollupResponse" THEN MsgCreateRollupResponse ELSE RDK_TYPES[t]

Types == DOMAIN RDK_TYPES \cup {"MsgCreateRollupResponse"}

(***************************************************************************)
(* The builders.                                                           *)
(***************************************************************************)

\* The inputs a builder leaves room for.
Optional(t) ==
  CASE t = "MsgSubmitBatch" ->
         {"prevStateRoot", "dataHash", "proof", "withdrawalsRoot", "anchorSignature",
          "validatorSetHash"}
    [] t = "MsgPauseRollup" -> {"reason"}
    [] t = "MsgExecuteWithdrawal" -> {"proof"}
    [] OTHER -> {}

vmTypeWireValue(vm) == IF vm = "native" THEN "cosmwasm" ELSE vm

\* What fromPartial and decode start from.
Default(kind) ==
  CASE kind \in {"string", "bytes"} -> ""
    [] kind \in {"int64", "uint64"} -> 0
    [] kind = "bool" -> FALSE
    [] kind = "repeated" -> <<>>

KindOf(codec, name) ==
  (CHOOSE f \in ToSet(codec.decode) : f[1] = name)[2]

Names(codec) == {f[1] : f \in ToSet(codec.decode)}

\* createRollupMsg, submitBatchMsg, ...: an input left out is the default, and
\* the Native VM is called cosmwasm.
Build(t, input) ==
  [n \in DOMAIN input |->
     IF input[n] = Absent THEN Default(KindOf(CodecOf(t), n))
     ELSE IF t = "MsgCreateRollup" /\ n = "vmType" THEN vmTypeWireValue(input[n])
     ELSE input[n]]

(***************************************************************************)
(* Writing and reading (BinaryWriter and BinaryReader are a library).      *)
(***************************************************************************)

\* A varint carries an integer modulo its width.
Written(kind, v) ==
  CASE kind \in {"int64", "uint64"} -> v % Modulus
    [] kind = "bool" -> IF v THEN 1 ELSE 0
    [] OTHER -> v

Read(kind, raw) ==
  CASE kind = "int64" -> IF raw > MaxInt THEN raw - Modulus ELSE raw
    [] kind = "bool" -> raw # 0
    [] OTHER -> raw

\* Mutant: empty elements of a repeated field are left out as well.
EmittedSkipsEmpty(f, v) ==
  IF f[3] = "repeated"
  THEN [i \in DOMAIN SelectSeq(v, LAMBDA e : e # "") |-> [tag |-> f[2], raw |-> "sibling"]]
  ELSE IF v = Default(f[3]) THEN <<>>
  ELSE <<[tag |-> f[2], raw |-> Written(f[3], v)]>>

\* What encode writes of one field: nothing for a default, and one field per
\* element of a repeated one.
Emitted(f, v) ==
  IF f[3] = "repeated" THEN [i \in DOMAIN v |-> [tag |-> f[2], raw |-> v[i]]]
  ELSE IF v = Default(f[3]) THEN <<>>
  ELSE <<[tag |-> f[2], raw |-> Written(f[3], v)]>>

\* What it writes, field by field.
Parts(codec, m) ==
  [i \in DOMAIN codec.encode |-> Emitted(codec.encode[i], m[codec.encode[i][1]])]

Encode(codec, m) == FlattenSeq(Parts(codec, m))

FieldNumber(tag) == tag \div 8

\* The body of decode's loop: the switch on the field number.  The wire type
\* of a known field is not looked at; an unknown one is skipped.
Assigned(codec, m, field) ==
  LET n == FieldNumber(field.tag) IN
  IF n \notin DOMAIN codec.decode THEN m
  ELSE LET name == codec.decode[n][1]
           kind == codec.decode[n][2]
       IN [m EXCEPT ![name] =
             IF kind = "repeated" THEN Append(@, field.raw) ELSE Read(kind, field.raw)]

(***************************************************************************)
(* A message's way.                                                        *)
(***************************************************************************)
VARIABLES
  wirePc,    \* "ask", "decode", "decoded"
  msgType,
  input,     \* what the caller asks for, as far as it is filled in
  wire,      \* the fields not yet read
  message,   \* what decode has so far
  extended   \* whether the peer has put in an unknown field

codecVars == <<wirePc, msgType, input, wire, message, extended>>

\* A field's inputs: the default, one value of its own, and others.
Inputs(t, n) ==
  LET kind == KindOf(CodecOf(t), n) IN
  (IF n \in Optional(t) THEN {Absent} ELSE {}) \cup
  (CASE n = "vmType" -> {"native", "evm"}
     [] n # "vmType" /\ kind \in {"string", "bytes"} -> {"", n} \cup Texts
     [] kind = "uint64" -> Uints
     [] kind = "int64" -> Ints
     [] kind = "bool" -> BOOLEAN
     [] kind = "repeated" ->
          UNION {[1 .. k -> {"", "sibling"} \cup Texts] : k \in 0 .. MaxSiblings})

CodecInit ==
  /\ wirePc = "ask" /\ msgType \in Types /\ input = <<>> /\ wire = <<>>
  /\ message = <<>> /\ extended = FALSE

\* The caller fills in the next field.
Ask ==
  /\ wirePc = "ask"
  /\ LET fields == CodecOf(msgType).decode IN
     \E i \in DOMAIN fields :
       LET n == fields[i][1] IN
       /\ n \notin DOMAIN input /\ \A j \in 1 .. i - 1 : fields[j][1] \in DOMAIN input
       /\ \E v \in Inputs(msgType, n) :
            input' = [x \in DOMAIN input \cup {n} |-> IF x = n THEN v ELSE input[x]]
  /\ UNCHANGED <<wirePc, msgType, wire, message, extended>>

\* The message is built and encoded; decode begins with the defaults.
Send ==
  /\ wirePc = "ask" /\ DOMAIN input = Names(CodecOf(msgType))
  /\ wire' = Encode(CodecOf(msgType), Build(msgType, input))
  /\ message' = [n \in DOMAIN input |-> Default(KindOf(CodecOf(msgType), n))]
  /\ wirePc' = "decode"
  /\ UNCHANGED <<msgType, input, extended>>

\* A peer of a later release has a field 15 here, of either wire type.
PeerAddsField ==
  /\ wirePc = "decode" /\ ~extended /\ extended' = TRUE
  /\ \E tag \in {120, 122} : wire' = <<[tag |-> tag, raw |-> "unknown"]>> \o wire
  /\ UNCHANGED <<wirePc, msgType, input, message>>

DecodeField ==
  /\ wirePc = "decode" /\ wire # <<>>
  /\ message' = Assigned(CodecOf(msgType), message, Head(wire))
  /\ wire' = Tail(wire)
  /\ UNCHANGED <<wirePc, msgType, input, extended>>

DecodeEnds ==
  /\ wirePc = "decode" /\ wire = <<>> /\ wirePc' = "decoded"
  /\ UNCHANGED <<msgType, input, wire, message, extended>>

CodecNext == Ask \/ Send \/ PeerAddsField \/ DecodeField \/ DecodeEnds

CodecSpec == CodecInit /\ [][CodecNext]_codecVars

(***************************************************************************)
(* Properties.                                                             *)
(***************************************************************************)

\* The decoder of the registered type reads what the caller asked for: every
\* field under its own name, the integers to the edges of their width, a
\* repeated field element by element with its empty ones, inputs left out as
\* empty, and fields of other releases as if they were not there.
DecodedAsAsked ==
  wirePc = "decoded" =>
    \A n \in DOMAIN input :
      \/ message[n] = input[n]
      \/ input[n] = Absent /\ message[n] = Default(KindOf(CodecOf(msgType), n))
      \/ n = "vmType" /\ input[n] = "native" /\ message[n] = "cosmwasm"

(***************************************************************************)
(* The inductive invariant behind it.                                      *)
(***************************************************************************)

\* What is asked for is of the message's fields.
AskInv ==
  /\ wirePc \in {"ask", "decode", "decoded"} /\ msgType \in Types
  /\ DOMAIN input \subseteq Names(CodecOf(msgType))
  /\ \A n \in DOMAIN input : input[n] \in Inputs(msgType, n)
  /\ wirePc # "ask" => DOMAIN input = Names(CodecOf(msgType))

\* How many of the first p fields of the wire are entry i's, which begin where
\* those of the entries before it end.
Taken(parts, i, p) ==
  LET before == Len(FlattenSeq(SubSeq(parts, 1, i - 1)))
      own == Len(parts[i])
  IN IF p <= before THEN 0 ELSE IF p >= before + own THEN own ELSE p - before

\* What decode has of entry i after the first p fields.
Partial(codec, m, i, p) ==
  LET name == codec.encode[i][1]
      kind == codec.encode[i][3]
      parts == Parts(codec, m)
  IN IF kind = "repeated" THEN SubSeq(m[name], 1, Taken(parts, i, p))
     ELSE IF Taken(parts, i, p) = Len(parts[i]) THEN m[name]
     ELSE Default(kind)

\* An unknown field may be in front of the fields that are left.
Ahead(codec, w) == w # <<>> /\ FieldNumber(Head(w).tag) \notin DOMAIN codec.decode

Left(codec, w) == IF Ahead(codec, w) THEN Tail(w) ELSE w

\* The first p fields are read, and the decoded message has what they say.
ReadTo(codec, m, w, decoded, p) ==
  LET all == Encode(codec, m) IN
  /\ Len(Left(codec, w)) = Len(all) - p
  /\ Left(codec, w) = SubSeq(all, p + 1, Len(all))
  /\ \A i \in DOMAIN codec.encode : decoded[codec.encode[i][1]] = Partial(codec, m, i, p)

\* Decoding is between two fields, the peer's beside them, or at the end.
DecodeInv ==
  wirePc # "ask" =>
    LET codec == CodecOf(msgType)
        m == Build(msgType, input)
    IN /\ DOMAIN message = DOMAIN input
       /\ \E p \in 0 .. Len(Encode(codec, m)) : ReadTo(codec, m, wire, message, p)
       /\ Ahead(codec, wire) => extended
       /\ wirePc = "decoded" => wire = <<>>

CodecInv == AskInv /\ DecodeInv

=============================================================================
