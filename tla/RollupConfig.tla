----------------------------- MODULE RollupConfig -----------------------------
(***************************************************************************)
(* A rollup's configuration on the client: the profiles, validation, the   *)
(* builder and the manifest.  The builder's copies are shallow: two        *)
(* configurations may hold the same sequencerParams object, so the objects *)
(* live in a store and a configuration holds the address of one, and a     *)
(* caller may write to any object it was given a share of.  A value        *)
(* outside a closed set is "bad"; ids, numbers and stakes are what the     *)
(* checks tell apart.                                                      *)
(***************************************************************************)
EXTENDS Naturals, Sequences, FiniteSets

CONSTANTS
  Undefined,   \* a field without a value
  MaxEdits     \* bound: calls of set(), loads of a manifest and writes to shared objects

\* undefined is no number, so no address of an object.
ASSUME ConfigAssumption == MaxEdits \in Nat /\ Undefined \notin Nat

(***************************************************************************)
(* Closed sets, the compatibility matrix and the profiles.                 *)
(***************************************************************************)
SETTLEMENT_PARADIGMS == {"optimistic", "zk", "based", "sovereign"}
SEQUENCER_MODES == {"dedicated", "shared", "based"}
PROOF_SYSTEMS == {"fraud", "snark", "stark", "none"}
DA_BACKENDS == {"native", "celestia", "both"}
GAS_MODELS == {"standard", "eip1559", "flat", "subsidized"}
VM_TYPES == {"evm", "native", "svm", "custom"}
PROFILE_NAMES == {"defi", "gaming", "nft", "enterprise", "custom"}

isVmType(v) == v \in VM_TYPES \cup {"cosmwasm"}

validProofSystems(settlement) ==
  CASE settlement = "optimistic" -> {"fraud"}
    [] settlement = "zk" -> {"snark", "stark"}
    [] settlement \in {"based", "sovereign"} -> {"none"}

isProofCompatible(settlement, proof) == proof \in validProofSystems(settlement)

requiresBasedSequencer(settlement) == settlement = "based"

\* settlement, sequencer, da, proofSystem, gasModel, vmType.
PRESET_DEFAULTS ==
  [defi |-> <<"zk", "dedicated", "native", "snark", "eip1559", "evm">>,
   gaming |-> <<"based", "based", "native", "none", "flat", "custom">>,
   nft |-> <<"optimistic", "dedicated", "celestia", "fraud", "standard", "native">>,
   enterprise |-> <<"based", "based", "native", "none", "subsidized", "evm">>,
   custom |-> <<"optimistic", "dedicated", "native", "fraud", "standard", "evm">>]

\* { ...object, ...overrides }.
Spread(object, overrides) ==
  [f \in DOMAIN object \cup DOMAIN overrides |->
     IF f \in DOMAIN overrides THEN overrides[f] ELSE object[f]]

\* { ...config, ...overrides }: a configuration has all of the fields.
Merged(config, overrides) ==
  [f \in DOMAIN config |-> IF f \in DOMAIN overrides THEN overrides[f] ELSE config[f]]

\* The defaults are positive numbers; no profile has sequencer parameters.
DefaultConfig(name) ==
  LET d == PRESET_DEFAULTS[name] IN
  [rollupId |-> "", profile |-> name, settlement |-> d[1], sequencer |-> d[2], da |-> d[3],
   proofSystem |-> d[4], gasModel |-> d[5], vmType |-> d[6], numbers |-> "positive",
   stakeAmountUqor |-> Undefined, sequencerParams |-> Undefined]

\* The profile is always the preset's, whatever the overrides say.
makePreset(name, overrides) == [Merged(DefaultConfig(name), overrides) EXCEPT !.profile = name]

(***************************************************************************)
(* Validation.                                                             *)
(***************************************************************************)

\* rollupIdError: the grammar is one bit of an id.
ValidId(id) == id \notin {"", "bad"}

Errors(c) ==
  {e \in {"rollupId", "settlement", "sequencer", "proofSystem", "da", "gasModel", "vmType",
          "matrix", "basedSequencer", "numbers", "stake"} :
     CASE e = "rollupId" -> ~ValidId(c.rollupId)
       [] e = "settlement" -> c.settlement \notin SETTLEMENT_PARADIGMS
       [] e = "sequencer" -> c.sequencer \notin SEQUENCER_MODES
       [] e = "proofSystem" -> c.proofSystem \notin PROOF_SYSTEMS
       [] e = "da" -> c.da \notin DA_BACKENDS
       [] e = "gasModel" -> c.gasModel \notin GAS_MODELS
       [] e = "vmType" -> ~isVmType(c.vmType)
       [] e = "matrix" -> /\ c.settlement \in SETTLEMENT_PARADIGMS
                          /\ c.proofSystem \in PROOF_SYSTEMS
                          /\ ~isProofCompatible(c.settlement, c.proofSystem)
       [] e = "basedSequencer" -> requiresBasedSequencer(c.settlement) /\ c.sequencer # "based"
       [] e = "numbers" -> c.numbers # "positive"
       [] e = "stake" -> c.stakeAmountUqor \notin {Undefined, "positive"}}

\* Errors block, warnings do not.  The profile is not looked at.
validateRollupConfig(c) ==
  [valid |-> Errors(c) = {},
   warnings |-> IF c.da \in {"celestia", "both"} THEN {"celestia"} ELSE {}]

(***************************************************************************)
(* A session with a builder.                                               *)
(***************************************************************************)
VARIABLES
  store,      \* the sequencerParams objects: contents by address
  builder,    \* the builder's config; Undefined before a preset makes one
  edits,      \* calls of set(), loads and writes so far
  handedOut,  \* configurations build() returned, with what they said then and
              \* what callers wrote to their objects since
  manifest,   \* a manifest file, Undefined if there is none
  exported    \* history: what the manifest was made from

builderVars == <<store, builder, edits, handedOut, manifest, exported>>

\* What a configuration says: its fields, with the object in place of its address.
Contents(c) ==
  [c EXCEPT !.sequencerParams = IF @ = Undefined THEN Undefined ELSE store[@]]

\* What one call overrides.  Values of one field stand for all of their class.
Overrides ==
  {[settlement |-> v] : v \in SETTLEMENT_PARADIGMS \cup {"bad"}}
  \cup {[sequencer |-> v] : v \in {"shared", "based", "bad"}}
  \cup {[proofSystem |-> v] : v \in PROOF_SYSTEMS}
  \cup {[da |-> "bad"], [gasModel |-> "bad"], [vmType |-> "bad"]}
  \cup {[da |-> "both"], [vmType |-> "cosmwasm"]}
  \cup {[rollupId |-> "id"], [rollupId |-> "bad"], [profile |-> "defi"]}
  \cup {[numbers |-> "zero"], [stakeAmountUqor |-> "zero"], [stakeAmountUqor |-> "positive"]}
  \cup {[settlement |-> "based", sequencer |-> "based", proofSystem |-> "none"]}

ParamOverrides == {[sequencerAddress |-> "a"], [sequencerAddress |-> "b"],
                   [sharedSetMinSize |-> "n"]}

BuilderInit ==
  /\ store = <<>> /\ builder = Undefined /\ edits = 0
  /\ handedOut = {} /\ manifest = Undefined /\ exported = Undefined

Edit == edits < MaxEdits /\ edits' = edits + 1

Preset(name, overrides) ==
  /\ builder = Undefined
  /\ builder' = makePreset(name, overrides)
  /\ UNCHANGED <<store, edits, handedOut, manifest, exported>>

\* A preset called with an id and sequencerParams: a copy of them over the
\* profile's none.
PresetParams(name, params) ==
  /\ builder = Undefined
  /\ store' = Append(store, params)
  /\ builder' = [makePreset(name, [rollupId |-> "id"]) EXCEPT !.sequencerParams = Len(store')]
  /\ UNCHANGED <<edits, handedOut, manifest, exported>>

SetFields(overrides) ==
  /\ builder # Undefined /\ Edit
  /\ builder' = Merged(builder, overrides)
  /\ UNCHANGED <<store, handedOut, manifest, exported>>

\* Mutant: the object the builder has is written to.
MergedInPlace(address, params) ==
  IF address = Undefined THEN Append(store, params)
  ELSE [store EXCEPT ![address] = Spread(@, params)]

\* { ...this.config.sequencerParams, ...overrides.sequencerParams } is a new object.
MergedParams(address, params) ==
  Append(store, IF address = Undefined THEN params ELSE Spread(store[address], params))

SetParams(params) ==
  /\ builder # Undefined /\ Edit
  /\ store' = MergedParams(builder.sequencerParams, params)
  /\ builder' = [builder EXCEPT !.sequencerParams = Len(store')]
  /\ UNCHANGED <<handedOut, manifest, exported>>

\* assertValidRollupConfig throws otherwise, and nothing is handed out.
build ==
  /\ builder # Undefined
  /\ validateRollupConfig(builder).valid
  /\ Cardinality(handedOut) < 2   \* bound
  /\ handedOut' = handedOut \cup {[config |-> builder, said |-> Contents(builder), writes |-> {}]}
  /\ UNCHANGED <<store, builder, edits, manifest, exported>>

\* Objects a caller shares: the builder's, through the copy get() returns or the
\* object the builder was constructed from, and those of built configurations,
\* which are frozen one level deep.
Shared ==
  {c.sequencerParams : c \in ({builder} \ {Undefined}) \cup {h.config : h \in handedOut}}
    \ {Undefined}

\* A caller assigns to fields of such an object.
WriteThrough(address, params) ==
  /\ Edit
  /\ store' = [store EXCEPT ![address] = Spread(@, params)]
  /\ handedOut' = {[h EXCEPT !.writes = IF h.config.sequencerParams = address
                                         THEN @ \cup {params} ELSE @] : h \in handedOut}
  /\ UNCHANGED <<builder, manifest, exported>>

\* What JSON keeps: fields that have a value.
Json(c) == [f \in {g \in DOMAIN c : c[g] # Undefined} |-> c[f]]

\* toManifest and stringifyManifest of get(): the current configuration,
\* valid or not.
toManifest ==
  /\ builder # Undefined
  /\ manifest' = [schema |-> "rollup-manifest", config |-> Json(Contents(builder))]
  /\ exported' = Contents(builder)
  /\ UNCHANGED <<store, builder, edits, handedOut>>

\* A file of some other tool.
OtherFile ==
  /\ manifest = Undefined /\ builder # Undefined
  /\ manifest' = [schema |-> "other", config |-> Json(Contents(builder))]
  /\ exported' = Undefined
  /\ UNCHANGED <<store, builder, edits, handedOut>>

\* Mutant: the manifest names a profile, and the rest is the profile's.
LoadedFromPreset(config) ==
  makePreset(config.profile, [rollupId |-> config.rollupId])

\* new RollupConfigBuilder(manifest.config): a field the file lacks is undefined.
Loaded(config) ==
  [f \in DOMAIN DefaultConfig("defi") |-> IF f \in DOMAIN config THEN config[f] ELSE Undefined]

\* parseManifest and fromManifest: another schema is raised.  The objects of
\* the parsed file are new.
fromManifest ==
  /\ manifest # Undefined /\ manifest.schema = "rollup-manifest"
  /\ Edit
  /\ LET c == Loaded(manifest.config) IN
     IF c.sequencerParams = Undefined THEN builder' = c /\ UNCHANGED store
     ELSE /\ store' = Append(store, c.sequencerParams)
          /\ builder' = [c EXCEPT !.sequencerParams = Len(store')]
  /\ manifest' = Undefined /\ exported' = Undefined
  /\ UNCHANGED handedOut

BuilderNext ==
  \/ \E name \in PROFILE_NAMES, o \in Overrides : Preset(name, o)
  \/ \E name \in PROFILE_NAMES, p \in ParamOverrides : PresetParams(name, p)
  \/ \E o \in Overrides : SetFields(o)
  \/ \E p \in ParamOverrides : SetParams(p)
  \/ \E address \in Shared, p \in ParamOverrides : WriteThrough(address, p)
  \/ build \/ toManifest \/ OtherFile \/ fromManifest

BuilderSpec == BuilderInit /\ [][BuilderNext]_builderVars

(***************************************************************************)
(* Properties.                                                             *)
(***************************************************************************)

\* What the chain takes: settlement, sequencer and proof system together.
LegalShapes ==
  {<<"optimistic", s, "fraud">> : s \in SEQUENCER_MODES}
  \cup {<<"zk", s, p>> : s \in SEQUENCER_MODES, p \in {"snark", "stark"}}
  \cup {<<"sovereign", s, "none">> : s \in SEQUENCER_MODES}
  \cup {<<"based", "based", "none">>}

\* What build() returned is a configuration the chain takes and remains one,
\* whatever callers write to the objects they share.  It goes on saying what it
\* said although the builder is changed, exported and loaded again, but not when
\* a caller writes to the nested object it holds: the copy is frozen one level
\* deep.
BuiltStaysLegal ==
  \A h \in handedOut : LET now == Contents(h.config) IN
    /\ <<now.settlement, now.sequencer, now.proofSystem>> \in LegalShapes
    /\ now.rollupId = "id" /\ now.numbers = "positive"
    /\ h.writes = {} => now = h.said

\* "save it, share it, and load it back": a builder loaded from a manifest has
\* every field of the configuration that was exported, overrides of the
\* profile's defaults and fields without a value included.
ManifestKeepsConfig ==
  [][fromManifest => Contents(builder)' = exported]_builderVars

=============================================================================
