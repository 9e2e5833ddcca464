----------------------------- MODULE CommandProofs -----------------------------
(***************************************************************************)
(* The commands a rollup begins with.  What a builder hands out and what a *)
(* manifest carries, for any number of edits; what doctor promises create  *)
(* and what the operator agreed to, for all parameters, rates and          *)
(* balances; and what the scaffolder does to a directory.                  *)
(***************************************************************************)
EXTENDS RollupSetup, Scaffold, TLAPS

(***************************************************************************)
(* The builder.  Two configurations may hold the same sequencerParams      *)
(* object; what keeps a configuration that was handed out from changing is *)
(* that no method writes to an object once it is there: the store grows,   *)
(* and changes only where a caller writes.  What makes it legal is not in  *)
(* the shared object.                                                      *)
(***************************************************************************)
ConfigFields ==
  {"rollupId", "profile", "settlement", "sequencer", "da", "proofSystem", "gasModel", "vmType",
   "numbers", "stakeAmountUqor", "sequencerParams"}

\* A configuration has these fields and one of the ids.
IsConfig(c) ==
  /\ c = [f \in ConfigFields |-> c[f]]
  /\ c.rollupId \in {"", "bad", "id"}

\* An object of sequencer parameters.
ParamObjects ==
  UNION {[D -> {"a", "b", "n"}] : D \in SUBSET {"sequencerAddress", "sharedSetMinSize"}}

\* It has an object of the store, or none.
Held(c) == IsConfig(c) /\ c.sequencerParams \in {Undefined} \cup 1 .. Len(store)

StoreOK == store \in Seq(ParamObjects)

HandedOutOK ==
  \A h \in handedOut : /\ Held(h.config)
                       /\ h.writes = {} => h.said = Contents(h.config)
                       /\ Errors(h.config) = {}

\* A manifest made here holds what JSON keeps of the exported configuration.
ManifestOK ==
  manifest # Undefined /\ manifest.schema = "rollup-manifest" =>
    /\ IsConfig(exported) /\ exported.sequencerParams \in {Undefined} \cup ParamObjects
    /\ manifest.config = Json(exported)

BuilderInv ==
  /\ StoreOK
  /\ builder # Undefined => Held(builder)
  /\ HandedOutOK
  /\ ManifestOK

\* The profiles' defaults are configurations without sequencer parameters.
LEMMA DefaultIsConfig ==
  ASSUME NEW name
  PROVE  IsConfig(DefaultConfig(name)) /\ DefaultConfig(name).sequencerParams = Undefined
  BY DEF DefaultConfig, IsConfig, ConfigFields

\* No override names the nested object, and one of the id keeps to the ids.
LEMMA OverrideFacts ==
  ASSUME NEW o \in Overrides
  PROVE  /\ "sequencerParams" \notin DOMAIN o
         /\ "rollupId" \in DOMAIN o => o.rollupId \in {"", "bad", "id"}
<1>1. CASE \E v : o = [settlement |-> v] \/ o = [sequencer |-> v] \/ o = [proofSystem |-> v]
                  \/ o = [da |-> v] \/ o = [gasModel |-> v] \/ o = [vmType |-> v]
  BY <1>1
<1>2. CASE \E v : o = [profile |-> v] \/ o = [numbers |-> v] \/ o = [stakeAmountUqor |-> v]
  BY <1>2
<1>3. CASE \E v \in {"id", "bad"} : o = [rollupId |-> v]
  <2>1. PICK v \in {"id", "bad"} : o = [rollupId |-> v]
    BY <1>3
  <2>2. o.rollupId = v
    BY <2>1
  <2>3. DOMAIN o = {"rollupId"}
    BY <2>1
  <2> QED BY <2>2, <2>3
<1>4. CASE o = [settlement |-> "based", sequencer |-> "based", proofSystem |-> "none"]
  BY <1>4
<1> QED BY <1>1, <1>2, <1>3, <1>4 DEF Overrides

\* Merging overrides into a configuration gives one with the same object.
LEMMA MergedIsConfig ==
  ASSUME NEW c, IsConfig(c), NEW o,
         "sequencerParams" \notin DOMAIN o,
         "rollupId" \in DOMAIN o => o.rollupId \in {"", "bad", "id"}
  PROVE  IsConfig(Merged(c, o)) /\ Merged(c, o).sequencerParams = c.sequencerParams
  BY DEF IsConfig, Merged, ConfigFields

\* A preset's configuration.
LEMMA PresetIsConfig ==
  ASSUME NEW name, NEW o \in Overrides
  PROVE  IsConfig(makePreset(name, o)) /\ makePreset(name, o).sequencerParams = Undefined
<1>1. /\ IsConfig(Merged(DefaultConfig(name), o))
      /\ Merged(DefaultConfig(name), o).sequencerParams = Undefined
  BY DefaultIsConfig, OverrideFacts, MergedIsConfig
<1> QED BY <1>1 DEF makePreset, IsConfig, ConfigFields

\* Appending an object leaves every address as it was and adds one.
LEMMA StoreGrows ==
  ASSUME StoreOK, NEW x \in ParamObjects
  PROVE  /\ Append(store, x) \in Seq(ParamObjects)
         /\ Len(store) \in Nat /\ Len(Append(store, x)) = Len(store) + 1
         /\ Append(store, x)[Len(store) + 1] = x
         /\ \A i \in 1 .. Len(store) : Append(store, x)[i] = store[i] /\ store[i] \in ParamObjects
  BY DEF StoreOK

\* What an appended object leaves untouched: what is said by a configuration that
\* holds an earlier one.
LEMMA SaidIsKept ==
  ASSUME StoreOK, StoreOK', NEW c, Held(c),
         store' = store \/ \E x \in ParamObjects : store' = Append(store, x)
  PROVE  /\ c.sequencerParams \in {Undefined} \cup 1 .. Len(store')
         /\ [c EXCEPT !.sequencerParams = IF @ = Undefined THEN Undefined ELSE store'[@]]
              = Contents(c)
<1>1. CASE store' = store
  BY <1>1 DEF Held, Contents
<1>2. CASE \E x \in ParamObjects : store' = Append(store, x)
  <2>1. PICK x \in ParamObjects : store' = Append(store, x)
    BY <1>2
  <2>2. c.sequencerParams \in {Undefined} \cup 1 .. Len(store')
    BY <2>1, StoreGrows DEF Held
  <2>3. c.sequencerParams # Undefined => store'[c.sequencerParams] = store[c.sequencerParams]
    BY <2>1, StoreGrows DEF Held
  <2> QED BY <2>2, <2>3 DEF Contents
<1> QED BY <1>1, <1>2

\* So what was handed out stays as it was.
LEMMA HandedOutKept ==
  ASSUME StoreOK, StoreOK', HandedOutOK, UNCHANGED handedOut,
         store' = store \/ \E x \in ParamObjects : store' = Append(store, x)
  PROVE  HandedOutOK'
<1> SUFFICES ASSUME NEW h \in handedOut
             PROVE  /\ Held(h.config)' /\ (h.writes = {} => h.said = Contents(h.config))'
                    /\ (Errors(h.config) = {})'
  BY DEF HandedOutOK
<1>1. /\ Held(h.config) /\ (h.writes = {} => h.said = Contents(h.config))
      /\ Errors(h.config) = {}
  BY DEF HandedOutOK
<1>2. /\ h.config.sequencerParams \in {Undefined} \cup 1 .. Len(store')
      /\ [h.config EXCEPT !.sequencerParams = IF @ = Undefined THEN Undefined ELSE store'[@]]
           = Contents(h.config)
  BY <1>1, SaidIsKept
<1> QED BY <1>1, <1>2 DEF Held, Contents

\* What a configuration says is a configuration with the object itself.
LEMMA ContentsIsConfig ==
  ASSUME StoreOK, NEW c, Held(c)
  PROVE  /\ IsConfig(Contents(c)) /\ Contents(c).sequencerParams \in {Undefined} \cup ParamObjects
         /\ \A f \in ConfigFields \ {"sequencerParams"} : Contents(c)[f] = c[f]
<1>1. c.sequencerParams # Undefined => store[c.sequencerParams] \in ParamObjects
  BY DEF Held, StoreOK
<1> QED BY <1>1 DEF Held, IsConfig, Contents, ConfigFields

\* Parsing gives back what stringifying was given: a field without a value is not
\* in the file and comes back without a value.
LEMMA LoadedIsExported ==
  ASSUME NEW c, IsConfig(c)
  PROVE  Loaded(Json(c)) = c
<1>1. DOMAIN c = ConfigFields
  BY DEF IsConfig
<1>2. DOMAIN DefaultConfig("defi") = ConfigFields
  BY DefaultIsConfig DEF IsConfig
<1>3. \A f \in ConfigFields :
        (IF f \in DOMAIN Json(c) THEN Json(c)[f] ELSE Undefined) = c[f]
  BY <1>1 DEF Json
<1>4. Loaded(Json(c)) = [f \in ConfigFields |-> c[f]]
  BY <1>2, <1>3 DEF Loaded
<1> QED BY <1>4 DEF IsConfig

\* The parameters of a call are an object of parameters.
LEMMA CallIsParams == ParamOverrides \subseteq ParamObjects
<1> SUFFICES ASSUME NEW p \in ParamOverrides
             PROVE  p \in ParamObjects
  OBVIOUS
<1>1. CASE \E v \in {"a", "b"} : p = [sequencerAddress |-> v]
  <2>1. PICK v \in {"a", "b"} : p = [sequencerAddress |-> v]
    BY <1>1
  <2>2. p = [f \in {"sequencerAddress"} |-> v]
    BY <2>1
  <2>3. p \in [{"sequencerAddress"} -> {"a", "b", "n"}]
    BY <2>2
  <2> QED BY <2>3 DEF ParamObjects
<1>2. CASE p = [sharedSetMinSize |-> "n"]
  <2>1. p = [f \in {"sharedSetMinSize"} |-> "n"]
    BY <1>2
  <2>2. p \in [{"sharedSetMinSize"} -> {"a", "b", "n"}]
    BY <2>1
  <2> QED BY <2>2 DEF ParamObjects
<1> QED BY <1>1, <1>2 DEF ParamOverrides

\* So are a call's parameters over an object's.
LEMMA SpreadIsParams ==
  ASSUME NEW object \in ParamObjects, NEW p \in ParamOverrides
  PROVE  Spread(object, p) \in ParamObjects
<1>1. ASSUME NEW q \in ParamObjects
      PROVE  /\ DOMAIN q \subseteq {"sequencerAddress", "sharedSetMinSize"}
             /\ \A f \in DOMAIN q : q[f] \in {"a", "b", "n"}
  <2>1. PICK D \in SUBSET {"sequencerAddress", "sharedSetMinSize"} : q \in [D -> {"a", "b", "n"}]
    BY <1>1 DEF ParamObjects
  <2> QED BY <2>1
<1>2. Spread(object, p) \in [DOMAIN object \cup DOMAIN p -> {"a", "b", "n"}]
  BY <1>1, CallIsParams DEF Spread
<1>3. DOMAIN object \cup DOMAIN p \in SUBSET {"sequencerAddress", "sharedSetMinSize"}
  BY <1>1, CallIsParams
<1> QED BY <1>2, <1>3 DEF ParamObjects

\* What a caller's write reaches: the object it is to, and what holds that object.
LEMMA WrittenThrough ==
  ASSUME BuilderInv, NEW address \in Shared, NEW p \in ParamOverrides, WriteThrough(address, p)
  PROVE  BuilderInv'
<1>1. /\ store' = [store EXCEPT ![address] = Spread(@, p)]
      /\ handedOut' = {[h EXCEPT !.writes = IF h.config.sequencerParams = address
                                            THEN @ \cup {p} ELSE @] : h \in handedOut}
      /\ UNCHANGED <<builder, manifest, exported>>
  BY DEF WriteThrough
<1>2. StoreOK /\ HandedOutOK /\ ManifestOK /\ (builder # Undefined => Held(builder))
  BY DEF BuilderInv
<1>3. address \in 1 .. Len(store)
  BY <1>2 DEF Shared, Held, HandedOutOK
<1>4. /\ store' \in Seq(ParamObjects) /\ Len(store') = Len(store)
      /\ \A a \in 1 .. Len(store) : a # address => store'[a] = store[a]
  <2>1. store[address] \in ParamObjects
    BY <1>2, <1>3 DEF StoreOK
  <2>2. Spread(store[address], p) \in ParamObjects
    BY <2>1, SpreadIsParams
  <2> QED BY <1>1, <1>2, <1>3, <2>2 DEF StoreOK
<1>5. ASSUME NEW c, Held(c) PROVE Held(c)'
  BY <1>4, <1>5 DEF Held
<1>6. HandedOutOK'
  <2> SUFFICES ASSUME NEW k \in handedOut'
               PROVE  /\ Held(k.config)' /\ (k.writes = {} => k.said = Contents(k.config))'
                      /\ (Errors(k.config) = {})'
    BY DEF HandedOutOK
  <2>1. PICK h \in handedOut : k = [h EXCEPT !.writes = IF h.config.sequencerParams = address
                                                       THEN @ \cup {p} ELSE @]
    BY <1>1
  <2>2. /\ Held(h.config) /\ (h.writes = {} => h.said = Contents(h.config))
        /\ Errors(h.config) = {}
    BY <1>2 DEF HandedOutOK
  <2>3. /\ k.config = h.config /\ k.said = h.said
        /\ k.writes = {} => h.writes = {} /\ h.config.sequencerParams # address
    BY <2>1
  <2>4. Held(h.config)'
    BY <1>5, <2>2
  <2>5. ASSUME k.writes = {} PROVE (k.said = Contents(k.config))'
    <3>1. h.config.sequencerParams # Undefined
            => store'[h.config.sequencerParams] = store[h.config.sequencerParams]
      BY <1>4, <2>2, <2>3, <2>5 DEF Held
    <3> QED BY <2>2, <2>3, <2>5, <3>1 DEF Contents
  <2> QED BY <2>2, <2>3, <2>4, <2>5
<1>7. (builder # Undefined => Held(builder))'
  BY <1>1, <1>2, <1>5
<1>8. ManifestOK'
  BY <1>1, <1>2 DEF ManifestOK, Json
<1> QED BY <1>4, <1>6, <1>7, <1>8 DEF BuilderInv, StoreOK

\* Before a preset there is nothing.
LEMMA BuilderInvInit == BuilderInit => BuilderInv
  BY DEF BuilderInit, BuilderInv, StoreOK, HandedOutOK, ManifestOK

\* Every call of the session keeps the invariant.
LEMMA BuilderInvStep == BuilderInv /\ [BuilderNext]_builderVars => BuilderInv'
<1> SUFFICES ASSUME BuilderInv, [BuilderNext]_builderVars
             PROVE  BuilderInv'
  OBVIOUS
<1> USE DEF BuilderInv
<1>1. ASSUME NEW name \in PROFILE_NAMES, NEW o \in Overrides, Preset(name, o)
      PROVE  BuilderInv'
  <2>1. /\ builder' = makePreset(name, o)
        /\ UNCHANGED <<store, edits, handedOut, manifest, exported>>
    BY <1>1 DEF Preset
  <2>2. Held(builder)'
    BY <2>1, PresetIsConfig DEF Held
  <2>3. StoreOK' /\ ManifestOK'
    BY <2>1 DEF StoreOK, ManifestOK, Json
  <2>4. HandedOutOK'
    BY <2>1, <2>3, HandedOutKept
  <2> QED BY <2>2, <2>3, <2>4
<1>2. ASSUME NEW o \in Overrides, SetFields(o)
      PROVE  BuilderInv'
  <2>1. /\ builder' = Merged(builder, o) /\ builder # Undefined
        /\ UNCHANGED <<store, handedOut, manifest, exported>>
    BY <1>2 DEF SetFields
  <2>2. Held(builder)'
    BY <2>1, OverrideFacts, MergedIsConfig DEF Held
  <2>3. StoreOK' /\ ManifestOK'
    BY <2>1 DEF StoreOK, ManifestOK, Json
  <2>4. HandedOutOK'
    BY <2>1, <2>3, HandedOutKept
  <2> QED BY <2>2, <2>3, <2>4
<1>3. ASSUME NEW p \in ParamOverrides, SetParams(p)
      PROVE  BuilderInv'
  <2>1. /\ builder # Undefined /\ Held(builder)
        /\ store' = MergedParams(builder.sequencerParams, p)
        /\ builder' = [builder EXCEPT !.sequencerParams = Len(store')]
        /\ UNCHANGED <<handedOut, manifest, exported>>
    BY <1>3 DEF SetParams
  <2>2. PICK x \in ParamObjects : store' = Append(store, x)
    <3>1. p \in ParamObjects
      BY CallIsParams
    <3>2. CASE builder.sequencerParams = Undefined
      BY <2>1, <3>1, <3>2 DEF MergedParams
    <3>3. CASE builder.sequencerParams # Undefined
      <4>1. store[builder.sequencerParams] \in ParamObjects
        BY <2>1, <3>3 DEF Held, StoreOK
      <4> QED BY <2>1, <3>3, <4>1, SpreadIsParams DEF MergedParams
    <3> QED BY <3>2, <3>3
  <2>3. StoreOK' /\ ManifestOK'
    BY <2>1, <2>2, StoreGrows DEF StoreOK, ManifestOK, Json
  <2>4. Held(builder)'
    <3>1. Len(store') \in 1 .. Len(store')
      BY <2>2, StoreGrows
    <3> QED BY <2>1, <3>1 DEF Held, IsConfig, ConfigFields
  <2>5. HandedOutOK'
    BY <2>1, <2>2, <2>3, HandedOutKept
  <2> QED BY <2>3, <2>4, <2>5
<1>4. CASE build
  <2>1. /\ builder # Undefined /\ Held(builder) /\ Errors(builder) = {}
        /\ handedOut' = handedOut \cup {[config |-> builder, said |-> Contents(builder), writes |-> {}]}
        /\ UNCHANGED <<store, builder, edits, manifest, exported>>
    BY <1>4 DEF build, validateRollupConfig
  <2>2. StoreOK' /\ ManifestOK' /\ (builder # Undefined => Held(builder))'
    BY <2>1 DEF StoreOK, ManifestOK, Json, Held
  <2>3. HandedOutOK'
    <3> SUFFICES ASSUME NEW h \in handedOut'
                 PROVE  /\ Held(h.config)' /\ (h.writes = {} => h.said = Contents(h.config))'
                        /\ Errors(h.config) = {}
      BY DEF HandedOutOK, Errors
    <3>1. /\ Held(h.config) /\ (h.writes = {} => h.said = Contents(h.config))
          /\ Errors(h.config) = {}
      BY <2>1 DEF HandedOutOK
    <3> QED BY <2>1, <3>1 DEF Held, Contents
  <2> QED BY <2>2, <2>3
<1>5. CASE toManifest
  <2>1. /\ builder # Undefined /\ Held(builder)
        /\ exported' = Contents(builder)
        /\ manifest'.config = Json(Contents(builder))
        /\ UNCHANGED <<store, builder, edits, handedOut>>
    BY <1>5 DEF toManifest
  <2>2. StoreOK' /\ (builder # Undefined => Held(builder))'
    BY <2>1 DEF StoreOK, Held
  <2>3. ManifestOK'
    BY <2>1, ContentsIsConfig DEF ManifestOK, Json
  <2>4. HandedOutOK'
    BY <2>1, <2>2, HandedOutKept
  <2> QED BY <2>2, <2>3, <2>4
<1>6. CASE OtherFile
  <2>1. /\ manifest'.schema = "other"
        /\ UNCHANGED <<store, builder, edits, handedOut>>
    BY <1>6 DEF OtherFile
  <2>2. StoreOK' /\ (builder # Undefined => Held(builder))' /\ ManifestOK'
    BY <2>1 DEF StoreOK, Held, ManifestOK
  <2>3. HandedOutOK'
    BY <2>1, <2>2, HandedOutKept
  <2> QED BY <2>2, <2>3
<1>7. CASE fromManifest
  <2> DEFINE c == Loaded(manifest.config)
  <2>1. /\ manifest # Undefined /\ manifest.schema = "rollup-manifest"
        /\ manifest' = Undefined /\ UNCHANGED handedOut
        /\ c = exported
        /\ IsConfig(c) /\ c.sequencerParams \in {Undefined} \cup ParamObjects
    BY <1>7, LoadedIsExported DEF fromManifest, ManifestOK
  <2>2. CASE c.sequencerParams = Undefined
    <3>1. builder' = c /\ UNCHANGED store
      BY <1>7, <2>2 DEF fromManifest
    <3>2. Held(builder)' /\ StoreOK' /\ ManifestOK'
      BY <2>1, <2>2, <3>1 DEF Held, StoreOK, ManifestOK
    <3> QED BY <2>1, <3>1, <3>2, HandedOutKept
  <2>3. CASE c.sequencerParams # Undefined
    <3>1. /\ store' = Append(store, c.sequencerParams) /\ c.sequencerParams \in ParamObjects
          /\ builder' = [c EXCEPT !.sequencerParams = Len(store')]
      BY <1>7, <2>1, <2>3 DEF fromManifest
    <3>2. StoreOK' /\ Len(store') \in 1 .. Len(store')
      BY <3>1, StoreGrows DEF StoreOK
    <3>3. Held(builder)' /\ ManifestOK'
      BY <2>1, <3>1, <3>2 DEF Held, ManifestOK, IsConfig, ConfigFields
    <3> QED BY <2>1, <3>1, <3>2, <3>3, HandedOutKept
  <2> QED BY <2>2, <2>3
<1>8. CASE UNCHANGED builderVars
  <2>1. UNCHANGED <<store, builder, edits, handedOut, manifest, exported>>
    BY <1>8 DEF builderVars
  <2>2. StoreOK' /\ (builder # Undefined => Held(builder))' /\ ManifestOK'
    BY <2>1 DEF StoreOK, Held, ManifestOK, Json
  <2> QED BY <2>1, <2>2, HandedOutKept
<1>9. ASSUME NEW name \in PROFILE_NAMES, NEW p \in ParamOverrides, PresetParams(name, p)
      PROVE  BuilderInv'
  <2> DEFINE c == makePreset(name, [rollupId |-> "id"])
  <2>1. /\ store' = Append(store, p) /\ builder' = [c EXCEPT !.sequencerParams = Len(store')]
        /\ UNCHANGED <<handedOut, manifest, exported>>
    BY <1>9 DEF PresetParams
  <2>2. IsConfig(c) /\ p \in ParamObjects
    BY PresetIsConfig, CallIsParams DEF Overrides
  <2> HIDE DEF c
  <2>3. StoreOK' /\ ManifestOK' /\ Len(store') \in 1 .. Len(store')
    BY <2>1, <2>2, StoreGrows DEF StoreOK, ManifestOK, Json
  <2>4. Held(builder)'
    BY <2>1, <2>2, <2>3 DEF Held, IsConfig, ConfigFields
  <2>5. HandedOutOK'
    BY <2>1, <2>2, <2>3, HandedOutKept
  <2> QED BY <2>3, <2>4, <2>5
<1>10. ASSUME NEW address \in Shared, NEW p \in ParamOverrides, WriteThrough(address, p)
       PROVE  BuilderInv'
  BY <1>10, WrittenThrough
<1> QED BY <1>1, <1>2, <1>3, <1>4, <1>5, <1>6, <1>7, <1>8, <1>9, <1>10 DEF BuilderNext

\* A configuration says what it said unless its object was written to, and
\* manifests are the configuration's JSON, in every session with a builder.
THEOREM BuilderInvariant == BuilderSpec => []BuilderInv
  BY BuilderInvInit, BuilderInvStep, PTL DEF BuilderSpec

\* A configuration without errors has one of the shapes the chain takes.
LEMMA NoErrorsIsLegal ==
  ASSUME NEW c, Errors(c) = {}
  PROVE  /\ <<c.settlement, c.sequencer, c.proofSystem>> \in LegalShapes
         /\ ValidId(c.rollupId) /\ c.numbers = "positive"
<1>1. ValidId(c.rollupId)
  <2>1. "rollupId" \notin Errors(c)
    OBVIOUS
  <2> QED BY <2>1 DEF Errors
<1>2. c.settlement \in SETTLEMENT_PARADIGMS
  <2>1. "settlement" \notin Errors(c)
    OBVIOUS
  <2> QED BY <2>1 DEF Errors
<1>3. c.sequencer \in SEQUENCER_MODES
  <2>1. "sequencer" \notin Errors(c)
    OBVIOUS
  <2> QED BY <2>1 DEF Errors
<1>4. c.proofSystem \in PROOF_SYSTEMS
  <2>1. "proofSystem" \notin Errors(c)
    OBVIOUS
  <2> QED BY <2>1 DEF Errors
<1>5. isProofCompatible(c.settlement, c.proofSystem)
  <2>1. "matrix" \notin Errors(c)
    OBVIOUS
  <2> QED BY <1>2, <1>4, <2>1 DEF Errors
<1>6. requiresBasedSequencer(c.settlement) => c.sequencer = "based"
  <2>1. "basedSequencer" \notin Errors(c)
    OBVIOUS
  <2> QED BY <2>1 DEF Errors
<1>7. c.numbers = "positive"
  <2>1. "numbers" \notin Errors(c)
    OBVIOUS
  <2> QED BY <2>1 DEF Errors
<1>8. <<c.settlement, c.sequencer, c.proofSystem>> \in LegalShapes
  <2>1. CASE c.settlement = "optimistic"
    BY <2>1, <1>3, <1>5 DEF isProofCompatible, validProofSystems, LegalShapes
  <2>2. CASE c.settlement = "zk"
    BY <2>2, <1>3, <1>5 DEF isProofCompatible, validProofSystems, LegalShapes
  <2>3. CASE c.settlement = "sovereign"
    BY <2>3, <1>3, <1>5 DEF isProofCompatible, validProofSystems, LegalShapes
  <2>4. CASE c.settlement = "based"
    BY <2>4, <1>5, <1>6
    DEF isProofCompatible, validProofSystems, LegalShapes, requiresBasedSequencer
  <2> QED BY <1>2, <2>1, <2>2, <2>3, <2>4 DEF SETTLEMENT_PARADIGMS
<1> QED BY <1>1, <1>7, <1>8

\* A configuration build() has returned is one the chain takes, whatever callers
\* write to the objects they share, and says what it said, whatever is done with
\* the builder after, until a caller writes to the object it holds.
THEOREM BuiltLegal == BuilderSpec => []BuiltStaysLegal
<1>1. BuilderInv => BuiltStaysLegal
  <2> SUFFICES ASSUME BuilderInv, NEW h \in handedOut
               PROVE  LET now == Contents(h.config) IN
                      /\ <<now.settlement, now.sequencer, now.proofSystem>> \in LegalShapes
                      /\ now.rollupId = "id" /\ now.numbers = "positive"
                      /\ h.writes = {} => now = h.said
    BY DEF BuiltStaysLegal
  <2> DEFINE now == Contents(h.config)
  <2>1. /\ StoreOK /\ Held(h.config) /\ (h.writes = {} => h.said = now)
        /\ Errors(h.config) = {}
    BY DEF BuilderInv, HandedOutOK
  <2>2. /\ now.settlement = h.config.settlement /\ now.sequencer = h.config.sequencer
        /\ now.proofSystem = h.config.proofSystem /\ now.rollupId = h.config.rollupId
        /\ now.numbers = h.config.numbers
    BY <2>1, ContentsIsConfig DEF ConfigFields
  <2> HIDE DEF now
  <2>3. h.config.rollupId = "id"
    BY <2>1, NoErrorsIsLegal DEF ValidId, Held, IsConfig
  <2>4. /\ <<now.settlement, now.sequencer, now.proofSystem>> \in LegalShapes
        /\ now.rollupId = "id" /\ now.numbers = "positive"
    BY <2>1, <2>2, <2>3, NoErrorsIsLegal
  <2> QED BY <2>1, <2>4 DEF now
<1> QED BY <1>1, BuilderInvariant, PTL

\* A builder loaded from a manifest has every field of the exported
\* configuration, the ones without a value included.
THEOREM ManifestsKept == BuilderSpec => ManifestKeepsConfig
<1>1. BuilderInv /\ fromManifest => Contents(builder)' = exported
  <2> SUFFICES ASSUME BuilderInv, fromManifest
               PROVE  Contents(builder)' = exported
    OBVIOUS
  <2> DEFINE c == Loaded(manifest.config)
  <2>1. /\ StoreOK /\ c = exported /\ IsConfig(c)
        /\ c.sequencerParams \in {Undefined} \cup ParamObjects
    BY LoadedIsExported DEF fromManifest, BuilderInv, ManifestOK
  <2>2. CASE c.sequencerParams = Undefined
    <3>1. builder' = c
      BY <2>2 DEF fromManifest
    <3> QED BY <2>1, <2>2, <3>1 DEF Contents, IsConfig, ConfigFields
  <2>3. CASE c.sequencerParams # Undefined
    <3>1. /\ store' = Append(store, c.sequencerParams) /\ c.sequencerParams \in ParamObjects
          /\ builder' = [c EXCEPT !.sequencerParams = Len(store')]
      BY <2>1, <2>3 DEF fromManifest
    <3>2. Len(store') # Undefined /\ store'[Len(store')] = c.sequencerParams
      BY <2>1, <3>1, StoreGrows, ConfigAssumption
    <3> QED BY <2>1, <3>1, <3>2 DEF Contents, IsConfig, ConfigFields
  <2> QED BY <2>2, <2>3
<1>2. BuilderInv /\ [BuilderNext]_builderVars =>
        [fromManifest => Contents(builder)' = exported]_builderVars
  BY <1>1
<1> QED BY <1>2, BuilderInvariant, PTL DEF BuilderSpec, ManifestKeepsConfig

(***************************************************************************)
(* doctor and create.  A command's reads stay what they were while the     *)
(* chain moves: the cost that was shown is that of the parameters read,    *)
(* and what doctor saw when it cleared the balance covers the minimum      *)
(* stake and the fee.                                                      *)
(***************************************************************************)
ChainOK == minStake \in Nat /\ rate \in Rates /\ balance \in Nat

\* A command past its read of the parameters has the chain's values of then.
SeenOK ==
  oPc \in {"doctorBalance", "confirm", "send"} => seen.min \in Nat /\ seen.rate \in Rates

\* The stake create uses: the flag's, the minimum it read without one.
StakeOf(f, min) == IF f.stake = Undefined THEN min ELSE f.stake

ShownOK ==
  oPc \in {"confirm", "send"} =>
    /\ shown = estimateCreationCost(StakeOf(flags, seen.min), seen.rate)
    /\ shown.stake \in Nat

ClearedOK ==
  cleared # Undefined =>
    /\ cleared.min \in Nat /\ cleared.balance \in Nat
    /\ cleared.balance >= cleared.min + FeeBuffer

SetupInv ==
  /\ flags \in Flags
  /\ ChainOK
  /\ SeenOK
  /\ ShownOK
  /\ ClearedOK

\* Before the first command nothing is read, shown or cleared.
LEMMA SetupInvInit == SetupInit => SetupInv
<1> SUFFICES ASSUME SetupInit
             PROVE  SetupInv
  OBVIOUS
<1>1. flags \in Flags
  BY DEF SetupInit, NoFlags, Flags
<1> QED BY <1>1, SetupAssumption
        DEF SetupInit, SetupInv, ChainOK, SeenOK, ShownOK, ClearedOK

\* A command that ends leaves nothing read or shown.
LEMMA ReturnKeeps ==
  ASSUME NEW c, Return(c)
  PROVE  flags' \in Flags /\ SeenOK' /\ ShownOK'
<1>1. NoFlags \in Flags
  BY DEF NoFlags, Flags
<1> QED BY <1>1 DEF Return, SeenOK, ShownOK

\* One that starts has read nothing yet.
LEMMA CommandKeeps ==
  ASSUME SetupInv, NEW f \in Flags, NEW at, Command(f, at),
         at \notin {"doctorBalance", "confirm", "send"}
  PROVE  flags' \in Flags /\ ChainOK' /\ SeenOK' /\ ShownOK'
  BY DEF SetupInv, Command, ChainOK, SeenOK, ShownOK

\* Every step of the commands and of the others keeps it.
LEMMA SetupInvStep == SetupInv /\ [SetupNext]_setupVars => SetupInv'
<1> SUFFICES ASSUME SetupInv, [SetupNext]_setupVars
             PROVE  SetupInv'
  OBVIOUS
<1> USE DEF SetupInv
<1>1. CASE Moves
  <2>1. UNCHANGED commandVars
    BY <1>1 DEF Moves
  <2>2. /\ minStake' \in MinStakes \/ minStake' = minStake
        /\ rate' \in Rates \/ rate' = rate
        /\ balance' \in 0 .. MaxBalance \/ balance' = balance
    BY <1>1 DEF Moves
  <2>3. ChainOK'
    <3>1. minStake \in Nat /\ rate \in Rates /\ balance \in Nat
      BY DEF ChainOK
    <3>2. MinStakes \subseteq Nat /\ MaxBalance \in Nat
      BY SetupAssumption
    <3>3. minStake' \in Nat /\ rate' \in Rates
      BY <2>2, <3>1, <3>2
    <3>4. balance' \in Nat
      BY <2>2, <3>1, <3>2
    <3> QED BY <3>3, <3>4 DEF ChainOK
  <2> QED BY <2>1, <2>3 DEF commandVars, SeenOK, ShownOK, ClearedOK
<1>2. ASSUME NEW f \in Flags, Doctor(f)
      PROVE  SetupInv'
  <2>1. Command(f, "doctorParams") /\ cleared' = Undefined
    BY <1>2 DEF Doctor
  <2> QED BY <2>1, CommandKeeps DEF ClearedOK
<1>3. ASSUME NEW f \in Flags, Create(f)
      PROVE  SetupInv'
  <2>1. PICK at \in {"createParams", "rejected"} : Command(f, at) /\ UNCHANGED cleared
    BY <1>3 DEF Create
  <2> QED BY <2>1, CommandKeeps DEF ClearedOK
<1>4. CASE DoctorParams
  <2>1. /\ UNCHANGED <<minStake, rate, balance, cleared>>
        /\ \/ \E c : Return(c)
           \/ /\ oPc' = "doctorBalance" /\ seen' = [min |-> minStake, rate |-> rate]
              /\ UNCHANGED flags
    BY <1>4 DEF DoctorParams, netVars, Diagnosed
  <2>2. flags' \in Flags /\ SeenOK' /\ ShownOK'
    BY <2>1, ReturnKeeps DEF SeenOK, ShownOK, ChainOK
  <2> QED BY <2>1, <2>2 DEF ChainOK, ClearedOK
<1>5. CASE DoctorBalance
  <2>1. /\ UNCHANGED <<minStake, rate, balance>> /\ \E c : Return(c)
        /\ \/ cleared' = Undefined
           \/ /\ balance >= Required(seen.min) /\ oPc = "doctorBalance"
              /\ cleared' = [min |-> seen.min, balance |-> balance]
    BY <1>5 DEF DoctorBalance, netVars, Diagnosed
  <2>2. ClearedOK'
    BY <2>1 DEF ClearedOK, SeenOK, ChainOK, Required
  <2> QED BY <2>1, <2>2, ReturnKeeps DEF ChainOK
<1>6. CASE DoctorParamsFail \/ DoctorBalanceFail \/ Rejected \/ CreateParamsFail
  <2>1. UNCHANGED <<minStake, rate, balance, cleared>> /\ \E c : Return(c)
    BY <1>6 DEF DoctorParamsFail, DoctorBalanceFail, Rejected, CreateParamsFail, netVars, Diagnosed
  <2> QED BY <2>1, ReturnKeeps DEF ChainOK, ClearedOK
<1>7. CASE CreateParams
  <2>1. UNCHANGED <<minStake, rate, balance, cleared>>
    BY <1>7 DEF CreateParams, netVars
  <2>2. CASE \E c : Return(c)
    BY <2>1, <2>2, ReturnKeeps DEF ChainOK, ClearedOK
  <2>3. CASE ~\E c : Return(c)
    <3>1. /\ oPc' = "confirm" /\ StakeOf(flags, minStake) # NotANumber
          /\ seen' = [min |-> minStake, rate |-> rate] /\ UNCHANGED flags
          /\ shown' = estimateCreationCost(StakeOf(flags, minStake), rate)
      BY <1>7, <2>3 DEF CreateParams, StakeOf
    <3>2. StakeOf(flags, minStake) \in Nat
      <4>1. flags.stake \in {Undefined, NotANumber} \cup 0 .. MaxBalance
        BY DEF Flags
      <4> QED BY <3>1, <4>1, SetupAssumption DEF StakeOf, ChainOK
    <3> QED BY <2>1, <3>1, <3>2
            DEF ChainOK, ClearedOK, SeenOK, ShownOK, estimateCreationCost
  <2> QED BY <2>2, <2>3
<1>8. CASE Confirm
  <2>1. UNCHANGED <<minStake, rate, balance, cleared>>
    BY <1>8 DEF Confirm, netVars
  <2>2. CASE \E c : Return(c)
    BY <2>1, <2>2, ReturnKeeps DEF ChainOK, ClearedOK
  <2>3. CASE oPc = "confirm" /\ UNCHANGED <<flags, seen, shown>>
    BY <2>1, <2>3 DEF ChainOK, ClearedOK, SeenOK, ShownOK
  <2> QED BY <1>8, <2>2, <2>3 DEF Confirm
<1>9. CASE SendCreate
  <2>1. UNCHANGED <<minStake, rate, cleared>> /\ \E c : Return(c)
    BY <1>9 DEF SendCreate
  <2>2. balance' \in Nat
    <3> DEFINE msg == toCreateMsg(builderFromFlags(flags), shown.stake)
               answer == CreateRefused(msg.rollupId, msg.stakeAmount)
    <3>1. msg.stakeAmount = shown.stake /\ shown.stake \in Nat
      BY <1>9, ConfigAssumption DEF SendCreate, ShownOK, toCreateMsg
    <3>2. CASE answer = "none"
      <4>1. balance' = balance - msg.stakeAmount - Fee
        BY <1>9, <3>2 DEF SendCreate
      <4>2. ~(balance < msg.stakeAmount + Fee)
        BY <3>2 DEF CreateRefused
      <4> QED BY <3>1, <4>1, <4>2, SetupAssumption DEF ChainOK
    <3>3. CASE answer # "none"
      <4>1. balance' \in {balance} \cup (IF balance < Fee THEN {} ELSE {balance - Fee})
        BY <1>9, <3>3 DEF SendCreate
      <4> QED BY <4>1, SetupAssumption DEF ChainOK
    <3> QED BY <3>2, <3>3
  <2> QED BY <2>1, <2>2, ReturnKeeps DEF ChainOK, ClearedOK
<1>10. CASE UNCHANGED setupVars
  BY <1>10 DEF setupVars, netVars, commandVars, ChainOK, ClearedOK, SeenOK, ShownOK
<1> QED BY <1>1, <1>2, <1>3, <1>4, <1>5, <1>6, <1>7, <1>8, <1>9, <1>10 DEF SetupNext

\* What a command read, showed or cleared is what the chain had then, in every
\* behaviour of doctor, create and the others.
THEOREM SetupInvariant == SetupSpec => []SetupInv
  BY SetupInvInit, SetupInvStep, PTL DEF SetupSpec

\* Rounding down has one result, and the client's division computes it.
LEMMA FloorIsDivision ==
  ASSUME NEW x \in Nat, NEW k \in Nat \ {0}
  PROVE  (CHOOSE b \in 0 .. x : b * k <= x /\ (b + 1) * k > x) = x \div k
<1> DEFINE P(b) == b * k <= x /\ (b + 1) * k > x
           d == x \div k
<1>1. d \in Nat /\ P(d)
  OBVIOUS
<1>2. d \in 0 .. x
  <2>1. d * k >= d
    BY <1>1
  <2> QED BY <1>1, <2>1
<1>3. ASSUME NEW b \in Nat, NEW c \in Nat, b * k <= x, (c + 1) * k > x
      PROVE  b <= c
  <2> SUFFICES ASSUME b >= c + 1
               PROVE  FALSE
    OBVIOUS
  <2>1. b * k >= (c + 1) * k
    OBVIOUS
  <2> QED BY <1>3, <2>1
<1>4. ASSUME NEW b \in 0 .. x, P(b)
      PROVE  b = d
  BY <1>1, <1>3, <1>4
<1> HIDE DEF P, d
<1>5. (CHOOSE b \in 0 .. x : P(b)) = d
  BY <1>1, <1>2, <1>4
<1> QED BY <1>5 DEF P, d

\* The transaction create sends: the id of the flags and the stake that was
\* shown; the chain's answer is the command's.
LEMMA SentAsShown ==
  ASSUME SetupInv, SendCreate
  PROVE  /\ shown.stake \in Nat /\ seen.min \in Nat /\ seen.rate \in Rates
         /\ shown = estimateCreationCost(StakeOf(flags, seen.min), seen.rate)
         /\ refused' = CreateRefused(flags.rollupId, shown.stake)
         /\ refused' = "none" => /\ created'.rollupId = flags.rollupId
                                 /\ created'.stake = shown.stake
                                 /\ created'.burn = ChainBurn(shown.stake)
<1> DEFINE msg == toCreateMsg(builderFromFlags(flags), shown.stake)
           answer == CreateRefused(msg.rollupId, msg.stakeAmount)
<1>1. /\ shown.stake \in Nat /\ seen.min \in Nat /\ seen.rate \in Rates
      /\ shown = estimateCreationCost(StakeOf(flags, seen.min), seen.rate)
  BY DEF SetupInv, ShownOK, SeenOK, SendCreate
<1>2. builderFromFlags(flags).rollupId = flags.rollupId
  BY DEF builderFromFlags, makePreset, Merged, DefaultConfig
<1>3. msg.rollupId = flags.rollupId /\ msg.stakeAmount = shown.stake
  BY <1>1, <1>2, ConfigAssumption DEF toCreateMsg
<1>4. refused' = answer
  BY DEF SendCreate
<1>5. answer = "none" =>
        created' = [rollupId |-> msg.rollupId, profile |-> msg.profile,
                    stake |-> msg.stakeAmount, burn |-> ChainBurn(msg.stakeAmount)]
  BY DEF SendCreate
<1> QED BY <1>1, <1>3, <1>4, <1>5

\* After doctor's "ok", a creation with the minimum stake lacks the money only if
\* money went or the minimum rose since.
THEOREM DoctorTold == SetupSpec => DoctorClearsCreate
<1>1. SetupInv /\ SendCreate /\ flags.stake = Undefined =>
        /\ refused' = "funds" /\ cleared # Undefined =>
             balance < cleared.balance \/ seen.min > cleared.min
        /\ refused' = "stake" => minStake > seen.min
  <2> SUFFICES ASSUME SetupInv, SendCreate, flags.stake = Undefined
               PROVE  /\ refused' = "funds" /\ cleared # Undefined =>
                           balance < cleared.balance \/ seen.min > cleared.min
                      /\ refused' = "stake" => minStake > seen.min
    OBVIOUS
  <2>1. /\ shown.stake = seen.min /\ seen.min \in Nat
        /\ refused' = CreateRefused(flags.rollupId, shown.stake)
    BY SentAsShown DEF StakeOf, estimateCreationCost
  <2>2. refused' = "stake" => minStake > seen.min
    BY <2>1 DEF CreateRefused, SetupInv, ChainOK
  <2>3. refused' = "funds" => balance < seen.min + Fee
    BY <2>1 DEF CreateRefused
  <2>4. ASSUME refused' = "funds", cleared # Undefined
        PROVE  balance < cleared.balance \/ seen.min > cleared.min
    BY <2>1, <2>3, <2>4, SetupAssumption DEF SetupInv, ChainOK, ClearedOK
  <2> QED BY <2>2, <2>4
<1>2. SetupInv /\ [SetupNext]_setupVars =>
        [SendCreate /\ flags.stake = Undefined =>
           /\ refused' = "funds" /\ cleared # Undefined =>
                balance < cleared.balance \/ seen.min > cleared.min
           /\ refused' = "stake" => minStake > seen.min]_setupVars
  BY <1>1
<1> QED BY <1>2, SetupInvariant, PTL DEF SetupSpec, DoctorClearsCreate

\* The rollup gets the stake that was shown and burns what was shown, unless the
\* rate moved in between: the client's rounding is the chain's, for all rates.
THEOREM BurnConfirmed == SetupSpec => BurnAsConfirmed
<1>1. SetupInv /\ SendCreate /\ refused' = "none" =>
        /\ created'.rollupId = flags.rollupId /\ created'.stake = shown.stake
        /\ created'.burn = shown.burn \/ rate # seen.rate
  <2> SUFFICES ASSUME SetupInv, SendCreate, refused' = "none", rate = seen.rate
               PROVE  created'.burn = shown.burn
    BY SentAsShown
  <2>1. /\ created'.burn = ChainBurn(shown.stake) /\ shown.stake \in Nat /\ rate \in Rates
        /\ shown.burn = mulDecimalFloor(shown.stake, rate)
    BY SentAsShown DEF estimateCreationCost
  <2>2. rate.numerator \in Nat /\ rate.scale \in Nat \ {0}
    BY <2>1, SetupAssumption
  <2>3. shown.stake * rate.numerator \in Nat
    BY <2>1, <2>2
  <2> QED BY <2>1, <2>2, <2>3, FloorIsDivision DEF ChainBurn, mulDecimalFloor
<1>2. SetupInv /\ [SetupNext]_setupVars =>
        [SendCreate /\ refused' = "none" =>
           /\ created'.rollupId = flags.rollupId /\ created'.stake = shown.stake
           /\ created'.burn = shown.burn \/ rate # seen.rate]_setupVars
  BY <1>1
<1> QED BY <1>2, SetupInvariant, PTL DEF SetupSpec, BurnAsConfirmed

(***************************************************************************)
(* The scaffolder: no run of it writes over a file of the user's, for      *)
(* every registry, every template and any number of runs broken off        *)
(* anywhere.  The check of the target is one step, the writes are later    *)
(* ones; what carries the check to them is that a run that has passed it   *)
(* works in a directory without a file of the user's, up to the            *)
(* installation, which writes to a directory of its own.                   *)
(***************************************************************************)

\* A file of the user's is only that.
Files(d) ==
  /\ d = [p \in Paths |-> d[p]]
  /\ \A p \in Paths : d[p].by = "user" => d[p] = [by |-> "user"]

\* A directory that is not there has nothing in it.
MissingIsEmpty == ~exists => isEmptyOrMissing

\* While it writes, a run has its directory and meets none of the user's files.
WritesInTheOpen ==
  /\ sPc \in {"copy", "package", "env", "install"} => exists
  /\ sPc \in {"copy", "package", "env"} => \A p \in Paths : disk[p].by # "user"
  /\ sPc = "install" => disk["node_modules"].by # "user"

KeepInv ==
  /\ Files(disk)
  /\ MissingIsEmpty
  /\ WritesInTheOpen

\* Named files are among the paths, and what nobody wrote is not the user's.
LEMMA PathFacts ==
  /\ {"package.json", ".env.example", ".env", "node_modules"} \subseteq Paths
  /\ Nothing.by # "user"
<1>1. {"package.json", ".env.example", ".env", "node_modules"} \subseteq Paths
  BY DEF Paths
<1> QED BY <1>1 DEF Nothing

\* A file written in the target leaves the others as they were.
LEMMA Written ==
  ASSUME NEW d, Files(d), NEW q \in Paths, NEW c,
         c.by = "user" => c = [by |-> "user"]
  PROVE  /\ Files([d EXCEPT ![q] = c])
         /\ \A p \in Paths : [d EXCEPT ![q] = c][p] = IF p = q THEN c ELSE d[p]
<1> DEFINE e == [d EXCEPT ![q] = c]
<1>1. e = [p \in Paths |-> e[p]] /\ \A p \in Paths : e[p] = IF p = q THEN c ELSE d[p]
  BY DEF Files
<1> QED BY <1>1 DEF Files

\* Before the first run the directory is empty.
LEMMA KeepInit == ScaffoldInit => KeepInv
  BY PathFacts
  DEF ScaffoldInit, KeepInv, Files, MissingIsEmpty, WritesInTheOpen, isEmptyOrMissing

\* What a step writes, and what becomes of the directory; nothing else is
\* written.  The user writes only where no run is writing.
LEMMA StepWrites ==
  ASSUME KeepInv, ScaffoldNext
  PROVE  \/ disk' = disk /\ (exists => exists')
         \/ /\ sPc = "idle" /\ sPc' = "idle" /\ disk' = [p \in Paths |-> Nothing]
         \/ /\ sPc \in {"idle", "ask", "install"} /\ sPc' = sPc /\ exists'
            /\ \E p \in Paths : /\ sPc = "install" => p # "node_modules"
                               /\ disk' = [disk EXCEPT ![p] = [by |-> "user"]]
         \/ /\ sPc \in {"copy", "package", "env"} /\ exists' = exists
            /\ \E p \in Paths : \E c : c.by # "user" /\ disk' = [disk EXCEPT ![p] = c]
         \/ /\ sPc = "install" /\ sPc' = "idle" /\ exists' = exists
            /\ \E c : c.by # "user" /\ disk' = [disk EXCEPT !["node_modules"] = c]
<1>1. ASSUME NEW p \in Paths, UserWrites(p)
      PROVE  /\ sPc \in {"idle", "ask", "install"} /\ sPc' = sPc /\ exists'
             /\ sPc = "install" => p # "node_modules"
             /\ disk' = [disk EXCEPT ![p] = [by |-> "user"]]
  BY <1>1 DEF UserWrites, UserAlone
<1>2. ASSUME NEW p \in Paths, Copy(p)
      PROVE  /\ sPc = "copy" /\ exists' = exists
             /\ \E c : c.by # "user" /\ disk' = [disk EXCEPT ![p] = c]
  <2> DEFINE c == [by |-> "template", of |-> opts.template]
  <2>1. c.by # "user" /\ disk' = [disk EXCEPT ![p] = c] /\ sPc = "copy" /\ exists' = exists
    BY <1>2 DEF Copy
  <2> HIDE DEF c
  <2> QED BY <2>1
<1>3. CASE Package
  <2> DEFINE c == [by |-> "scaffold", of |-> opts.template, local |-> opts.local]
  <2>1. /\ c.by # "user" /\ sPc = "package" /\ exists' = exists
        /\ disk' = disk \/ disk' = [disk EXCEPT !["package.json"] = c]
    BY <1>3 DEF Package
  <2> HIDE DEF c
  <2> QED BY <2>1, PathFacts
<1>4. CASE Env
  <2> DEFINE c == disk[".env.example"]
  <2>1. /\ sPc = "env" /\ exists' = exists
        /\ disk' = disk \/ disk' = [disk EXCEPT ![".env"] = c]
    BY <1>4 DEF Env
  <2>2. c.by # "user"
    BY <2>1, PathFacts DEF KeepInv, WritesInTheOpen
  <2> HIDE DEF c
  <2> QED BY <2>1, <2>2, PathFacts
<1>5. ASSUME NEW ok \in BOOLEAN, Install(ok)
      PROVE  \/ disk' = disk /\ (exists => exists')
             \/ /\ sPc = "install" /\ sPc' = "idle" /\ exists' = exists
                /\ \E c : c.by # "user" /\ disk' = [disk EXCEPT !["node_modules"] = c]
  <2> DEFINE c == [by |-> "installer", of |-> opts.template]
  <2>1. /\ c.by # "user" /\ sPc = "install" /\ sPc' = "idle" /\ exists' = exists
        /\ disk' = disk \/ disk' = [disk EXCEPT !["node_modules"] = c]
    BY <1>5 DEF Install, InstallEnds, End
  <2> HIDE DEF c
  <2> QED BY <2>1
<1>6. CASE UserRemovesAll
  BY <1>6 DEF UserRemovesAll
<1>7. ASSUME \/ \E o \in Options : Run(o)
             \/ \E prompted \in BOOLEAN : Answer(prompted)
             \/ Target \/ CopyEnds \/ Interrupted
      PROVE  disk' = disk /\ (exists => exists')
  BY <1>7 DEF Run, Answer, Target, CopyEnds, Interrupted
<1> QED
  BY <1>1, <1>2, <1>3, <1>4, <1>5, <1>6, <1>7, Zenon DEF ScaffoldNext

\* Every step of the user and of a run preserves the invariant.
LEMMA KeepStep == KeepInv /\ [ScaffoldNext]_scaffoldVars => KeepInv'
<1>1. ASSUME KeepInv, ScaffoldNext PROVE Files(disk')
  <2>1. Files([p \in Paths |-> Nothing])
    BY PathFacts DEF Files
  <2>2. ASSUME NEW p \in Paths, NEW c, c.by # "user" \/ c = [by |-> "user"]
        PROVE  Files([disk EXCEPT ![p] = c])
    BY <1>1, <2>2, Written DEF KeepInv
  <2> QED BY <1>1, <2>1, <2>2, StepWrites, PathFacts DEF KeepInv
<1>2. ASSUME KeepInv, ScaffoldNext PROVE MissingIsEmpty'
  <2>1. CASE disk' = disk /\ (exists => exists')
    BY <1>2, <2>1 DEF KeepInv, MissingIsEmpty, isEmptyOrMissing
  <2>2. CASE disk' = [p \in Paths |-> Nothing]
    BY <2>2 DEF MissingIsEmpty, isEmptyOrMissing
  <2>3. CASE sPc \in {"copy", "package", "env", "install"} /\ exists' = exists
    BY <1>2, <2>3 DEF KeepInv, WritesInTheOpen, MissingIsEmpty
  <2>4. CASE exists'
    BY <2>4 DEF MissingIsEmpty
  <2> QED BY <1>2, <2>1, <2>2, <2>3, <2>4, StepWrites
<1>3. ASSUME KeepInv, ScaffoldNext PROVE WritesInTheOpen'
  <2> USE <1>3 DEF KeepInv, WritesInTheOpen
  <2>1. ASSUME NEW p \in Paths, UserWrites(p) PROVE WritesInTheOpen'
    <3>1. /\ sPc \in {"idle", "ask", "install"} /\ sPc' = sPc /\ exists' = TRUE
          /\ sPc = "install" => p # "node_modules"
          /\ disk' = [disk EXCEPT ![p] = [by |-> "user"]]
      BY <2>1 DEF UserWrites, UserAlone
    <3> QED BY <3>1, PathFacts, Written
  <2>2. ASSUME NEW p \in Paths, Copy(p) PROVE WritesInTheOpen'
    <3> DEFINE c == [by |-> "template", of |-> opts.template]
    <3>1. /\ sPc = "copy" /\ sPc' = sPc /\ exists' = exists /\ c.by # "user"
          /\ disk' = [disk EXCEPT ![p] = c]
      BY <2>2 DEF Copy
    <3> HIDE DEF c
    <3> QED BY <3>1, Written
  <2>3. CASE Package
    <3> DEFINE c == [by |-> "scaffold", of |-> opts.template, local |-> opts.local]
    <3>1. /\ sPc = "package" /\ sPc' = "env" /\ exists' = exists /\ c.by # "user"
          /\ disk' = disk \/ disk' = [disk EXCEPT !["package.json"] = c]
      BY <2>3 DEF Package
    <3> HIDE DEF c
    <3> QED BY <3>1, PathFacts, Written
  <2>4. CASE Env
    <3> DEFINE c == disk[".env.example"]
    <3>1. /\ sPc = "env" /\ sPc' \in {"install", "idle"} /\ exists' = exists
          /\ disk' = disk \/ disk' = [disk EXCEPT ![".env"] = c]
      BY <2>4 DEF Env, End
    <3>2. c.by # "user"
      BY <3>1, PathFacts
    <3> HIDE DEF c
    <3> QED BY <3>1, <3>2, PathFacts, Written
  <2>5. CASE Target
    BY <2>5, PathFacts DEF Target, TargetFree, isEmptyOrMissing, MissingIsEmpty, End
  <2>6. CASE CopyEnds
    BY <2>6 DEF CopyEnds
  <2>7. ASSUME \/ UserRemovesAll \/ Interrupted
               \/ \E o \in Options : Run(o)
               \/ \E prompted \in BOOLEAN : Answer(prompted)
               \/ \E ok \in BOOLEAN : Install(ok)
        PROVE  sPc' \in {"idle", "ask"} \/ sPc' = "target"
    BY <2>7 DEF UserRemovesAll, Interrupted, Run, Answer, Install, InstallEnds, End
  <2>8. sPc' \in {"idle", "ask"} \/ sPc' = "target" => WritesInTheOpen'
    OBVIOUS
  <2> QED BY <2>1, <2>2, <2>3, <2>4, <2>5, <2>6, <2>7, <2>8, Zenon DEF ScaffoldNext
<1>4. ASSUME KeepInv, UNCHANGED scaffoldVars PROVE KeepInv'
  BY <1>4 DEF KeepInv, Files, MissingIsEmpty, WritesInTheOpen, isEmptyOrMissing, scaffoldVars
<1> QED BY <1>1, <1>2, <1>3, <1>4 DEF KeepInv, Files

\* The invariant holds in every behaviour of the scaffolder.
THEOREM KeepInvariant == ScaffoldSpec => []KeepInv
  BY KeepInit, KeepStep, PTL DEF ScaffoldSpec

\* "Target directory is not empty" protects the user's files: no step of a run
\* changes one, in every behaviour.
THEOREM FilesKept == ScaffoldSpec => UserFilesKept
<1> DEFINE Kept == sPc # "idle" => \A p \in Paths : disk[p].by = "user" => disk'[p] = disk[p]
<1>1. KeepInv /\ ScaffoldNext => Kept
  <2> SUFFICES ASSUME KeepInv, ScaffoldNext, sPc # "idle",
                      NEW p \in Paths, disk[p].by = "user"
               PROVE  disk'[p] = disk[p]
    OBVIOUS
  <2>1. disk[p] = [by |-> "user"]
    BY DEF KeepInv, Files
  <2>2. ASSUME NEW q \in Paths, disk' = [disk EXCEPT ![q] = [by |-> "user"]]
        PROVE  disk'[p] = disk[p]
    BY <2>1, <2>2 DEF KeepInv, Files
  <2>3. ASSUME NEW c, sPc = "install", disk' = [disk EXCEPT !["node_modules"] = c]
        PROVE  disk'[p] = disk[p]
    <3>1. p # "node_modules"
      BY <2>3 DEF KeepInv, WritesInTheOpen
    <3> QED BY <2>3, <3>1 DEF KeepInv, Files
  <2>4. ~(sPc \in {"copy", "package", "env"})
    BY DEF KeepInv, WritesInTheOpen
  <2> QED BY <2>2, <2>3, <2>4, StepWrites
<1> QED BY <1>1, KeepInvariant, PTL DEF ScaffoldSpec, UserFilesKept

(***************************************************************************)
(* A run that reports success leaves a whole project.  Earlier runs may    *)
(* have left parts of other templates anywhere; the run that passed the    *)
(* check of the target found none of them, and from then on every file in  *)
(* the directory is of its own template, or of the user's making while the *)
(* packages are installed.                                                 *)
(***************************************************************************)

\* The steps of a run that has passed the check of its target.
Working == {"copy", "package", "env", "install"}

\* What a run at step pc, with options o and the files l still to copy, may have
\* at path p: content c, which is not the user's.
Part(p, c, pc, o, l) ==
  /\ c = Nothing \/ (c.by # "nobody" /\ c.of = o.template)
  /\ p \in FilesOf(o.template) \ Skipped => c # Nothing \/ p \in l
  /\ p = "node_modules" => c = Nothing
  /\ p = "package.json" /\ pc \in {"env", "install"} => c.by = "scaffold" /\ c.local = o.local
  /\ p = ".env" /\ ".env.example" \in FilesOf(o.template) /\ pc = "install" => c # Nothing

\* The directory is this run's work, as far as it has come.
WorkInv ==
  sPc \in Working =>
    /\ opts.template \in Shipped
    /\ left \subseteq FilesOf(opts.template) \ Skipped
    /\ sPc # "copy" => left = {}
    /\ sPc = "install" => opts.install
    /\ \A p \in Paths : disk[p].by # "user" => Part(p, disk[p], sPc, opts, left)

\* What somebody wrote is something.
LEMMA WrittenIsSomething == ASSUME NEW c, c.by # "nobody" PROVE c # Nothing
  BY DEF Nothing

\* A step of the user while packages are installed leaves the run's work alone.
LEMMA WorkUser ==
  ASSUME KeepInv, WorkInv, NEW p \in Paths, UserWrites(p)
  PROVE  WorkInv'
<1>1. /\ sPc \in {"idle", "ask", "install"} /\ sPc' = sPc /\ opts' = opts /\ left' = left
      /\ disk' = [disk EXCEPT ![p] = [by |-> "user"]]
  BY DEF UserWrites, UserAlone
<1>2. \A q \in Paths : disk'[q] = IF q = p THEN [by |-> "user"] ELSE disk[q]
  BY <1>1, Written DEF KeepInv
<1>3. \A q \in Paths : disk'[q].by # "user" => disk'[q] = disk[q]
  BY <1>2
<1> QED BY <1>1, <1>3, Zenon DEF WorkInv

\* A file copied is one of those left, so never node_modules.
LEMMA WorkCopy ==
  ASSUME KeepInv, WorkInv, NEW p \in Paths, Copy(p)
  PROVE  WorkInv'
<1> DEFINE c == [by |-> "template", of |-> opts.template]
<1>1. /\ sPc = "copy" /\ sPc' = "copy" /\ opts' = opts /\ left' = left \ {p} /\ p \in left
      /\ disk' = [disk EXCEPT ![p] = c]
  BY DEF Copy
<1>2. c.by = "template" /\ c.of = opts.template
  OBVIOUS
<1> HIDE DEF c
<1>3. \A q \in Paths : disk'[q] = IF q = p THEN c ELSE disk[q]
  BY <1>1, <1>2, Written DEF KeepInv
<1>4. c # Nothing
  BY <1>2, WrittenIsSomething
<1>5. p \in FilesOf(opts.template) \ Skipped
  BY <1>1 DEF WorkInv, Working
<1>6. Part(p, c, "copy", opts, left')
  BY <1>2, <1>4, <1>5 DEF Part, Skipped
<1>7. ASSUME NEW q \in Paths, q # p, disk[q].by # "user"
      PROVE  Part(q, disk[q], "copy", opts, left')
  BY <1>1, <1>7 DEF WorkInv, Working, Part
<1>8. \A q \in Paths : disk'[q].by # "user" => Part(q, disk'[q], "copy", opts, left')
  BY <1>3, <1>6, <1>7, Zenon
<1> QED BY <1>1, <1>8 DEF WorkInv, Working

\* Every template has a package.json, so the name is written.
LEMMA WorkPackage ==
  ASSUME KeepInv, WorkInv, Package
  PROVE  WorkInv'
<1> DEFINE c == [by |-> "scaffold", of |-> opts.template, local |-> opts.local]
<1>1. /\ sPc = "package" /\ sPc' = "env" /\ opts' = opts /\ left' = left
      /\ disk["package.json"] # Nothing => disk' = [disk EXCEPT !["package.json"] = c]
  BY DEF Package
<1>2. c.by = "scaffold" /\ c.of = opts.template /\ c.local = opts.local
  OBVIOUS
<1> HIDE DEF c
<1>3. disk["package.json"].by # "user"
  BY <1>1, PathFacts DEF KeepInv, WritesInTheOpen
<1>4. "package.json" \in FilesOf(opts.template) \ Skipped /\ left = {}
  BY <1>1, ScaffoldAssumption DEF WorkInv, Working, Skipped
<1>5. disk["package.json"] # Nothing
  BY <1>1, <1>3, <1>4, PathFacts DEF WorkInv, Working, Part
<1>6. \A q \in Paths : disk'[q] = IF q = "package.json" THEN c ELSE disk[q]
  <2>1. disk' = [disk EXCEPT !["package.json"] = c] /\ "package.json" \in Paths
    BY <1>1, <1>5, PathFacts
  <2>2. c.by # "user"
    BY <1>2
  <2> QED BY <2>1, <2>2, Written DEF KeepInv
<1>7. c # Nothing
  BY <1>2, WrittenIsSomething
<1>8. Part("package.json", c, "env", opts, left)
  BY <1>2, <1>7 DEF Part
<1>9. ASSUME NEW q \in Paths, q # "package.json", disk[q].by # "user"
      PROVE  Part(q, disk[q], "env", opts, left)
  BY <1>1, <1>9 DEF WorkInv, Working, Part
<1>10. \A q \in Paths : disk'[q].by # "user" => Part(q, disk'[q], "env", opts, left)
  BY <1>6, <1>8, <1>9, Zenon
<1> QED BY <1>1, <1>10 DEF WorkInv, Working

\* .env is made where the template has an example: what the directory then holds
\* is what an installation starts from, whether or not there is to be one.
LEMMA WorkEnv ==
  ASSUME KeepInv, WorkInv, Env
  PROVE  \A q \in Paths : disk'[q].by # "user" => Part(q, disk'[q], "install", opts, left)
<1> DEFINE c == disk[".env.example"]
<1>1. /\ sPc = "env"
      /\ disk' = IF c # Nothing /\ disk[".env"] = Nothing
                 THEN [disk EXCEPT ![".env"] = c] ELSE disk
  BY DEF Env
<1>2. c.by # "user" /\ disk[".env"].by # "user"
  BY <1>1, PathFacts DEF KeepInv, WritesInTheOpen
<1>3. Part(".env.example", c, "env", opts, left) /\ left = {}
  BY <1>1, <1>2, PathFacts DEF WorkInv, Working
<1>4. ".env.example" \in FilesOf(opts.template) => c # Nothing
  BY <1>3 DEF Part, Skipped
<1>5. c # Nothing => c.of = opts.template /\ c.by # "nobody"
  BY <1>3 DEF Part
<1> HIDE DEF c
<1>6. ASSUME NEW q \in Paths, q # ".env", disk[q].by # "user"
      PROVE  Part(q, disk[q], "install", opts, left)
  BY <1>1, <1>6 DEF WorkInv, Working, Part
<1>7. CASE c # Nothing /\ disk[".env"] = Nothing
  <2>1. \A q \in Paths : disk'[q] = IF q = ".env" THEN c ELSE disk[q]
    BY <1>1, <1>2, <1>7, PathFacts, Written DEF KeepInv
  <2>2. Part(".env", c, "install", opts, left)
    BY <1>5, <1>7 DEF Part
  <2> QED BY <1>6, <2>1, <2>2, Zenon
<1>8. CASE ~(c # Nothing /\ disk[".env"] = Nothing)
  <2>1. disk' = disk
    BY <1>1, <1>8
  <2>2. Part(".env", disk[".env"], "env", opts, left)
    BY <1>1, <1>2, PathFacts DEF WorkInv, Working
  <2>3. Part(".env", disk[".env"], "install", opts, left)
    BY <1>4, <1>8, <2>2 DEF Part
  <2> QED BY <1>6, <2>1, <2>3, Zenon
<1> QED BY <1>7, <1>8

\* A run starts to write in an empty directory.
LEMMA WorkTarget ==
  ASSUME KeepInv, Target
  PROVE  WorkInv'
<1>1. CASE sPc' \notin Working
  BY <1>1 DEF WorkInv
<1>2. CASE sPc' \in Working
  <2>1. /\ sPc' = "copy" /\ opts' = opts /\ disk' = disk /\ TargetFree
        /\ opts.template \in Shipped /\ left' = FilesOf(opts.template) \ Skipped
    BY <1>2 DEF Target, End, Working
  <2>2. \A q \in Paths : disk[q] = Nothing
    BY <2>1 DEF KeepInv, MissingIsEmpty, TargetFree, isEmptyOrMissing
  <2>3. \A q \in Paths : Part(q, disk[q], "copy", opts, left')
    BY <2>1, <2>2 DEF Part
  <2> QED BY <2>1, <2>3 DEF WorkInv
<1> QED BY <1>1, <1>2

\* Every step preserves it.
LEMMA WorkStep == KeepInv /\ WorkInv /\ [ScaffoldNext]_scaffoldVars => WorkInv'
<1> SUFFICES ASSUME KeepInv, WorkInv, [ScaffoldNext]_scaffoldVars PROVE WorkInv'
  OBVIOUS
<1>1. CASE Env
  <2>1. /\ sPc = "env" /\ sPc' \in {"install", "idle"}
        /\ sPc' = "install" => opts.install /\ opts' = opts /\ left' = left
    BY <1>1 DEF Env, End
  <2>2. left = {} /\ opts.template \in Shipped
    BY <2>1 DEF WorkInv, Working
  <2>3. \A q \in Paths : disk'[q].by # "user" => Part(q, disk'[q], "install", opts, left)
    BY <1>1, WorkEnv
  <2>4. CASE sPc' = "install"
    BY <2>1, <2>2, <2>3, <2>4 DEF WorkInv
  <2>5. CASE sPc' = "idle"
    BY <2>5 DEF WorkInv, Working
  <2> QED BY <2>1, <2>4, <2>5
<1>2. CASE CopyEnds
  <2>1. /\ sPc = "copy" /\ sPc' = "package" /\ left = {} /\ left' = left
        /\ opts' = opts /\ disk' = disk
    BY <1>2 DEF CopyEnds
  <2>2. \A q \in Paths : disk[q].by # "user" => Part(q, disk[q], "package", opts, left)
    BY <2>1 DEF WorkInv, Working, Part
  <2> QED BY <2>1, <2>2 DEF WorkInv, Working
<1>3. ASSUME \/ UserRemovesAll \/ Interrupted
             \/ \E o \in Options : Run(o)
             \/ \E prompted \in BOOLEAN : Answer(prompted)
             \/ \E ok \in BOOLEAN : Install(ok)
      PROVE  sPc' \notin Working
  BY <1>3 DEF UserRemovesAll, Interrupted, Run, Answer, Install, InstallEnds, End, Working
<1>4. sPc' \notin Working => WorkInv'
  BY DEF WorkInv
<1>5. CASE UNCHANGED scaffoldVars
  BY <1>5 DEF scaffoldVars, WorkInv
<1> QED
  BY <1>1, <1>2, <1>3, <1>4, <1>5, WorkUser, WorkCopy, WorkPackage, WorkTarget, Zenon
  DEF ScaffoldNext

\* The directory is the run's own work, in every behaviour.
THEOREM WorkInvariant == ScaffoldSpec => [](KeepInv /\ WorkInv)
<1>1. ScaffoldInit => WorkInv
  BY DEF ScaffoldInit, WorkInv, Working
<1> QED BY <1>1, KeepInit, KeepStep, WorkStep, PTL DEF ScaffoldSpec

\* "Done! Created": what the run leaves is its template's project, all of it, in
\* every behaviour.
THEOREM DoneComplete == ScaffoldSpec => DoneMeansComplete
<1> DEFINE Complete ==
      \A p \in Paths : disk'[p].by # "user" =>
        /\ p \in FilesOf(opts.template) \ Skipped => disk'[p] # Nothing
        /\ disk'[p] # Nothing => disk'[p].of = opts.template
        /\ p = "package.json" => disk'[p].by = "scaffold" /\ disk'[p].local = opts.local
        /\ p = ".env" /\ ".env.example" \in FilesOf(opts.template) => disk'[p] # Nothing
        /\ p = "node_modules" => (disk'[p] # Nothing <=> opts.install)
<1>1. ASSUME KeepInv, WorkInv, Env, ended' = "done", ended # "done" PROVE Complete
  <2>1. sPc = "env" /\ ~opts.install
    BY <1>1 DEF Env
  <2>2. left = {}
    BY <1>1, <2>1 DEF WorkInv, Working
  <2>3. \A q \in Paths : disk'[q].by # "user" => Part(q, disk'[q], "install", opts, left)
    BY <1>1, WorkEnv
  <2> QED BY <2>1, <2>2, <2>3 DEF Part
<1>2. ASSUME KeepInv, WorkInv, NEW ok \in BOOLEAN, Install(ok), ended' = "done" PROVE Complete
  <2> DEFINE c == [by |-> "installer", of |-> opts.template]
  <2>1. sPc = "install" /\ disk' = [disk EXCEPT !["node_modules"] = c]
    BY <1>2 DEF Install, InstallEnds, End
  <2>2. c.by = "installer" /\ c.of = opts.template
    OBVIOUS
  <2> HIDE DEF c
  <2>3. \A q \in Paths : disk'[q] = IF q = "node_modules" THEN c ELSE disk[q]
    BY <1>2, <2>1, <2>2, PathFacts, Written DEF KeepInv
  <2>4. c # Nothing
    BY <2>2, WrittenIsSomething
  <2>5. opts.install /\ left = {}
    BY <1>2, <2>1 DEF WorkInv, Working
  <2>6. \A q \in Paths : disk[q].by # "user" => Part(q, disk[q], "install", opts, left)
    BY <1>2, <2>1 DEF WorkInv, Working
  <2>7. "node_modules" \notin FilesOf(opts.template) \ Skipped
    BY DEF Skipped
  <2>8. ASSUME NEW p \in Paths, p # "node_modules", disk[p].by # "user"
        PROVE  /\ p \in FilesOf(opts.template) \ Skipped => disk[p] # Nothing
               /\ disk[p] # Nothing => disk[p].of = opts.template
               /\ p = "package.json" => disk[p].by = "scaffold" /\ disk[p].local = opts.local
               /\ p = ".env" /\ ".env.example" \in FilesOf(opts.template) => disk[p] # Nothing
    BY <2>5, <2>6, <2>8 DEF Part
  <2> QED BY <2>2, <2>3, <2>4, <2>5, <2>7, <2>8
<1>3. ASSUME ScaffoldNext, ended' = "done", ended # "done"
      PROVE  Env \/ \E ok \in BOOLEAN : Install(ok)
  BY <1>3
  DEF ScaffoldNext, UserWrites, Copy, UserRemovesAll, Run, Answer, Target, CopyEnds, Package,
      Interrupted, End
<1>4. KeepInv /\ WorkInv /\ [ScaffoldNext]_scaffoldVars =>
        [ended' = "done" /\ ended # "done" => Complete]_scaffoldVars
  BY <1>1, <1>2, <1>3, Zenon
<1> QED BY <1>4, WorkInvariant, PTL DEF ScaffoldSpec, DoneMeansComplete

=============================================================================
