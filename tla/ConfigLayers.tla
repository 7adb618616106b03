---------------------------- MODULE ConfigLayers ----------------------------
(***************************************************************************)
(* config/: a configuration is resolved from four layers, the defaults and *)
(* the overrides of a cloud, an environment and a region, each a tree of   *)
(* maps.  MergeConfiguration lays one over the other; GetRegionConfigu-    *)
(* ration, GetConfiguration and GetRegionOverrides each walk the layers by *)
(* themselves, and ValueProvenance tells for a path which layer said what. *)
(* MergeRawConfigurationFiles lays whole files over each other, before any *)
(* templating, and keeps the reference to their schema pointing at it.     *)
(*                                                                         *)
(* A map is [kind |-> "map", at |-> a function from keys], anything else,  *)
(* null and lists included, is [kind |-> "value", val |-> what it is].     *)
(* Files and templates are taken after parsing and templating.             *)
(***************************************************************************)
EXTENDS SchemaPaths, FiniteSets

CONSTANTS
  Overrides,   \* what a configuration file holds: [defaults, cloud, env, region]
  Paths,       \* sequences of keys that are asked for
  Inputs       \* sequences of files to be merged: [dir, schema, config]

VARIABLES
  overrides,   \* configurationOverrides, for the cloud and environment asked for
  level,       \* how many layers are merged; 4 when the answer is there
  cfg,         \* the configuration so far
  merged       \* rawMerged

configVars == <<overrides, level, cfg, files, target, reached, schema, merged>>

Map(f)   == [kind |-> "map", at |-> f]
Value(v) == [kind |-> "value", val |-> v]
IsMap(x) == x.kind = "map"
Empty    == Map([k \in {} |-> {}])
Absent   == [kind |-> "absent"]    \* a layer that is not there
Missing  == [kind |-> "missing"]   \* MissingKeyError
NotAMap  == [kind |-> "error"]     \* any other error

-----------------------------------------------------------------------------
(* types/configuration.go *)

RECURSIVE MergeConfiguration(_, _)
MergeConfiguration(base, override) ==
  LET b == base.at  o == override.at
  IN  Map([k \in DOMAIN b \cup DOMAIN o |->
             IF k \notin DOMAIN o THEN b[k]
             ELSE IF k \in DOMAIN b /\ IsMap(b[k]) /\ IsMap(o[k])
                  THEN MergeConfiguration(b[k], o[k])
             ELSE o[k]])

Merge(base, override) == MergeConfiguration(base, override)

\* One key after the other; what was reached may be no map, or lack the key.
GetByPath(config, keys) ==
  FoldLeft(LAMBDA at, key : IF at.kind \in {"missing", "error"} THEN at
                            ELSE IF ~IsMap(at) THEN NotAMap
                            ELSE IF key \notin DOMAIN at.at THEN Missing
                            ELSE at.at[key],
           config, keys)

RECURSIVE TruncateFrom(_, _, _)
TruncateFrom(current, paths, here) ==
  LET kept == {k \in DOMAIN current.at : Append(here, k) \notin paths}
  IN  Map([k \in kept |->
             IF IsMap(current.at[k])
             THEN TruncateFrom(current.at[k], paths, Append(here, k))
             ELSE current.at[k]])

TruncateConfiguration(config, paths) == TruncateFrom(config, paths, << >>)

-----------------------------------------------------------------------------
(* config.go: the layers.  A region that is not there has no overrides; a   *)
(* cloud or environment that is not there is an error.                      *)

Layers == <<overrides.defaults, overrides.cloud, overrides.env,
            IF overrides.region = Absent THEN Empty ELSE overrides.region>>

HasContext == overrides.cloud # Absent /\ overrides.env # Absent

\* GetRegionConfiguration, a layer at a time.
MergeLayer ==
  /\ HasContext /\ level < 4
  /\ level' = level + 1
  /\ cfg' = IF level = 0 THEN Layers[1] ELSE Merge(cfg, Layers[level + 1])
  /\ UNCHANGED <<overrides, files, target, reached, schema, merged>>

GetConfiguration == Merge(Merge(overrides.defaults, overrides.cloud), overrides.env)

GetRegionOverrides == Layers[4]

\* Mutant: the region is looked at before the environment.
SourcesSwapped == <<Layers[1], Layers[2], Layers[4], Layers[3], cfg>>

\* Where ValueProvenance looks: the layers in their order, and the result.
Sources == Append(Layers, cfg)

\* An error that is not of a missing key ends it, whichever source has it.
ValueProvenance(keys) ==
  LET found == [i \in 1 .. 5 |-> GetByPath(Sources[i], keys)]
  IN  IF \E i \in 1 .. 5 : found[i] = NotAMap THEN NotAMap
      ELSE [kind |-> "provenance", of |-> found]

-----------------------------------------------------------------------------
(* MergeRawConfigurationFiles, beside what SchemaPaths has of it *)

\* Only a $schema that is not blank is written over what the files say.
MergeFile ==
  /\ NextSchema
  /\ LET f == files[reached + 1]
         keys == IF f.schema = NoSchema THEN {} ELSE {"$schema"}
         said == Map([k \in keys |-> f.schema] @@ f.config.at)
         all  == Merge(merged, said)
     IN  merged' = IF reached' = Len(files) /\ schema' \notin {NoSchema, Blank}
                   THEN Map([all.at EXCEPT !["$schema"] = schema'])
                   ELSE all
  /\ UNCHANGED <<overrides, level, cfg>>

-----------------------------------------------------------------------------
\* Nothing that is resolved from the layers meets what is merged from files:
\* a process does one or the other.
ConfigInit ==
  /\ level = 0 /\ cfg = Empty /\ reached = 0 /\ schema = NoSchema /\ merged = Empty
  /\ \/ /\ overrides \in Overrides /\ files = << >> /\ target = << >>
     \/ /\ \E i \in Inputs : files = i.files /\ target = i.target
        /\ overrides = [defaults |-> Empty, cloud |-> Absent, env |-> Absent,
                        region |-> Absent]

ConfigNext == MergeLayer \/ MergeFile

Resolved == level = 4

-----------------------------------------------------------------------------
(* What it should be, path by path *)

\* A tree as the paths that are there; a layer that is absent says nothing.
PathsOf(config) ==
  LET at(p) == GetByPath(config, p)
      there == {p \in Paths : at(p).kind \in {"map", "value"}}
  IN  [p \in {<< >>} \cup there |->
         IF p = << >> \/ IsMap(at(p)) THEN [kind |-> "map"] ELSE at(p)]

ByPath == INSTANCE ConfigPaths
            WITH Paths <- Paths \cup {<< >>}, MapHere <- [kind |-> "map"],
                 layers <- [i \in 1 .. 4 |-> PathsOf(Layers[i])],
                 cfg <- PathsOf(cfg)

(***************************************************************************)
(* The recursion over trees is, path by path, the Overlay of ConfigPaths:  *)
(* with it a layer's step is a step there.                                 *)
(***************************************************************************)
MergesByPath ==
  HasContext /\ level < 4 =>
    LET before == PathsOf(cfg)  layer == PathsOf(Layers[level + 1])
    IN  PathsOf(Merge(cfg, Layers[level + 1])) = ByPath!Overlay(before, layer)

(***************************************************************************)
(* So, in the end, a later layer has won, what it did not mention has sur- *)
(* vived, and nothing that was replaced has come back.                     *)
(***************************************************************************)
LastLayerWins == Resolved => ByPath!LayersInv

(***************************************************************************)
(* A provenance that is given accounts for the result: it is set if and    *)
(* only if some layer sets it, and a value is that of the last layer that  *)
(* is shown as setting it (config.go: "which levels of overrides have      *)
(* something to do with this value, how do they override each other").     *)
(***************************************************************************)
ProvenanceExplains ==
  Resolved => \A p \in Paths :
    LET v == ValueProvenance(p)
        set == {i \in 1 .. 4 : v.of[i] # Missing}
    IN  v # NotAMap =>
          /\ (v.of[5] = Missing) = (set = {})
          /\ \A i \in set : (\A k \in set : k <= i) /\ ~IsMap(v.of[i])
                              => v.of[5] = v.of[i]

(***************************************************************************)
(* The three ways through the layers agree: the configuration of a region  *)
(* is that of its environment with the region's overrides on top.          *)
(***************************************************************************)
RegionRefinesEnvironment ==
  Resolved => cfg = Merge(GetConfiguration, GetRegionOverrides)

(***************************************************************************)
(* Truncation takes away the path it is given, with all that is below it,  *)
(* and nothing else.                                                       *)
(***************************************************************************)
TruncatesExactly ==
  Resolved => \A c, p \in Paths :
    LET left == GetByPath(TruncateConfiguration(cfg, {c}), p)
        was  == GetByPath(cfg, p)
    IN  IF c \in Prefixes(p) THEN left.kind \notin {"value", "map"}
        ELSE left.kind = was.kind /\ (was.kind = "value" => left = was)

(***************************************************************************)
(* The $schema that is written into the merged file means what the last    *)
(* file that names one means.                                              *)
(***************************************************************************)
SchemaStaysTheSame ==
  /\ SchemaMeans
  /\ reached = Len(files) =>
       \A i \in 1 .. reached : Decides(i) => merged.at["$schema"] = schema

(***************************************************************************)
(* However a value is come by, it is what the layers and files say of it:  *)
(* the three walks, the provenance, the truncation and the merge of files  *)
(* agree with one reading of them.                                         *)
(***************************************************************************)
SaysWhatLayersSay ==
  /\ MergesByPath /\ LastLayerWins /\ ProvenanceExplains
  /\ RegionRefinesEnvironment /\ TruncatesExactly /\ SchemaStaysTheSame
=============================================================================
