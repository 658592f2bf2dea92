--------------------------- MODULE SchemaRegistry ---------------------------
(***************************************************************************)
(* The two-layer schema registry each JournalCore owns (registry.rs): L1   *)
(* is compiled in, L2 starts as the parsed files of .journal/schemas and   *)
(* is overwritten key by key by journal_schema_load.  L2 lives in memory:  *)
(* what was loaded is gone when the process is.                            *)
(***************************************************************************)
EXTENDS ChapterSchema

CONSTANTS
  Cores,         \* JournalCore instances, each with a registry of its own
  Versions,      \* the schema records that may be registered
  NoSchema,      \* "no schema under this key"
  BuiltIn,       \* L1: SchemaIds -> Versions or NoSchema
  LocalFiles,    \* what .journal/schemas may hold when a process starts:
                 \* functions SchemaIds -> Versions or NoSchema
  Uploads        \* the <<key, version>> pairs a client may load

VARIABLE l2      \* each core's L2 layer

ASSUME RegistryAssumption ==
  /\ NoSchema \notin Versions
  /\ \A v \in Versions : IsSchema(v)
  /\ BuiltIn \in [SchemaIds -> Versions \cup {NoSchema}]
  /\ LocalFiles \subseteq [SchemaIds -> Versions \cup {NoSchema}]
  /\ Uploads \subseteq SchemaIds \X Versions

RegistryTypeOK == l2 \in [Cores -> [SchemaIds -> Versions \cup {NoSchema}]]

RegistryInit == l2 \in [Cores -> LocalFiles]

(* SchemaRegistry::get: L2 shadows L1. *)
Resolve(w, k) == IF l2[w][k] # NoSchema THEN l2[w][k] ELSE BuiltIn[k]

Known(w, k) == Resolve(w, k) # NoSchema

(* load_from_yaml_str: the key of the parsed schema is replaced in L2, also  *)
(* when open chapters are bound to it.  A text that does not parse changes   *)
(* nothing.                                                                  *)
RegisterSchema(w, k, v) == l2' = [l2 EXCEPT ![w][k] = v]

(* with_project_local, run again when the process is started again: the      *)
(* files may have been edited since.                                         *)
ReloadRegistry(w) ==
  \E files \in LocalFiles : l2' = [l2 EXCEPT ![w] = files]
=============================================================================
