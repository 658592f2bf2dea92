------------------------------ MODULE CoreCache ------------------------------
(***************************************************************************)
(* How the server finds the JournalCore of a call (rmcp/server.rs,         *)
(* resolve_core and build_core; every handler of tools.rs).  A request     *)
(* names a project root, or none and means the startup one.  The name is   *)
(* canonicalized, looked up in a map behind a mutex, and a core is built   *)
(* under that mutex when there is none; then the request locks the core,   *)
(* runs and unlocks.  Requests run on as many threads.                     *)
(*                                                                         *)
(* A path that does not exist cannot be canonicalized and is used as it is *)
(* spelled, and building its core creates the directory.                   *)
(*                                                                         *)
(* Every request runs once, so a core is named by the request that built   *)
(* it.  A server that starts again starts from Init with the directories   *)
(* there are.  No code under either mutex was found to panic: poisoning is *)
(* left out.                                                               *)
(***************************************************************************)
EXTENDS Naturals

CONSTANTS
  Requests,   \* tool calls
  Spellings,  \* paths as clients write them, canonical ones among them
  Canon,      \* what each spelling canonicalizes to once it exists
  Default,    \* the canonical startup root
  Startup,    \* the core built at startup
  NoCore,     \* "no core (yet)"
  NoKey,      \* "no path (yet)"
  NoRequest,  \* "not locked"
  MaxFaults   \* bound: builds that fail

VARIABLES
  present,    \* the directories that exist, by canonical path
  built,      \* the cores that were built
  cache,      \* extra_cores
  cacheLock,  \* who holds the mutex of extra_cores
  coreLock,   \* who holds the mutex of each core
  pc,         \* what each request does next
  key,        \* what each request took for the canonical path
  handle,     \* the core each request was given
  early,      \* history: spellings canonicalized while there was no directory
  faults      \* counts what MaxFaults bounds

cvars == <<present, built, cache, cacheLock, coreLock, pc, key, handle,
           early, faults>>

Handles == Requests \cup {Startup}

Roots == {Canon[p] : p \in Spellings}

ASSUME CacheAssumption ==
  /\ Canon \in [Spellings -> Spellings]
  /\ \A p \in Spellings : Canon[Canon[p]] = Canon[p]
  /\ Default \in Spellings
  /\ Canon[Default] = Default
  /\ Startup \notin Requests
  /\ NoCore \notin Handles
  /\ NoKey \notin Spellings
  /\ NoRequest \notin Requests
  /\ MaxFaults \in Nat

(* The steps under the mutex of the map. *)
Locked == {"lookup", "mkdir", "open", "insert"}

(* Each mutex is held by the request whose step it protects, and no other.   *)
LocksHeld ==
  /\ \A r \in Requests : pc[r] \in Locked <=> cacheLock = r
  /\ \A r \in Requests, h \in Handles :
        coreLock[h] = r <=> pc[r] = "work" /\ handle[r] = h

CacheTypeOK ==
  /\ present \subseteq Roots
  /\ built \subseteq Handles
  /\ cache \in [Spellings -> Handles \cup {NoCore}]
  /\ cacheLock \in Requests \cup {NoRequest}
  /\ coreLock \in [Handles -> Requests \cup {NoRequest}]
  /\ pc \in [Requests -> {"idle", "cache", "core", "work", "done"}
                           \cup Locked]
  /\ key \in [Requests -> Spellings \cup {NoKey}]
  /\ handle \in [Requests -> Handles \cup {NoCore}]
  /\ early \subseteq Spellings
  /\ faults \in Nat
  /\ LocksHeld

CacheInit ==
  /\ present \in {d \in SUBSET Roots : Default \in d}
  /\ built = {Startup}
  /\ cache = [p \in Spellings |-> NoCore]
  /\ cacheLock = NoRequest
  /\ coreLock = [h \in Handles |-> NoRequest]
  /\ pc = [r \in Requests |-> "idle"]
  /\ key = [r \in Requests |-> NoKey]
  /\ handle = [r \in Requests |-> NoCore]
  /\ early = {}
  /\ faults = 0

-----------------------------------------------------------------------------
(* resolve_core *)

Goes(r, from, to) ==
  /\ pc[r] = from
  /\ pc' = [pc EXCEPT ![r] = to]

(* project_root is omitted, or is the startup root. *)
UsesDefault(r) ==
  /\ Goes(r, "idle", "core")
  /\ key' = [key EXCEPT ![r] = Default]
  /\ handle' = [handle EXCEPT ![r] = Startup]

Omitted(r) ==
  /\ UsesDefault(r)
  /\ UNCHANGED <<present, built, cache, cacheLock, coreLock, early, faults>>

(* Mutant: the path is not canonicalized. *)
KeyAsSpelled(p) == p

(* canonicalize(p).unwrap_or(p) *)
KeyOf(p) == IF Canon[p] \in present THEN Canon[p] ELSE p

Canonicalize(r, p) ==
  /\ IF KeyOf(p) = Default
       THEN UsesDefault(r)
       ELSE /\ Goes(r, "idle", "cache")
            /\ key' = [key EXCEPT ![r] = KeyOf(p)]
            /\ UNCHANGED handle
  /\ early' = IF Canon[p] \in present THEN early ELSE early \cup {p}
  /\ UNCHANGED <<present, built, cache, cacheLock, coreLock, faults>>

LockCache(r) ==
  /\ Goes(r, "cache", "lookup")
  /\ cacheLock = NoRequest
  /\ cacheLock' = r
  /\ UNCHANGED <<present, built, cache, coreLock, key, handle, early, faults>>

Found(r) ==
  /\ Goes(r, "lookup", "core")
  /\ cache[key[r]] # NoCore
  /\ handle' = [handle EXCEPT ![r] = cache[key[r]]]
  /\ cacheLock' = NoRequest
  /\ UNCHANGED <<present, built, cache, coreLock, key, early, faults>>

(* Mutant: the map is unlocked while the core is built. *)
MissingUnlocked(r) ==
  /\ Goes(r, "lookup", "mkdir")
  /\ cache[key[r]] = NoCore
  /\ cacheLock' = NoRequest
  /\ UNCHANGED <<present, built, cache, coreLock, key, handle, early, faults>>

Missing(r) ==
  /\ Goes(r, "lookup", "mkdir")
  /\ cache[key[r]] = NoCore
  /\ UNCHANGED <<present, built, cache, cacheLock, coreLock, key, handle,
                 early, faults>>

-----------------------------------------------------------------------------
(* build_core: load the schemas, create <root>/workspace, open the database. *)

CreateDir(r) ==
  /\ Goes(r, "mkdir", "open")
  /\ present' = present \cup {Canon[key[r]]}
  /\ UNCHANGED <<built, cache, cacheLock, coreLock, key, handle, early, faults>>

OpenCore(r) ==
  /\ Goes(r, "open", "insert")
  /\ built' = built \cup {r}
  /\ handle' = [handle EXCEPT ![r] = r]
  /\ UNCHANGED <<present, cache, cacheLock, coreLock, key, early, faults>>

Insert(r) ==
  /\ Goes(r, "insert", "core")
  /\ cache' = [cache EXCEPT ![key[r]] = handle[r]]
  /\ cacheLock' = NoRequest
  /\ UNCHANGED <<present, built, coreLock, key, handle, early, faults>>

FailBuild(r) ==
  /\ pc[r] \in {"mkdir", "open"}
  /\ faults < MaxFaults
  /\ faults' = faults + 1
  /\ pc' = [pc EXCEPT ![r] = "done"]

(* Mutant: the error path forgets the guard. *)
BuildFailsLocked(r) ==
  /\ FailBuild(r)
  /\ UNCHANGED <<present, built, cache, cacheLock, coreLock, key, handle, early>>

(* The request answers the error; a directory that was created stays.        *)
BuildFails(r) ==
  /\ FailBuild(r)
  /\ cacheLock' = NoRequest
  /\ UNCHANGED <<present, built, cache, coreLock, key, handle, early>>

-----------------------------------------------------------------------------
(* A handler: lock the core, call it, drop the guard before answering. *)

LockCore(r) ==
  /\ Goes(r, "core", "work")
  /\ coreLock[handle[r]] = NoRequest
  /\ coreLock' = [coreLock EXCEPT ![handle[r]] = r]
  /\ UNCHANGED <<present, built, cache, cacheLock, key, handle, early, faults>>

(* Mutant: the guard outlives the handler. *)
AnswerLocked(r) ==
  /\ Goes(r, "work", "done")
  /\ UNCHANGED <<present, built, cache, cacheLock, coreLock, key, handle,
                 early, faults>>

Answer(r) ==
  /\ Goes(r, "work", "done")
  /\ coreLock' = [coreLock EXCEPT ![handle[r]] = NoRequest]
  /\ UNCHANGED <<present, built, cache, cacheLock, key, handle, early, faults>>

(* Somebody creates a root; journal_projection_rebuild does, for the parent  *)
(* of an output_path, before it resolves the core.                           *)
MakeDir(d) ==
  /\ d \notin present
  /\ present' = present \cup {d}
  /\ UNCHANGED <<built, cache, cacheLock, coreLock, pc, key, handle, early,
                 faults>>

-----------------------------------------------------------------------------
ResolveCore(r) ==
  \/ LockCache(r) \/ Found(r) \/ Missing(r)
  \/ CreateDir(r) \/ OpenCore(r) \/ Insert(r) \/ BuildFails(r)

Serve(r) == ResolveCore(r) \/ LockCore(r) \/ Answer(r)

CacheNext ==
  \/ \E r \in Requests :
        \/ Omitted(r)
        \/ \E p \in Spellings : Canonicalize(r, p)
        \/ Serve(r)
  \/ \E d \in Roots : MakeDir(d)

CacheSpec == CacheInit /\ [][CacheNext]_cvars

(* Threads run, and a mutex goes to one of those that wait for it.  There    *)
(* are finitely many requests, so nobody is overtaken for ever.              *)
FairCache == CacheSpec /\ \A r \in Requests : WF_cvars(Serve(r))

-----------------------------------------------------------------------------
(* Requests whose paths came out the same are given the same core, however   *)
(* their lookups and failed builds interleave: a schema loaded by one is     *)
(* there for the next.                                                       *)
SameCore ==
  \A r, s \in Requests :
     handle[r] # NoCore /\ handle[s] # NoCore /\ key[r] = key[s]
       => handle[r] = handle[s]

(* Some request used a spelling of this root before the root existed.        *)
Aliased(d) == \E p \in early : p # Canon[p] /\ Canon[p] = d

RootOf(r) == Canon[key[r]]

(* No two requests are in cores of one root at once, whatever spellings they *)
(* use: one database has one writer (docs/design.md 9.2), unless a request   *)
(* named the root by a spelling of its own before there was a directory.     *)
OneWriter ==
  \A r, s \in Requests :
     r # s /\ pc[r] = "work" /\ pc[s] = "work" /\ RootOf(r) = RootOf(s)
       => handle[r] # handle[s] /\ Aliased(RootOf(r))

(* The cache implements the promise of CoreTable: a path is named when it is *)
(* canonicalized, a core is the path's when it is inserted in the map, and   *)
(* locks, lookups, directories and failures before the insertion change      *)
(* nothing a request was promised.                                           *)
CoreOf(p) == IF p = Default THEN Startup ELSE cache[p]

StageOf(r) ==
  CASE pc[r] = "idle" -> "new"
    [] pc[r] = "work" -> "working"
    [] pc[r] = "done" -> "answered"
    [] OTHER -> "called"

Table ==
  INSTANCE CoreTable WITH
    Paths <- Spellings,
    core <- [p \in Spellings |-> CoreOf(p)],
    user <- coreLock,
    stage <- [r \in Requests |-> StageOf(r)],
    path <- key

ImplementsCoreTable == Table!TableSpec

(* Every request is answered: neither mutex is kept by an error, and no      *)
(* request waits for one while it holds the other.                           *)
RequestsReturn == \A r \in Requests : pc[r] # "idle" ~> pc[r] = "done"
=============================================================================
