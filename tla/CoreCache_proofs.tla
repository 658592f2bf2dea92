--------------------------- MODULE CoreCache_proofs ---------------------------
(***************************************************************************)
(* Proofs about CoreCache, for every set of requests, spellings and        *)
(* directories, and without a bound on the builds that fail.               *)
(***************************************************************************)
EXTENDS CoreCache, TLAPS

(* What a request has at its step: a path from when it is looked up on, and  *)
(* a core once it is built or found.                                         *)
StepInv ==
  \A r \in Requests :
     /\ pc[r] \in {"cache", "core", "work"} \cup Locked => key[r] \in Spellings
     /\ handle[r] # NoCore => key[r] \in Spellings
     /\ pc[r] \in {"cache"} \cup Locked => key[r] # Default
     /\ pc[r] \in {"idle", "cache", "lookup", "mkdir", "open"}
          => handle[r] = NoCore
     /\ pc[r] \in {"insert", "core", "work"} => handle[r] # NoCore

TypeInv == CacheTypeOK /\ StepInv

(* The core of a request is the startup one, the one in the map, or one it   *)
(* has built and is about to insert.                                         *)
Given(r) ==
  \/ key[r] = Default /\ handle[r] = Startup
  \/ key[r] # Default /\ cache[key[r]] = handle[r]
  \/ key[r] # Default /\ handle[r] = r /\ pc[r] = "insert"

Building(r) == pc[r] \in {"mkdir", "open", "insert"}

(* The map has nothing for a path while a core is built for it.              *)
GivenInv ==
  \A r \in Requests :
     /\ handle[r] # NoCore => Given(r)
     /\ Building(r) => cache[key[r]] = NoCore

(* A request's path is canonical unless there was no directory.              *)
EarlyInv ==
  \A r \in Requests :
     key[r] \in Spellings /\ Canon[key[r]] # key[r] => key[r] \in early

-----------------------------------------------------------------------------
(* Facts about the constants and single operators. *)

LEMMA Sentinels ==
  /\ Default \in Spellings
  /\ NoKey \notin Spellings
  /\ NoCore \notin Handles
  /\ NoRequest \notin Requests
  /\ Startup \in Handles
  /\ Requests \subseteq Handles
  /\ NoCore # Startup
BY CacheAssumption DEF Handles

LEMMA Canonical ==
  ASSUME NEW p \in Spellings
  PROVE  /\ Canon[p] \in Spellings
         /\ Canon[p] \in Roots
         /\ Canon[Canon[p]] = Canon[p]
BY CacheAssumption DEF Roots

LEMMA KeyOfFacts ==
  ASSUME NEW p \in Spellings
  PROVE  /\ KeyOf(p) \in Spellings
         /\ Canon[KeyOf(p)] = Canon[p]
         /\ Canon[KeyOf(p)] # KeyOf(p) => KeyOf(p) = p /\ Canon[p] \notin present
BY Canonical DEF KeyOf

-----------------------------------------------------------------------------
(* Types and locks. *)

LEMMA TypeInit == CacheInit => TypeInv
<1> SUFFICES ASSUME CacheInit PROVE TypeInv
  OBVIOUS
<1>1. CacheTypeOK
  BY Sentinels, CacheAssumption
  DEF CacheInit, CacheTypeOK, LocksHeld, Locked
<1>2. StepInv
  BY Sentinels DEF CacheInit, StepInv, Locked
<1> QED BY <1>1, <1>2 DEF TypeInv

(* A request that starts takes a path, and the startup core or none.         *)
LEMMA StartTypes ==
  ASSUME TypeInv, NEW r \in Requests, NEW p \in Spellings,
         Omitted(r) \/ Canonicalize(r, p)
  PROVE  TypeInv'
<1>1. pc[r] = "idle"
  BY DEF Omitted, Canonicalize, UsesDefault, Goes
<1>2. pc' \in [Requests -> {"idle", "cache", "core", "work", "done"} \cup Locked]
  BY DEF TypeInv, CacheTypeOK, Omitted, Canonicalize, UsesDefault, Goes, Locked
<1>3. /\ key' \in [Requests -> Spellings \cup {NoKey}]
      /\ handle' \in [Requests -> Handles \cup {NoCore}]
  BY Sentinels, KeyOfFacts
  DEF TypeInv, CacheTypeOK, Omitted, Canonicalize, UsesDefault
<1>4. early' \subseteq Spellings
  BY DEF TypeInv, CacheTypeOK, Omitted, Canonicalize
<1>5. /\ UNCHANGED <<present, built, cache, cacheLock, coreLock, faults>>
      /\ pc'[r] \in {"core", "cache"}
      /\ \A q \in Requests \ {r} : pc'[q] = pc[q] /\ handle'[q] = handle[q]
      /\ \A q \in Requests \ {r} : key'[q] = key[q]
  BY DEF TypeInv, CacheTypeOK, Omitted, Canonicalize, UsesDefault, Goes
<1>6. LocksHeld'
  BY <1>1, <1>5 DEF TypeInv, CacheTypeOK, LocksHeld, Locked
<1>7. CacheTypeOK'
  BY <1>2, <1>3, <1>4, <1>5, <1>6 DEF TypeInv, CacheTypeOK
<1>8. \/ pc'[r] = "core" /\ key'[r] = Default /\ handle'[r] = Startup
      \/ /\ pc'[r] = "cache" /\ key'[r] # Default /\ key'[r] \in Spellings
         /\ handle'[r] = NoCore
  BY <1>1, KeyOfFacts
  DEF TypeInv, CacheTypeOK, StepInv, Omitted, Canonicalize, UsesDefault, Goes
<1>9. StepInv'
  BY <1>5, <1>8, Sentinels DEF TypeInv, StepInv, Locked
<1> QED BY <1>7, <1>9 DEF TypeInv

(* One request moves on inside resolve_core, holding the mutex of the map    *)
(* exactly at its locked steps.                                              *)
LEMMA LocksMove ==
  ASSUME TypeInv, NEW r \in Requests, NEW to, to # "work", pc[r] # "work",
         pc' = [pc EXCEPT ![r] = to], UNCHANGED coreLock,
         \A q \in Requests \ {r} : handle'[q] = handle[q],
         \/ to \in Locked /\ cacheLock' = r /\ cacheLock \in {r, NoRequest}
         \/ to \notin Locked /\ cacheLock' = NoRequest /\ pc[r] \in Locked
  PROVE  LocksHeld'
<1>1. /\ pc'[r] = to
      /\ \A q \in Requests \ {r} : pc'[q] = pc[q]
  BY DEF TypeInv, CacheTypeOK
<1>2. \A q \in Requests : pc'[q] \in Locked <=> cacheLock' = q
  BY <1>1, Sentinels DEF TypeInv, CacheTypeOK, LocksHeld
<1>3. \A q \in Requests, h \in Handles :
         coreLock'[h] = q <=> pc'[q] = "work" /\ handle'[q] = h
  <2>1. \A h \in Handles : coreLock[h] # r
    BY DEF TypeInv, CacheTypeOK, LocksHeld
  <2> QED BY <1>1, <2>1 DEF TypeInv, CacheTypeOK, LocksHeld
<1> QED BY <1>2, <1>3 DEF LocksHeld

LEMMA StepMoves ==
  ASSUME TypeInv, NEW r \in Requests, NEW to, pc' = [pc EXCEPT ![r] = to],
         UNCHANGED key,
         \A q \in Requests \ {r} : handle'[q] = handle[q],
         to \in {"core", "work"} \cup Locked => key[r] \in Spellings,
         handle'[r] # NoCore => key[r] \in Spellings,
         to \in Locked => key[r] # Default,
         to # "cache", to # "idle",
         to \in {"lookup", "mkdir", "open"} => handle'[r] = NoCore,
         to \in {"insert", "core", "work"} => handle'[r] # NoCore
  PROVE  StepInv'
<1>1. /\ pc'[r] = to
      /\ \A q \in Requests \ {r} : pc'[q] = pc[q]
  BY DEF TypeInv, CacheTypeOK
<1>2. \A q \in Requests \ {r} :
     /\ pc'[q] \in {"cache", "core", "work"} \cup Locked => key'[q] \in Spellings
     /\ handle'[q] # NoCore => key'[q] \in Spellings
     /\ pc'[q] \in {"cache"} \cup Locked => key'[q] # Default
     /\ pc'[q] \in {"idle", "cache", "lookup", "mkdir", "open"}
          => handle'[q] = NoCore
     /\ pc'[q] \in {"insert", "core", "work"} => handle'[q] # NoCore
  BY <1>1 DEF TypeInv, StepInv
<1> QED BY <1>1, <1>2 DEF StepInv, Locked

(* The steps between the two mutexes move one request on.                    *)
LEMMA ResolveTypes ==
  ASSUME TypeInv, NEW r \in Requests, ResolveCore(r)
  PROVE  TypeInv'
<1> USE DEF Goes
<1>1. CASE LockCache(r)
  <2>1. /\ pc[r] = "cache" /\ key[r] \in Spellings /\ key[r] # Default
        /\ handle[r] = NoCore
    BY <1>1 DEF LockCache, TypeInv, StepInv
  <2>2. LocksHeld'
    BY <1>1, <2>1, LocksMove DEF LockCache, Locked
  <2>3. StepInv'
    BY <1>1, <2>1, StepMoves DEF LockCache, Locked
  <2> QED BY <1>1, <2>2, <2>3 DEF LockCache, TypeInv, CacheTypeOK, Locked
<1>2. CASE Found(r)
  <2>1. /\ pc[r] = "lookup" /\ key[r] \in Spellings
        /\ cache[key[r]] \in Handles
    BY <1>2 DEF Found, TypeInv, CacheTypeOK, StepInv, Locked
  <2>2. /\ handle' = [handle EXCEPT ![r] = cache[key[r]]]
        /\ handle'[r] = cache[key[r]]
        /\ \A q \in Requests \ {r} : handle'[q] = handle[q]
    BY <1>2 DEF Found, TypeInv, CacheTypeOK
  <2>3. LocksHeld'
    BY <1>2, <2>1, <2>2, LocksMove DEF Found, Locked
  <2>4. StepInv'
    BY <1>2, <2>1, <2>2, StepMoves, Sentinels DEF Found, Locked
  <2> QED BY <1>2, <2>1, <2>3, <2>4 DEF Found, TypeInv, CacheTypeOK
<1>3. CASE Missing(r)
  <2>1. /\ pc[r] = "lookup" /\ key[r] \in Spellings /\ key[r] # Default
        /\ handle[r] = NoCore /\ cacheLock = r
    BY <1>3 DEF Missing, TypeInv, CacheTypeOK, StepInv, LocksHeld, Locked
  <2>2. LocksHeld'
    BY <1>3, <2>1, LocksMove DEF Missing, Locked
  <2>3. StepInv'
    BY <1>3, <2>1, StepMoves DEF Missing, Locked
  <2> QED BY <1>3, <2>2, <2>3 DEF Missing, TypeInv, CacheTypeOK, Locked
<1>4. CASE CreateDir(r)
  <2>1. /\ pc[r] = "mkdir" /\ key[r] \in Spellings /\ key[r] # Default
        /\ handle[r] = NoCore /\ cacheLock = r
    BY <1>4 DEF CreateDir, TypeInv, CacheTypeOK, StepInv, LocksHeld, Locked
  <2>2. Canon[key[r]] \in Roots
    BY <2>1, Canonical
  <2>3. LocksHeld'
    BY <1>4, <2>1, LocksMove DEF CreateDir, Locked
  <2>4. StepInv'
    BY <1>4, <2>1, StepMoves DEF CreateDir, Locked
  <2> QED BY <1>4, <2>2, <2>3, <2>4 DEF CreateDir, TypeInv, CacheTypeOK, Locked
<1>5. CASE OpenCore(r)
  <2>1. /\ pc[r] = "open" /\ key[r] \in Spellings /\ key[r] # Default
        /\ cacheLock = r
    BY <1>5 DEF OpenCore, TypeInv, CacheTypeOK, StepInv, LocksHeld, Locked
  <2>2. /\ handle'[r] = r /\ r # NoCore
        /\ \A q \in Requests \ {r} : handle'[q] = handle[q]
    BY <1>5, Sentinels DEF OpenCore, TypeInv, CacheTypeOK
  <2>3. LocksHeld'
    BY <1>5, <2>1, <2>2, LocksMove DEF OpenCore, Locked
  <2>4. StepInv'
    BY <1>5, <2>1, <2>2, StepMoves DEF OpenCore, Locked
  <2> QED
    BY <1>5, <2>3, <2>4, Sentinels DEF OpenCore, TypeInv, CacheTypeOK, Locked
<1>6. CASE Insert(r)
  <2>1. /\ pc[r] = "insert" /\ key[r] \in Spellings
        /\ handle[r] # NoCore /\ handle[r] \in Handles
    BY <1>6 DEF Insert, TypeInv, CacheTypeOK, StepInv, Locked
  <2>2. LocksHeld'
    BY <1>6, <2>1, LocksMove DEF Insert, Locked
  <2>3. StepInv'
    BY <1>6, <2>1, StepMoves DEF Insert, Locked
  <2> QED BY <1>6, <2>1, <2>2, <2>3 DEF Insert, TypeInv, CacheTypeOK
<1>7. CASE BuildFails(r)
  <2>1. pc[r] \in {"mkdir", "open"} /\ handle[r] = NoCore
    BY <1>7 DEF BuildFails, FailBuild, TypeInv, StepInv
  <2>2. LocksHeld'
    BY <1>7, <2>1, LocksMove DEF BuildFails, FailBuild, Locked
  <2>3. StepInv'
    BY <1>7, <2>1, StepMoves DEF BuildFails, FailBuild, Locked
  <2> QED
    BY <1>7, <2>2, <2>3 DEF BuildFails, FailBuild, TypeInv, CacheTypeOK
<1> QED
  BY <1>1, <1>2, <1>3, <1>4, <1>5, <1>6, <1>7 DEF ResolveCore

LEMMA WorkTypes ==
  ASSUME TypeInv, NEW r \in Requests, LockCore(r) \/ Answer(r)
  PROVE  TypeInv'
<1> USE DEF Goes
<1>1. /\ handle[r] \in Handles /\ key[r] \in Spellings
      /\ pc[r] \in {"core", "work"}
  BY DEF LockCore, Answer, TypeInv, CacheTypeOK, StepInv
<1>2. CASE LockCore(r)
  <2>1. /\ pc' = [pc EXCEPT ![r] = "work"]
        /\ coreLock' = [coreLock EXCEPT ![handle[r]] = r]
        /\ coreLock[handle[r]] = NoRequest
        /\ UNCHANGED <<cacheLock, key, handle>>
    BY <1>2 DEF LockCore
  <2>2. \A q \in Requests : pc'[q] \in Locked <=> cacheLock' = q
    BY <1>2, <2>1 DEF LockCore, TypeInv, CacheTypeOK, LocksHeld, Locked
  <2>3. \A q \in Requests, h \in Handles :
           coreLock'[h] = q <=> pc'[q] = "work" /\ handle'[q] = h
    <3>1. \A h \in Handles : coreLock[h] # r
      BY <1>2 DEF LockCore, TypeInv, CacheTypeOK, LocksHeld
    <3> QED BY <1>1, <2>1, <3>1, Sentinels DEF TypeInv, CacheTypeOK, LocksHeld
  <2>4. StepInv'
    BY <1>1, <2>1, StepMoves, Sentinels DEF Locked
  <2>5. /\ coreLock' \in [Handles -> Requests \cup {NoRequest}]
        /\ pc' \in [Requests -> {"idle", "cache", "core", "work", "done"}
                                  \cup Locked]
    BY <2>1 DEF TypeInv, CacheTypeOK
  <2> QED
    BY <1>2, <2>2, <2>3, <2>4, <2>5
    DEF LockCore, TypeInv, CacheTypeOK, LocksHeld
<1>3. CASE Answer(r)
  <2>1. /\ pc[r] = "work" /\ pc' = [pc EXCEPT ![r] = "done"]
        /\ coreLock' = [coreLock EXCEPT ![handle[r]] = NoRequest]
        /\ UNCHANGED <<cacheLock, key, handle>>
    BY <1>3 DEF Answer
  <2>2. \A q \in Requests : pc'[q] \in Locked <=> cacheLock' = q
    BY <2>1 DEF TypeInv, CacheTypeOK, LocksHeld, Locked
  <2>3. \A q \in Requests, h \in Handles :
           coreLock'[h] = q <=> pc'[q] = "work" /\ handle'[q] = h
    <3>1. \A h \in Handles : coreLock[h] = r <=> h = handle[r]
      BY <2>1 DEF TypeInv, CacheTypeOK, LocksHeld
    <3> QED BY <1>1, <2>1, <3>1, Sentinels DEF TypeInv, CacheTypeOK, LocksHeld
  <2>4. StepInv'
    BY <1>1, <2>1, StepMoves, Sentinels DEF Locked
  <2>5. /\ coreLock' \in [Handles -> Requests \cup {NoRequest}]
        /\ pc' \in [Requests -> {"idle", "cache", "core", "work", "done"}
                                  \cup Locked]
    BY <2>1 DEF TypeInv, CacheTypeOK
  <2> QED
    BY <1>3, <2>2, <2>3, <2>4, <2>5
    DEF Answer, TypeInv, CacheTypeOK, LocksHeld
<1> QED BY <1>2, <1>3

LEMMA TypeNext == TypeInv /\ [CacheNext]_cvars => TypeInv'
<1> SUFFICES ASSUME TypeInv, [CacheNext]_cvars PROVE TypeInv'
  OBVIOUS
<1>1. ASSUME NEW r \in Requests, Omitted(r) PROVE TypeInv'
  BY <1>1, StartTypes, Sentinels
<1>2. ASSUME NEW r \in Requests, NEW p \in Spellings, Canonicalize(r, p)
      PROVE  TypeInv'
  BY <1>2, StartTypes
<1>3. ASSUME NEW r \in Requests, Serve(r) PROVE TypeInv'
  BY <1>3, ResolveTypes, WorkTypes DEF Serve
<1>4. ASSUME NEW d \in Roots, MakeDir(d) PROVE TypeInv'
  BY <1>4 DEF MakeDir, TypeInv, CacheTypeOK, StepInv, LocksHeld
<1>5. CASE UNCHANGED cvars
  BY <1>5 DEF cvars, TypeInv, CacheTypeOK, StepInv, LocksHeld
<1> QED BY <1>1, <1>2, <1>3, <1>4, <1>5 DEF CacheNext

(* Every variable of the cache has its type, and each of the two mutexes is  *)
(* held by the request whose step it protects and by no other                *)
(* (rmcp/server.rs resolve_core, every handler of tools.rs).                 *)
THEOREM LocksTyped == CacheSpec => []CacheTypeOK
<1>1. TypeInv => CacheTypeOK
  BY DEF TypeInv
<1> QED BY TypeInit, TypeNext, <1>1, PTL DEF CacheSpec
-----------------------------------------------------------------------------
(* One core for each path. *)

LEMMA GivenStart ==
  ASSUME TypeInv, GivenInv, NEW r \in Requests, NEW p \in Spellings,
         Omitted(r) \/ Canonicalize(r, p)
  PROVE  GivenInv'
<1>1. /\ UNCHANGED cache
      /\ \A q \in Requests \ {r} : /\ pc'[q] = pc[q]
                                   /\ key'[q] = key[q]
                                   /\ handle'[q] = handle[q]
  BY DEF TypeInv, CacheTypeOK, Omitted, Canonicalize, UsesDefault, Goes
<1>2. \/ pc'[r] = "core" /\ key'[r] = Default /\ handle'[r] = Startup
      \/ pc'[r] = "cache" /\ handle'[r] = NoCore
  BY DEF TypeInv, CacheTypeOK, StepInv, Omitted, Canonicalize, UsesDefault, Goes
<1> QED BY <1>1, <1>2 DEF GivenInv, Given, Building

LEMMA GivenResolve ==
  ASSUME TypeInv, GivenInv, NEW r \in Requests, ResolveCore(r)
  PROVE  GivenInv'
<1>1. CASE LockCache(r)
  BY <1>1 DEF LockCache, Goes, TypeInv, CacheTypeOK, GivenInv, Given, Building
<1>2. CASE Found(r)
  BY <1>2
  DEF Found, Goes, TypeInv, CacheTypeOK, StepInv, Locked, GivenInv, Given,
      Building
<1>3. CASE Missing(r)
  BY <1>3 DEF Missing, Goes, TypeInv, CacheTypeOK, GivenInv, Given, Building
<1>4. CASE CreateDir(r)
  BY <1>4 DEF CreateDir, Goes, TypeInv, CacheTypeOK, GivenInv, Given, Building
<1>5. CASE OpenCore(r)
  BY <1>5
  DEF OpenCore, Goes, TypeInv, CacheTypeOK, StepInv, Locked, GivenInv, Given,
      Building
<1>6. CASE Insert(r)
  (* The map is written by the holder of its mutex, where it had nothing.    *)
  <2>1. /\ pc[r] = "insert" /\ cache[key[r]] = NoCore
        /\ key[r] \in Spellings /\ key[r] # Default
        /\ handle[r] # NoCore
    BY <1>6 DEF Insert, Goes, TypeInv, StepInv, Locked, GivenInv, Building
  <2>2. \A q \in Requests \ {r} : ~Building(q)
    BY <2>1 DEF TypeInv, CacheTypeOK, LocksHeld, Locked, Building
  <2>3. /\ pc'[r] = "core"
        /\ \A q \in Requests \ {r} : pc'[q] = pc[q]
        /\ \A q \in Requests : key'[q] = key[q] /\ handle'[q] = handle[q]
        /\ cache' = [cache EXCEPT ![key[r]] = handle[r]]
    BY <1>6 DEF Insert, Goes, TypeInv, CacheTypeOK
  <2>4. cache'[key[r]] = handle[r]
    BY <2>1, <2>3 DEF TypeInv, CacheTypeOK
  <2>5. \A q \in Requests : handle[q] # NoCore /\ q # r => Given(q)'
    <3> SUFFICES ASSUME NEW q \in Requests, handle[q] # NoCore, q # r
                 PROVE  Given(q)'
      OBVIOUS
    <3>1. \/ key[q] = Default /\ handle[q] = Startup
          \/ key[q] # Default /\ cache[key[q]] = handle[q]
      BY <2>2 DEF GivenInv, Given, Building
    <3>2. key[q] \in Spellings
      BY DEF TypeInv, StepInv
    <3>3. cache[key[q]] = handle[q] => cache'[key[q]] = cache[key[q]]
      BY <2>1, <2>3, <3>2 DEF TypeInv, CacheTypeOK
    <3> QED BY <2>3, <3>1, <3>3 DEF Given
  <2>6. Given(r)'
    BY <2>1, <2>3, <2>4 DEF Given
  <2>7. \A q \in Requests : ~Building(q)'
    BY <2>2, <2>3 DEF Building
  <2> QED BY <2>3, <2>5, <2>6, <2>7 DEF GivenInv
<1>7. CASE BuildFails(r)
  BY <1>7
  DEF BuildFails, FailBuild, TypeInv, CacheTypeOK, StepInv, GivenInv, Given,
      Building
<1> QED
  BY <1>1, <1>2, <1>3, <1>4, <1>5, <1>6, <1>7 DEF ResolveCore

LEMMA GivenNext == TypeInv /\ GivenInv /\ [CacheNext]_cvars => GivenInv'
<1> SUFFICES ASSUME TypeInv, GivenInv, [CacheNext]_cvars PROVE GivenInv'
  OBVIOUS
<1>1. ASSUME NEW r \in Requests, Omitted(r) PROVE GivenInv'
  BY <1>1, GivenStart, Sentinels
<1>2. ASSUME NEW r \in Requests, NEW p \in Spellings, Canonicalize(r, p)
      PROVE  GivenInv'
  BY <1>2, GivenStart
<1>3. ASSUME NEW r \in Requests, ResolveCore(r) PROVE GivenInv'
  BY <1>3, GivenResolve
<1>4. ASSUME NEW r \in Requests, LockCore(r) PROVE GivenInv'
  BY <1>4 DEF LockCore, Goes, TypeInv, CacheTypeOK, GivenInv, Given, Building
<1>5. ASSUME NEW r \in Requests, Answer(r) PROVE GivenInv'
  BY <1>5 DEF Answer, Goes, TypeInv, CacheTypeOK, GivenInv, Given, Building
<1>6. ASSUME NEW d \in Roots, MakeDir(d) PROVE GivenInv'
  BY <1>6 DEF MakeDir, GivenInv, Given, Building
<1>7. CASE UNCHANGED cvars
  BY <1>7 DEF cvars, GivenInv, Given, Building
<1> QED
  BY <1>1, <1>2, <1>3, <1>4, <1>5, <1>6, <1>7 DEF CacheNext, Serve

LEMMA GivenInit == CacheInit => GivenInv
BY Sentinels DEF CacheInit, GivenInv, Given, Building

(* Two that are about to insert for one path are one request, since both     *)
(* hold the mutex of the map.                                                *)
LEMMA SameCoreFollows == TypeInv /\ GivenInv => SameCore
<1> SUFFICES ASSUME TypeInv, GivenInv,
                    NEW r \in Requests, NEW s \in Requests,
                    handle[r] # NoCore, handle[s] # NoCore, key[r] = key[s]
             PROVE  handle[r] = handle[s]
  BY DEF SameCore
<1>1. Given(r) /\ Given(s)
  BY DEF GivenInv
<1>2. CASE pc[r] = "insert" /\ pc[s] = "insert"
  <2>1. cacheLock = r /\ cacheLock = s
    BY <1>2 DEF TypeInv, CacheTypeOK, LocksHeld, Locked
  <2> QED BY <2>1
<1>3. CASE pc[r] # "insert"
  BY <1>1, <1>3 DEF Given, GivenInv, Building
<1>4. CASE pc[s] # "insert"
  BY <1>1, <1>4 DEF Given, GivenInv, Building
<1> QED BY <1>2, <1>3, <1>4

(* Requests whose paths came out the same are given the same core, however   *)
(* their lookups, builds and failures interleave (resolve_core holds the     *)
(* mutex of the map from the lookup to the insertion).                       *)
THEOREM OneCorePerPath == CacheSpec => []SameCore
<1>1. CacheInit => TypeInv /\ GivenInv
  BY TypeInit, GivenInit
<1>2. TypeInv /\ GivenInv /\ [CacheNext]_cvars => (TypeInv /\ GivenInv)'
  BY TypeNext, GivenNext
<1> QED BY <1>1, <1>2, SameCoreFollows, PTL DEF CacheSpec

-----------------------------------------------------------------------------
(* One writer for each root. *)

LEMMA EarlyNext == TypeInv /\ EarlyInv /\ [CacheNext]_cvars => EarlyInv'
<1> SUFFICES ASSUME TypeInv, EarlyInv, [CacheNext]_cvars PROVE EarlyInv'
  OBVIOUS
<1>1. ASSUME NEW r \in Requests, Omitted(r) PROVE EarlyInv'
  BY <1>1, CacheAssumption
  DEF Omitted, UsesDefault, TypeInv, CacheTypeOK, EarlyInv
<1>2. ASSUME NEW r \in Requests, NEW p \in Spellings, Canonicalize(r, p)
      PROVE  EarlyInv'
  <2>1. /\ \A q \in Requests \ {r} : key'[q] = key[q]
        /\ key'[r] = KeyOf(p)
        /\ early \subseteq early'
        /\ Canon[p] \notin present => p \in early'
    BY <1>2 DEF Canonicalize, UsesDefault, TypeInv, CacheTypeOK
  <2> QED BY <2>1, KeyOfFacts DEF EarlyInv
<1>3. ASSUME NEW r \in Requests, Serve(r) PROVE EarlyInv'
  BY <1>3
  DEF Serve, ResolveCore, LockCache, Found, Missing, CreateDir, OpenCore,
      Insert, BuildFails, LockCore, Answer, EarlyInv
<1>4. ASSUME NEW d \in Roots, MakeDir(d) PROVE EarlyInv'
  BY <1>4 DEF MakeDir, EarlyInv
<1>5. CASE UNCHANGED cvars
  BY <1>5 DEF cvars, EarlyInv
<1> QED BY <1>1, <1>2, <1>3, <1>4, <1>5 DEF CacheNext

LEMMA EarlyInit == CacheInit => EarlyInv
BY Sentinels DEF CacheInit, EarlyInv

(* Two at work hold two mutexes, so they are in two cores and have two       *)
(* paths; the paths of one root are not both canonical.                      *)
LEMMA OneWriterFollows == TypeInv /\ SameCore /\ EarlyInv => OneWriter
<1> SUFFICES ASSUME TypeInv, SameCore, EarlyInv,
                    NEW r \in Requests, NEW s \in Requests, r # s,
                    pc[r] = "work", pc[s] = "work", RootOf(r) = RootOf(s)
             PROVE  handle[r] # handle[s] /\ Aliased(RootOf(r))
  BY DEF OneWriter
<1>1. /\ key[r] \in Spellings /\ key[s] \in Spellings
      /\ handle[r] \in Handles /\ handle[s] \in Handles
      /\ handle[r] # NoCore /\ handle[s] # NoCore
  BY DEF TypeInv, CacheTypeOK, StepInv
<1>2. coreLock[handle[r]] = r /\ coreLock[handle[s]] = s
  BY <1>1 DEF TypeInv, CacheTypeOK, LocksHeld
<1>3. handle[r] # handle[s]
  BY <1>2
<1>4. key[r] # key[s]
  BY <1>1, <1>3 DEF SameCore
<1>5. PICK q \in {r, s} : key[q] # Canon[key[q]]
  BY <1>4 DEF RootOf
<1>6. key[q] \in early /\ Canon[key[q]] = RootOf(r)
  BY <1>1, <1>5 DEF EarlyInv, RootOf
<1> QED BY <1>3, <1>5, <1>6 DEF Aliased

(* One database has one writer, unless a request named its root by a         *)
(* spelling of its own before there was a directory (server.rs:407).         *)
THEOREM OneWriterPerRoot == CacheSpec => []OneWriter
<1>1. CacheInit => TypeInv /\ GivenInv /\ EarlyInv
  BY TypeInit, GivenInit, EarlyInit
<1>2. TypeInv /\ GivenInv /\ EarlyInv /\ [CacheNext]_cvars
        => (TypeInv /\ GivenInv /\ EarlyInv)'
  BY TypeNext, GivenNext, EarlyNext
<1>3. TypeInv /\ GivenInv /\ EarlyInv => OneWriter
  BY SameCoreFollows, OneWriterFollows
<1> QED BY <1>1, <1>2, <1>3, PTL DEF CacheSpec

-----------------------------------------------------------------------------
(* The refinement of CoreTable. *)

(* A core in the map was inserted by the request that built it.              *)
OwnInv ==
  /\ \A r \in Requests : pc[r] = "insert" => handle[r] = r
  /\ \A p \in Spellings :
        cache[p] \in Requests => pc[cache[p]] \in {"core", "work", "done"}

LEMMA OwnInit == CacheInit => OwnInv
BY Sentinels DEF CacheInit, OwnInv

LEMMA OwnNext == TypeInv /\ OwnInv /\ [CacheNext]_cvars => OwnInv'
<1> SUFFICES ASSUME TypeInv, OwnInv, [CacheNext]_cvars PROVE OwnInv'
  OBVIOUS
<1> USE DEF Goes
<1>1. ASSUME NEW r \in Requests,
             \/ Omitted(r) \/ (\E p \in Spellings : Canonicalize(r, p))
      PROVE  OwnInv'
  <2>1. /\ pc[r] = "idle" /\ pc'[r] # "insert" /\ cache' = cache
        /\ \A q \in Requests \ {r} : pc'[q] = pc[q] /\ handle'[q] = handle[q]
    BY <1>1 DEF Omitted, Canonicalize, UsesDefault, TypeInv, CacheTypeOK
  <2> QED BY <2>1 DEF OwnInv
<1>2. ASSUME NEW r \in Requests, LockCache(r) \/ Missing(r) \/ CreateDir(r)
      PROVE  OwnInv'
  BY <1>2 DEF LockCache, Missing, CreateDir, TypeInv, CacheTypeOK, OwnInv
<1>3. ASSUME NEW r \in Requests, Found(r) PROVE OwnInv'
  BY <1>3 DEF Found, TypeInv, CacheTypeOK, OwnInv
<1>4. ASSUME NEW r \in Requests, OpenCore(r) PROVE OwnInv'
  BY <1>4 DEF OpenCore, TypeInv, CacheTypeOK, OwnInv
<1>5. ASSUME NEW r \in Requests, Insert(r) PROVE OwnInv'
  <2>1. /\ pc[r] = "insert" /\ handle[r] = r /\ handle' = handle
        /\ pc' = [pc EXCEPT ![r] = "core"]
        /\ cache' = [cache EXCEPT ![key[r]] = r]
    BY <1>5 DEF Insert, OwnInv
  <2>2. /\ pc'[r] = "core"
        /\ \A q \in Requests \ {r} : pc'[q] = pc[q]
        /\ \A p \in Spellings : cache'[p] \in {r, cache[p]}
    BY <2>1 DEF TypeInv, CacheTypeOK
  <2> QED BY <2>1, <2>2 DEF OwnInv
<1>6. ASSUME NEW r \in Requests, BuildFails(r) \/ LockCore(r) \/ Answer(r)
      PROVE  OwnInv'
  BY <1>6
  DEF BuildFails, FailBuild, LockCore, Answer, TypeInv, CacheTypeOK, OwnInv
<1>7. CASE (\E d \in Roots : MakeDir(d)) \/ UNCHANGED cvars
  BY <1>7 DEF MakeDir, cvars, OwnInv
<1> QED
  BY <1>1, <1>2, <1>3, <1>4, <1>5, <1>6, <1>7
  DEF CacheNext, Serve, ResolveCore

TableInv == TypeInv /\ GivenInv /\ OwnInv

(* What CoreTable is shown. *)
CoreMap == [p \in Spellings |-> CoreOf(p)]
Stages == [r \in Requests |-> StageOf(r)]

LEMMA StageMoves ==
  ASSUME TypeInv, NEW r \in Requests, NEW to, pc' = [pc EXCEPT ![r] = to]
  PROVE  Stages' = [Stages EXCEPT ![r] = StageOf(r)']
<1>1. \A q \in Requests \ {r} : pc'[q] = pc[q]
  BY DEF TypeInv, CacheTypeOK
<1>2. \A q \in Requests \ {r} : StageOf(q)' = StageOf(q)
  BY <1>1 DEF StageOf
<1> QED BY <1>2 DEF Stages

(* A step inside resolve_core that inserts nothing and does not fail.        *)
LEMMA SameStage ==
  ASSUME TypeInv, NEW r \in Requests, NEW to, pc' = [pc EXCEPT ![r] = to],
         pc[r] \notin {"idle", "work", "done"},
         to \notin {"idle", "work", "done"}
  PROVE  Stages' = Stages
<1>1. pc'[r] = to /\ \A q \in Requests \ {r} : pc'[q] = pc[q]
  BY DEF TypeInv, CacheTypeOK
<1>2. \A q \in Requests : StageOf(q)' = StageOf(q)
  BY <1>1 DEF StageOf
<1> QED BY <1>2 DEF Stages

LEMMA SameCoreMap ==
  ASSUME cache' = cache
  PROVE  CoreMap' = CoreMap
BY DEF CoreMap, CoreOf

(* A request that is in resolve_core or past it and works on a core has the  *)
(* core of its path.                                                         *)
LEMMA HandleOfPath ==
  ASSUME TableInv, NEW r \in Requests, pc[r] \in {"core", "work"}
  PROVE  /\ key[r] \in Spellings
         /\ handle[r] \in Handles
         /\ handle[r] # NoCore
         /\ CoreMap[key[r]] = handle[r]
<1>1. /\ key[r] \in Spellings /\ handle[r] \in Handles
      /\ handle[r] # NoCore
  BY DEF TableInv, TypeInv, StepInv, CacheTypeOK
<1>2. \/ key[r] = Default /\ handle[r] = Startup
      \/ key[r] # Default /\ cache[key[r]] = handle[r]
  BY <1>1 DEF TableInv, GivenInv, Given
<1> QED BY <1>1, <1>2 DEF CoreMap, CoreOf

LEMMA TableCall ==
  ASSUME TableInv, NEW r \in Requests, NEW p \in Spellings,
         Omitted(r) \/ Canonicalize(r, p)
  PROVE  \E d \in Spellings : Table!Call(r, d)
<1>1. PICK d \in Spellings : key' = [key EXCEPT ![r] = d]
  BY KeyOfFacts, Sentinels DEF Omitted, Canonicalize, UsesDefault
<1>2. PICK to \in {"core", "cache"} :
        pc[r] = "idle" /\ pc' = [pc EXCEPT ![r] = to]
  BY DEF Omitted, Canonicalize, UsesDefault, Goes
<1>3. cache' = cache /\ coreLock' = coreLock
  BY DEF Omitted, Canonicalize
<1>4. Stages[r] = "new" /\ Stages' = [Stages EXCEPT ![r] = "called"]
  <2>1. pc'[r] = to
    BY <1>2 DEF TableInv, TypeInv, CacheTypeOK
  <2>2. StageOf(r)' = "called"
    BY <1>2, <2>1 DEF StageOf
  <2>3. Stages' = [Stages EXCEPT ![r] = StageOf(r)']
    BY <1>2, StageMoves DEF TableInv
  <2> QED BY <1>2, <2>2, <2>3 DEF Stages, StageOf
<1>5. CoreMap' = CoreMap
  BY <1>3, SameCoreMap
<1>6. Table!Call(r, d)
  BY <1>1, <1>3, <1>4, <1>5
  DEF Table!Call, Table!Moves, Stages, CoreMap
<1> QED BY <1>6

LEMMA TableInsert ==
  ASSUME TableInv, NEW r \in Requests, Insert(r)
  PROVE  \E h \in Handles : Table!Make(r, h)
<1>1. /\ pc[r] = "insert" /\ pc' = [pc EXCEPT ![r] = "core"]
      /\ cache' = [cache EXCEPT ![key[r]] = handle[r]]
      /\ key' = key /\ coreLock' = coreLock
  BY DEF Insert, Goes
<1>2. /\ handle[r] = r /\ r \in Handles
      /\ key[r] \in Spellings /\ key[r] # Default
      /\ cache[key[r]] = NoCore
  BY <1>1, Sentinels
  DEF TableInv, OwnInv, GivenInv, Building, TypeInv, StepInv, Locked
<1>3. Stages' = Stages /\ Stages[r] = "called"
  BY <1>1, SameStage DEF TableInv, Stages, StageOf
<1>4. CoreMap[key[r]] = NoCore
  BY <1>2 DEF CoreMap, CoreOf
<1>5. \A p \in Spellings : CoreMap[p] # r
  <2>1. \A p \in Spellings : cache[p] # r
    BY <1>1 DEF TableInv, OwnInv
  <2>2. Startup # r
    BY CacheAssumption
  <2> QED BY <2>1, <2>2 DEF CoreMap, CoreOf
<1>6. CoreMap' = [CoreMap EXCEPT ![key[r]] = r]
  <2>1. \A p \in Spellings : cache'[p] = IF p = key[r] THEN r ELSE cache[p]
    BY <1>1, <1>2 DEF TableInv, TypeInv, CacheTypeOK
  <2>2. \A p \in Spellings :
           CoreMap'[p] = IF p = key[r] THEN r ELSE CoreMap[p]
    BY <1>2, <2>1 DEF CoreMap, CoreOf
  <2> QED BY <1>2, <2>2 DEF CoreMap
<1>7. Table!Make(r, r)
  BY <1>1, <1>3, <1>4, <1>5, <1>6 DEF Table!Make, Stages, CoreMap
<1> QED BY <1>2, <1>7

LEMMA TableEnter ==
  ASSUME TableInv, NEW r \in Requests, LockCore(r)
  PROVE  Table!Enter(r)
<1>1. /\ pc[r] = "core" /\ pc' = [pc EXCEPT ![r] = "work"]
      /\ coreLock[handle[r]] = NoRequest
      /\ coreLock' = [coreLock EXCEPT ![handle[r]] = r]
      /\ cache' = cache /\ key' = key
  BY DEF LockCore, Goes
<1>2. CoreMap[key[r]] = handle[r] /\ handle[r] # NoCore
  BY <1>1, HandleOfPath
<1>3. Stages[r] = "called" /\ Stages' = [Stages EXCEPT ![r] = "working"]
  <2>1. pc'[r] = "work"
    BY <1>1 DEF TableInv, TypeInv, CacheTypeOK
  <2>2. Stages' = [Stages EXCEPT ![r] = StageOf(r)']
    BY <1>1, StageMoves DEF TableInv
  <2> QED BY <1>1, <2>1, <2>2 DEF Stages, StageOf
<1>4. CoreMap' = CoreMap
  BY <1>1, SameCoreMap
<1> QED BY <1>1, <1>2, <1>3, <1>4
        DEF Table!Enter, Table!Moves, Stages, CoreMap

LEMMA TableLeave ==
  ASSUME TableInv, NEW r \in Requests, Answer(r)
  PROVE  Table!Leave(r)
<1>1. /\ pc[r] = "work" /\ pc' = [pc EXCEPT ![r] = "done"]
      /\ coreLock' = [coreLock EXCEPT ![handle[r]] = NoRequest]
      /\ cache' = cache /\ key' = key
  BY DEF Answer, Goes
<1>2. CoreMap[key[r]] = handle[r]
  BY <1>1, HandleOfPath
<1>3. Stages[r] = "working" /\ Stages' = [Stages EXCEPT ![r] = "answered"]
  <2>1. pc'[r] = "done"
    BY <1>1 DEF TableInv, TypeInv, CacheTypeOK
  <2>2. Stages' = [Stages EXCEPT ![r] = StageOf(r)']
    BY <1>1, StageMoves DEF TableInv
  <2> QED BY <1>1, <2>1, <2>2 DEF Stages, StageOf
<1>4. CoreMap' = CoreMap
  BY <1>1, SameCoreMap
<1> QED BY <1>1, <1>2, <1>3, <1>4
        DEF Table!Leave, Table!Moves, Stages, CoreMap

LEMMA TableRefuse ==
  ASSUME TableInv, NEW r \in Requests, BuildFails(r)
  PROVE  Table!Refuse(r)
<1>1. /\ pc[r] \in {"mkdir", "open"} /\ pc' = [pc EXCEPT ![r] = "done"]
      /\ coreLock' = coreLock /\ cache' = cache /\ key' = key
  BY DEF BuildFails, FailBuild
<1>2. /\ key[r] \in Spellings /\ key[r] # Default
      /\ cache[key[r]] = NoCore
  BY <1>1 DEF TableInv, GivenInv, Building, TypeInv, StepInv, Locked
<1>3. CoreMap[key[r]] = NoCore /\ CoreMap' = CoreMap
  BY <1>1, <1>2, SameCoreMap DEF CoreMap, CoreOf
<1>4. Stages[r] = "called" /\ Stages' = [Stages EXCEPT ![r] = "answered"]
  <2>1. pc'[r] = "done"
    BY <1>1 DEF TableInv, TypeInv, CacheTypeOK
  <2>2. Stages' = [Stages EXCEPT ![r] = StageOf(r)']
    BY <1>1, StageMoves DEF TableInv
  <2> QED BY <1>1, <2>1, <2>2 DEF Stages, StageOf
<1> QED BY <1>1, <1>3, <1>4 DEF Table!Refuse, Table!Moves, Stages, CoreMap

LEMMA TableStutter ==
  ASSUME TableInv, NEW r \in Requests,
         \/ LockCache(r) \/ Found(r) \/ Missing(r)
         \/ CreateDir(r) \/ OpenCore(r)
  PROVE  UNCHANGED <<CoreMap, coreLock, Stages, key>>
<1>1. UNCHANGED <<cache, coreLock, key>>
  BY DEF LockCache, Found, Missing, CreateDir, OpenCore
<1>2. \E to \in {"lookup", "core", "mkdir", "open", "insert"} :
         /\ pc[r] \in {"cache", "lookup", "mkdir", "open"}
         /\ pc' = [pc EXCEPT ![r] = to]
  BY DEF LockCache, Found, Missing, CreateDir, OpenCore, Goes
<1>3. Stages' = Stages
  BY <1>2, SameStage DEF TableInv
<1> QED BY <1>1, <1>3, SameCoreMap

LEMMA TableStep ==
  ASSUME TableInv, [CacheNext]_cvars
  PROVE  Table!TableNext \/ UNCHANGED <<CoreMap, coreLock, Stages, key>>
<1>1. ASSUME NEW r \in Requests, Omitted(r) PROVE Table!TableNext
  BY <1>1, TableCall, Sentinels DEF Table!TableNext
<1>2. ASSUME NEW r \in Requests, NEW p \in Spellings, Canonicalize(r, p)
      PROVE  Table!TableNext
  BY <1>2, TableCall DEF Table!TableNext
<1>3. ASSUME NEW r \in Requests, Serve(r)
      PROVE  Table!TableNext \/ UNCHANGED <<CoreMap, coreLock, Stages, key>>
  BY <1>3, TableInsert, TableEnter, TableLeave, TableRefuse, TableStutter
  DEF Serve, ResolveCore, Table!TableNext
<1>4. CASE (\E d \in Roots : MakeDir(d)) \/ UNCHANGED cvars
  BY <1>4 DEF MakeDir, cvars, CoreMap, CoreOf, Stages, StageOf
<1> QED BY <1>1, <1>2, <1>3, <1>4 DEF CacheNext

(* However many requests look up, build and fail at once, and however they   *)
(* spell their roots, each path has one core, made when it is first needed   *)
(* and kept, and a request works in the core of its path alone (server.rs    *)
(* resolve_core, the handlers of tools.rs).                                  *)
THEOREM CoreTableImplemented == CacheSpec => ImplementsCoreTable
<1>1. CacheInit => TableInv
  BY TypeInit, GivenInit, OwnInit DEF TableInv
<1>2. TableInv /\ [CacheNext]_cvars => TableInv'
  BY TypeNext, GivenNext, OwnNext DEF TableInv
<1>3. CacheInit => Table!TableInit
  BY DEF CacheInit, Table!TableInit, CoreOf, StageOf
<1>4. TableInv /\ [CacheNext]_cvars => [Table!TableNext]_(Table!tvars)
  BY TableStep DEF Table!tvars, CoreMap, Stages
<1>5. CacheSpec => Table!TableSpec
  BY <1>1, <1>2, <1>3, <1>4, PTL DEF CacheSpec, Table!TableSpec
<1> QED BY <1>5 DEF ImplementsCoreTable
=============================================================================
