------------------------------ MODULE CoreTable ------------------------------
(***************************************************************************)
(* What the server promises of its cores (the comment of resolve_core,     *)
(* rmcp/server.rs), with nothing of mutexes, lookups or spellings: the     *)
(* startup path has its core from the start, any other path is given one   *)
(* of its own when a request needs it and keeps it; a request works in the *)
(* core of its path, alone, and is answered.  It is refused only while its *)
(* path has no core.  CoreCache implements it.                             *)
(***************************************************************************)

CONSTANTS
  Requests,  \* tool calls
  Paths,     \* names of project roots
  Handles,   \* cores
  Default,   \* the startup path
  Startup,   \* its core
  NoCore,    \* "no core (yet)"
  NoKey,     \* "no path (yet)"
  NoRequest  \* "nobody"

VARIABLES
  core,   \* of each path
  user,   \* the request that works in each core
  stage,  \* of each request: new, called, working or answered
  path    \* of each request

tvars == <<core, user, stage, path>>

TableTypeOK ==
  /\ core \in [Paths -> Handles \cup {NoCore}]
  /\ user \in [Handles -> Requests \cup {NoRequest}]
  /\ stage \in [Requests -> {"new", "called", "working", "answered"}]
  /\ path \in [Requests -> Paths \cup {NoKey}]

TableInit ==
  /\ core = [p \in Paths |-> IF p = Default THEN Startup ELSE NoCore]
  /\ user = [h \in Handles |-> NoRequest]
  /\ stage = [r \in Requests |-> "new"]
  /\ path = [r \in Requests |-> NoKey]

Moves(r, from, to) ==
  /\ stage[r] = from
  /\ stage' = [stage EXCEPT ![r] = to]

Call(r, p) ==
  /\ Moves(r, "new", "called")
  /\ path' = [path EXCEPT ![r] = p]
  /\ UNCHANGED <<core, user>>

(* A core that no path has is made for the path of a request that waits.     *)
Make(r, h) ==
  /\ stage[r] = "called"
  /\ core[path[r]] = NoCore
  /\ \A p \in Paths : core[p] # h
  /\ core' = [core EXCEPT ![path[r]] = h]
  /\ UNCHANGED <<user, stage, path>>

Enter(r) ==
  /\ Moves(r, "called", "working")
  /\ core[path[r]] # NoCore
  /\ user[core[path[r]]] = NoRequest
  /\ user' = [user EXCEPT ![core[path[r]]] = r]
  /\ UNCHANGED <<core, path>>

Leave(r) ==
  /\ Moves(r, "working", "answered")
  /\ user' = [user EXCEPT ![core[path[r]]] = NoRequest]
  /\ UNCHANGED <<core, path>>

Refuse(r) ==
  /\ Moves(r, "called", "answered")
  /\ core[path[r]] = NoCore
  /\ UNCHANGED <<core, user, path>>

TableNext ==
  \E r \in Requests :
     \/ \E p \in Paths : Call(r, p)
     \/ \E h \in Handles : Make(r, h)
     \/ Enter(r) \/ Leave(r) \/ Refuse(r)

TableSpec == TableInit /\ [][TableNext]_tvars
=============================================================================
