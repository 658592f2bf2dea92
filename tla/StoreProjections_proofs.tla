------------------------ MODULE StoreProjections_proofs ------------------------
(***************************************************************************)
(* Proofs about StoreProjections, for every number of cores, chapters,     *)
(* rows and projections, and without a bound on faults.                    *)
(***************************************************************************)
EXTENDS StoreProjections, TLAPS

(* A core works on one chapter of its store; it goes through a list.         *)
Rebuilding(w) == call[w] # NoCall /\ call[w].step \notin {"mark", "replay"}

Listing(w) == call[w] # NoCall /\ call[w].step # "mark"

(* Each step belongs to the projections that have it.                        *)
KindSound(w) ==
  call[w] # NoCall =>
    LET x == call[w] IN
    /\ x.step \in {"delete", "insert"} => Kind[x.store] = "fts5"
    /\ x.step = "embed" => Kind[x.store] \in {"vector-sqlite", "vector"}
    /\ x.step \in {"ensure", "query", "update", "create"}
         => Kind[x.store] \in Remote
    /\ x.step \in {"replay", "delete"} => x.next = 1

TypeInv == StoresTypeOK /\ \A w \in Cores : KindSound(w)

(* The history misses nothing: a part two work on is disturbed, and a        *)
(* rebuild owes nothing for a chapter that somebody else works on.           *)
HistoryInv ==
  /\ Contended(call) \subseteq disturbed
  /\ \A w \in Cores : Listing(w) => Others(call, w) \subseteq exempt[w]

(* Nobody else has worked on the chapter since its replay.                   *)
Alone(w) ==
  \/ call[w].at \notin exempt[w]
  \/ Kind[call[w].store] \in Invalidating /\ Part(w) \notin disturbed

(* What a rebuild read is still what the journal has, and what it has        *)
(* inserted is what the index holds.                                         *)
Fresh(w) ==
  Rebuilding(w) /\ Alone(w) =>
    /\ call[w].text = RenderText(Kind[call[w].store], size[call[w].at])
    /\ call[w].step = "insert" => Holds(w) = [i \in 1 .. call[w].next - 1 |-> i]

(* Before its first statement a rebuild of an index can fail without loss.   *)
Untouched(w) ==
  Rebuilding(w) /\ call[w].step # "insert"
    /\ Kind[call[w].store] \in Invalidating /\ Part(w) \notin disturbed
    => Holds(w) \in {<< >>, Pieces(Kind[call[w].store], size[call[w].at])}

(* The indexes that an append has already told hold nothing of the chapter;  *)
(* those that it will not tell are disturbed.                                *)
Told(w) ==
  Doing(w, "mark") =>
    \A s \in Stores :
       Kind[s] \in Invalidating /\ <<s, call[w].at>> \notin disturbed
       => /\ s \in StoresOf(w)
          /\ \A i \in DOMAIN attached[w] :
                i < call[w].next /\ attached[w][i] = s
                => held[s][call[w].at] = << >>

(* docs is the whole of a chapter of n rows.                                 *)
Whole(k, docs, n) ==
  IF k \in Remote THEN \E i \in DOMAIN docs : <<docs[i]>> = Pieces(k, n)
                  ELSE docs = Pieces(k, n)

(* The chapters that a rebuild is done with are in its store.                *)
Done(w) ==
  Listing(w) =>
    \A c \in Chapters \ exempt[w] :
       \/ c = call[w].at
       \/ c \in call[w].todo
       \/ Whole(Kind[call[w].store], held[call[w].store][c], size[c])

(* A document is created only where the query found none.                    *)
FirstDocument(w) ==
  Doing(w, "create") => Holds(w) = << >> \/ Part(w) \in disturbed

CoreInv(w) == Fresh(w) /\ Untouched(w) /\ Told(w) /\ Done(w)

IndexInv == TypeInv /\ HistoryInv /\ IndexFaithful /\ \A w \in Cores : CoreInv(w)

DocumentInv ==
  TypeInv /\ HistoryInv /\ OneDocument /\ \A w \in Cores : FirstDocument(w)

-----------------------------------------------------------------------------
(* Who works on what, for any assignment of calls. *)

LEMMA WorksOn ==
  ASSUME NEW calls, NEW w, NEW p
  PROVE  /\ p \in Rebuilds(calls, w)
              <=> /\ calls[w] # NoCall
                  /\ calls[w].step \notin {"mark", "replay"}
                  /\ p = <<calls[w].store, calls[w].at>>
         /\ p \in Notifies(calls, w)
              <=> /\ calls[w] # NoCall
                  /\ calls[w].step = "mark"
                  /\ p \in Stores \X {calls[w].at}
<1>1. CASE calls[w] = NoCall
  BY <1>1 DEF Rebuilds, Notifies
<1>2. CASE calls[w] # NoCall
  BY <1>2 DEF Rebuilds, Notifies
<1> QED BY <1>1, <1>2

(* Two that work on one part of a store are contending.                      *)
LEMMA Contending ==
  ASSUME NEW calls, NEW u \in Cores, NEW v \in Cores, u # v,
         NEW p \in Rebuilds(calls, u),
         \/ p \in Rebuilds(calls, v)
         \/ p \in Notifies(calls, v) /\ Kind[p[1]] \in Invalidating
  PROVE  p \in Contended(calls)
<1>1. v \in Cores \ {u}
  OBVIOUS
<1>2. p \in Rebuilds(calls, v) \cup
            {q \in Notifies(calls, v) : Kind[q[1]] \in Invalidating}
  OBVIOUS
<1> QED BY <1>1, <1>2 DEF Contended

LEMMA ForOthers ==
  ASSUME NEW calls, NEW u \in Cores, NEW v \in Cores, u # v,
         calls[u] # NoCall,
         <<calls[v].store, calls[u].at>> \in Works(calls, u)
  PROVE  calls[u].at \in Others(calls, v)
BY DEF Others

-----------------------------------------------------------------------------
(* Types. *)

LEMMA KindFacts ==
  ASSUME NEW s \in Stores
  PROVE  /\ Kind[s] \in {"fts5", "vector-sqlite", "vector", "outline", "miniapp"}
         /\ Kind[s] \in Remote <=> Kind[s] \in {"outline", "miniapp"}
         /\ Kind[s] \in Invalidating <=> Kind[s] \in {"fts5", "vector-sqlite"}
BY StoresAssumption DEF Kinds, Remote, Invalidating

LEMMA TextTypes ==
  ASSUME NEW k, NEW n \in Nat
  PROVE  RenderText(k, n) \in Nat
BY DEF RenderText, Summary

(* A call in progress.                                                       *)
LEMMA CallTypes ==
  ASSUME TypeInv, NEW w \in Cores, call[w] # NoCall
  PROVE  /\ call[w] \in StoreCall
         /\ call[w].store \in Stores
         /\ call[w].at \in Chapters
         /\ call[w].todo \subseteq Chapters
         /\ call[w].text \in Nat
         /\ call[w].next \in Nat
         /\ call[w].found \in Nat
         /\ held[call[w].store][call[w].at] \in Seq(Nat)
<1>1. call[w] \in StoreCall
  BY DEF TypeInv, StoresTypeOK
<1> QED BY <1>1 DEF TypeInv, StoresTypeOK, StoreCall

LEMMA AttachedTypes ==
  ASSUME TypeInv, NEW w \in Cores
  PROVE  /\ attached[w] \in Seq(Stores)
         /\ Len(attached[w]) \in Nat \ {0}
         /\ DOMAIN attached[w] = 1 .. Len(attached[w])
         /\ \A i \in DOMAIN attached[w] : attached[w][i] \in Stores
         /\ \A i, j \in DOMAIN attached[w] :
               attached[w][i] = attached[w][j] => i = j
         /\ StoresOf(w) \subseteq Stores
<1>1. attached \in [Cores -> Seq(Stores)] /\ attached \in Setups
  BY StoresAssumption DEF TypeInv, StoresTypeOK
<1>2. attached[w] # << >>
  BY <1>1, StoresAssumption
<1>3. \A i, j \in DOMAIN attached[w] : attached[w][i] = attached[w][j] => i = j
  BY <1>1, StoresAssumption
<1>4. /\ Len(attached[w]) \in Nat \ {0}
      /\ DOMAIN attached[w] = 1 .. Len(attached[w])
      /\ \A i \in DOMAIN attached[w] : attached[w][i] \in Stores
  BY <1>1, <1>2
<1> QED BY <1>1, <1>3, <1>4 DEF StoresOf

(* What a statement of a call does to the stores.                            *)
LEMMA PutEffect ==
  ASSUME TypeInv, NEW w \in Cores, call[w] # NoCall, NEW x \in Seq(Nat),
         Put(w, x)
  PROVE  /\ held' \in [Stores -> [Chapters -> Seq(Nat)]]
         /\ held'[call[w].store][call[w].at] = x
         /\ \A s \in Stores, c \in Chapters :
               <<s, c>> # Part(w) => held'[s][c] = held[s][c]
<1>1. call[w].store \in Stores /\ call[w].at \in Chapters
  BY CallTypes
<1>2. held \in [Stores -> [Chapters -> Seq(Nat)]]
  BY DEF TypeInv, StoresTypeOK
<1> QED BY <1>1, <1>2 DEF Put, Part

-----------------------------------------------------------------------------
(* What every step of a core has in common. *)

Exempts ==
  exempt' = [v \in Cores |->
               IF call'[v] = NoCall \/ call'[v].step = "mark" THEN {}
               ELSE (IF call[v] = NoCall THEN Chapters \ closed ELSE exempt[v])
                      \cup Others(call', v)]

Noted ==
  /\ Contended(call') \subseteq disturbed'
  /\ disturbed' \subseteq disturbed \cup (Stores \X Chapters) \cup Contended(call')
  /\ Exempts

(* A core changes what it works on, a DELETE by mark_dirty leaves nothing,   *)
(* and embeddings in memory go with their process.                           *)
Wrote(w, s, c) ==
  \/ Rebuilding(w) /\ <<s, c>> = Part(w)
  \/ /\ Doing(w, "mark") /\ call[w].at = c
     /\ Kind[s] \in Invalidating /\ held'[s][c] = << >>
  \/ Kind[s] = "vector" /\ s \in StoresOf(w)

Healed(w, p) ==
  /\ Rebuilding(w) /\ p = Part(w)
  /\ Kind[call[w].store] \in Invalidating /\ call[w].at \notin exempt[w]

Moves(w) ==
  /\ attached' = attached
  /\ call' = [call EXCEPT ![w] = call'[w]]
  /\ Noted
  /\ \A p \in disturbed \ disturbed' : Healed(w, p)
  /\ \A c \in Chapters :
        size'[c] # size[c] => Doing(w, "mark")' /\ call'[w].at = c
  /\ \A s \in Stores, c \in Chapters :
        held'[s][c] # held[s][c] => Wrote(w, s, c)

(* The next chapter of the list, or the end of the call.                     *)
GoesOn(w) ==
  \/ call'[w] = NoCall /\ call[w].todo = {}
  \/ \E c \in call[w].todo :
        call'[w] = AtReplay(call[w].store, c, call[w].todo \ {c})

LEMMA BecomesEffect ==
  ASSUME TypeInv, NEW w \in Cores, NEW x, Becomes(w, x)
  PROVE  call' = [call EXCEPT ![w] = call'[w]] /\ call'[w] = x
BY DEF Becomes, TypeInv, StoresTypeOK

LEMMA ReturnsEffect ==
  ASSUME TypeInv, NEW w \in Cores, Returns(w)
  PROVE  call' = [call EXCEPT ![w] = call'[w]] /\ call'[w] = NoCall
BY DEF Returns, Becomes, TypeInv, StoresTypeOK

LEMMA ProceedEffect ==
  ASSUME TypeInv, NEW w \in Cores, call[w] # NoCall, Proceed(w)
  PROVE  /\ call' = [call EXCEPT ![w] = call'[w]]
         /\ GoesOn(w)
         /\ History(Heals(w), {})
<1>1. CASE call[w].todo = {}
  BY <1>1, ReturnsEffect DEF Proceed, GoesOn
<1>2. CASE call[w].todo # {}
  <2>1. PICK c \in NewestOf(call[w].todo) :
           Becomes(w, AtReplay(call[w].store, c, call[w].todo \ {c}))
    BY <1>2 DEF Proceed
  <2>2. c \in call[w].todo
    BY DEF NewestOf
  <2>3. /\ call' = [call EXCEPT ![w] = call'[w]]
        /\ call'[w] = AtReplay(call[w].store, c, call[w].todo \ {c})
    BY <2>1 DEF Becomes, TypeInv, StoresTypeOK
  <2> QED BY <1>2, <2>2, <2>3 DEF Proceed, GoesOn
<1> QED BY <1>1, <1>2

LEMMA NextProjectionEffect ==
  ASSUME TypeInv, NEW w \in Cores, call[w] # NoCall, NextProjection(w)
  PROVE  /\ call' = [call EXCEPT ![w] = call'[w]]
         /\ \/ call[w].next = Len(attached[w]) /\ call'[w] = NoCall
            \/ /\ call[w].next # Len(attached[w])
               /\ call'[w] = [call[w] EXCEPT
                                !.next = call[w].next + 1,
                                !.store = attached[w][call[w].next + 1]]
<1>1. CASE call[w].next = Len(attached[w])
  BY <1>1, ReturnsEffect DEF NextProjection
<1>2. CASE call[w].next # Len(attached[w])
  BY <1>2 DEF NextProjection, Becomes, TypeInv, StoresTypeOK
<1> QED BY <1>1, <1>2

LEMMA QuietHistory ==
  ASSUME History({}, {})
  PROVE  Noted /\ disturbed \subseteq disturbed'
BY DEF History, Noted, Exempts

LEMMA HealingHistory ==
  ASSUME NEW w \in Cores, Rebuilding(w), History(Heals(w), {})
  PROVE  /\ Noted
         /\ \A p \in disturbed \ disturbed' : Healed(w, p)
<1>1. Noted
  BY DEF History, Noted, Exempts
<1>2. \A p \in Heals(w) : Healed(w, p)
  BY DEF Heals, Healed
<1> QED BY <1>1, <1>2 DEF History

(* The history always has its types.                                         *)
LEMMA HistoryTypes ==
  ASSUME TypeInv, call' \in [Cores -> StoreCall \cup {NoCall}],
         Noted
  PROVE  /\ disturbed' \subseteq Stores \X Chapters
         /\ exempt' \in [Cores -> SUBSET Chapters]
<1>1. \A v \in Cores : call'[v] # NoCall
        => call'[v] \in StoreCall /\ call'[v].at \in Chapters
                                  /\ call'[v].store \in Stores
  BY DEF StoreCall
<1>2. Contended(call') \subseteq Stores \X Chapters
  <2> SUFFICES ASSUME NEW u \in Cores, NEW p \in Rebuilds(call', u)
               PROVE  p \in Stores \X Chapters
    BY DEF Contended
  <2> QED BY <1>1, WorksOn
<1>3. \A v \in Cores : Others(call', v) \subseteq Chapters
  BY <1>1 DEF Others
<1>4. disturbed' \subseteq Stores \X Chapters
  BY <1>2 DEF Noted, TypeInv, StoresTypeOK
<1>5. exempt' \in [Cores -> SUBSET Chapters]
  BY <1>3 DEF Noted, Exempts, TypeInv, StoresTypeOK
<1> QED BY <1>4, <1>5

(* A call notifies the indexes it has not reached.                           *)
LEMMA UnfinishedFacts ==
  ASSUME TypeInv, NEW w \in Cores
  PROVE  Unfinished(w) \subseteq Stores \X Chapters
<1>1. CASE Doing(w, "insert")
  BY <1>1, CallTypes DEF Unfinished, Part, Doing
<1>2. CASE ~Doing(w, "insert")
  <2>1. \A p \in Notifies(call, w) : p \in Stores \X Chapters
    BY WorksOn, CallTypes
  <2> QED BY <1>2, <2>1 DEF Unfinished
<1> QED BY <1>1, <1>2

LEMMA FailingHistory ==
  ASSUME TypeInv, NEW w \in Cores, History({}, Unfinished(w))
  PROVE  /\ Noted
         /\ disturbed \subseteq disturbed'
         /\ Unfinished(w) \subseteq disturbed'
BY UnfinishedFacts DEF History, Noted, Exempts

-----------------------------------------------------------------------------
(* Each step is one of these moves. *)

LEMMA CommitMoves ==
  ASSUME TypeInv, NEW w \in Cores, NEW c \in Chapters, Commit(w, c)
  PROVE  Moves(w)
<1>1. /\ call' = [call EXCEPT ![w] = call'[w]]
      /\ call'[w] = [store |-> attached[w][1], at |-> c, todo |-> {},
                     step |-> "mark", text |-> 0, next |-> 1, found |-> 0]
  BY BecomesEffect DEF Commit
<1>2. Doing(w, "mark")' /\ call'[w].at = c
  <2>1. call'[w] \in StoreCall
    BY <1>1, AttachedTypes DEF StoreCall
  <2>2. call'[w] # NoCall
    BY <2>1, StoresAssumption
  <2>3. call'[w].step = "mark" /\ call'[w].at = c
    BY <1>1
  <2> QED BY <2>2, <2>3 DEF Doing
<1>3. Noted /\ disturbed \subseteq disturbed'
  <2>1. {<<s, c>> : s \in Unnotified(w)} \subseteq Stores \X Chapters
    BY DEF Unnotified
  <2> QED BY <2>1 DEF Commit, History, Noted, Exempts
<1>4. \A d \in Chapters : size'[d] # size[d] => d = c
  BY DEF Commit, TypeInv, StoresTypeOK
<1> QED BY <1>1, <1>2, <1>3, <1>4 DEF Commit, Moves

LEMMA MarkMoves ==
  ASSUME TypeInv, NEW w \in Cores, MarkDirty(w)
  PROVE  Moves(w)
<1>1. Doing(w, "mark") /\ call[w] # NoCall
  BY DEF MarkDirty, Doing
<1>2. call' = [call EXCEPT ![w] = call'[w]]
  BY <1>1, NextProjectionEffect DEF MarkDirty
<1>3. Noted /\ disturbed \subseteq disturbed'
  BY QuietHistory DEF MarkDirty
<1>4. \A s \in Stores, c \in Chapters :
         held'[s][c] # held[s][c] => Wrote(w, s, c)
  <2>1. CASE Kind[call[w].store] \in Invalidating
    <3>1. Put(w, << >>) /\ << >> \in Seq(Nat)
      BY <2>1 DEF MarkDirty
    <3>2. /\ held'[call[w].store][call[w].at] = << >>
          /\ \A s \in Stores, c \in Chapters :
                <<s, c>> # Part(w) => held'[s][c] = held[s][c]
      BY <1>1, <3>1, PutEffect
    <3>3. \A s \in Stores, c \in Chapters : <<s, c>> = Part(w)
            => s = call[w].store /\ c = call[w].at
      BY DEF Part
    <3> QED BY <1>1, <2>1, <3>2, <3>3 DEF Wrote
  <2>2. CASE Kind[call[w].store] \notin Invalidating
    BY <2>2 DEF MarkDirty
  <2> QED BY <2>1, <2>2
<1> QED BY <1>2, <1>3, <1>4 DEF MarkDirty, Moves

LEMMA BeginMoves ==
  ASSUME TypeInv, NEW w \in Cores, NEW s \in Stores, Begin(w, s)
  PROVE  Moves(w)
<1>1. call' = [call EXCEPT ![w] = call'[w]]
  BY BecomesEffect DEF Begin
<1> QED BY <1>1, QuietHistory DEF Begin, Moves

(* Steps that read, or prepare a store without changing it.                  *)
LEMMA ReadMoves ==
  ASSUME TypeInv, NEW w \in Cores, Replay(w) \/ EnsureSchema(w) \/ Query(w)
  PROVE  Moves(w)
<1>1. call' = [call EXCEPT ![w] = call'[w]]
  BY BecomesEffect DEF Replay, EnsureSchema, Query
<1>2. Noted /\ disturbed \subseteq disturbed'
  BY QuietHistory DEF Replay, EnsureSchema, Query
<1> QED BY <1>1, <1>2 DEF Replay, EnsureSchema, Query, Moves

LEMMA UpdatedType ==
  ASSUME TypeInv, NEW w \in Cores, Doing(w, "update")
  PROVE  /\ Updated(w) \in Seq(Nat)
         /\ DOMAIN Updated(w) = DOMAIN Holds(w)
         /\ Len(Updated(w)) = Len(Holds(w))
         /\ call[w].found \in DOMAIN Updated(w)
         /\ Updated(w)[call[w].found] = call[w].text
<1>1. /\ call[w] # NoCall
      /\ call[w].found \in DOMAIN Holds(w)
  BY DEF Doing, TypeInv, StoresTypeOK, StepSound, Holds
<1>2. Holds(w) \in Seq(Nat) /\ call[w].text \in Nat
  BY <1>1, CallTypes DEF Holds
<1> QED BY <1>1, <1>2 DEF Updated

LEMMA CreatedType ==
  ASSUME TypeInv, NEW w \in Cores, call[w] # NoCall
  PROVE  /\ Created(w) \in Seq(Nat)
         /\ DOMAIN Holds(w) \subseteq DOMAIN Created(w)
         /\ Len(Created(w)) = Len(Holds(w)) + 1
         /\ Len(Created(w)) \in DOMAIN Created(w)
         /\ Created(w)[Len(Created(w))] = call[w].text
<1>1. Holds(w) \in Seq(Nat) /\ call[w].text \in Nat
  BY CallTypes DEF Holds
<1> QED BY <1>1 DEF Created

Writes(w) ==
  \/ DeleteChapter(w) \/ InsertRow(w) \/ StoreEmbedding(w)
  \/ Update(w) \/ Create(w) \/ AnswerLost(w)

(* A statement or a request changes the chapter in work and no other.        *)
LEMMA WriteEffect ==
  ASSUME TypeInv, NEW w \in Cores, Writes(w)
  PROVE  /\ Rebuilding(w)
         /\ held' \in [Stores -> [Chapters -> Seq(Nat)]]
         /\ \A s \in Stores, c \in Chapters :
               <<s, c>> # Part(w) => held'[s][c] = held[s][c]
<1>1. Rebuilding(w) /\ call[w] # NoCall
  BY DEF Writes, Rebuilding, Doing, DeleteChapter, InsertRow, StoreEmbedding,
         Update, Create, AnswerLost
<1>2. \E x \in Seq(Nat) : Put(w, x)
  <2>1. CASE DeleteChapter(w)
    <3>1. Put(w, << >>) /\ << >> \in Seq(Nat)
      BY <2>1 DEF DeleteChapter
    <3> QED BY <3>1
  <2>2. CASE InsertRow(w)
    <3>1. Append(Holds(w), call[w].next) \in Seq(Nat)
      BY <1>1, CallTypes DEF Holds
    <3> QED BY <2>2, <3>1 DEF InsertRow
  <2>3. CASE StoreEmbedding(w)
    <3>1. <<call[w].text>> \in Seq(Nat)
      BY <1>1, CallTypes
    <3> QED BY <2>3, <3>1 DEF StoreEmbedding
  <2>4. CASE Update(w)
    BY <2>4, UpdatedType DEF Update
  <2>5. CASE Create(w)
    BY <1>1, <2>5, CreatedType DEF Create
  <2>6. CASE AnswerLost(w)
    BY <1>1, <2>6, UpdatedType, CreatedType DEF AnswerLost
  <2> QED BY <2>1, <2>2, <2>3, <2>4, <2>5, <2>6 DEF Writes
<1> QED BY <1>1, <1>2, PutEffect

LEMMA WriteMoves ==
  ASSUME TypeInv, NEW w \in Cores, Writes(w)
  PROVE  Moves(w)
<1>1. Rebuilding(w) /\ call[w] # NoCall
  BY WriteEffect DEF Rebuilding
<1>2. /\ call' = [call EXCEPT ![w] = call'[w]]
      /\ Noted
      /\ \A p \in disturbed \ disturbed' : Healed(w, p)
  <2>1. CASE Proceed(w)
    BY <1>1, <2>1, ProceedEffect, HealingHistory
  <2>2. CASE (\E x : Becomes(w, x)) /\ History({}, {})
    BY <2>2, BecomesEffect, QuietHistory
  <2>3. CASE Returns(w) /\ History({}, {})
    BY <2>3, ReturnsEffect, QuietHistory
  <2> QED BY <2>1, <2>2, <2>3
          DEF Writes, DeleteChapter, Insert, InsertRow, StoreEmbedding, Update,
              Create, AnswerLost
<1>3. \A s \in Stores, c \in Chapters :
         held'[s][c] # held[s][c] => Wrote(w, s, c)
  BY <1>1, WriteEffect DEF Wrote
<1>4. attached' = attached /\ size' = size
  BY DEF Writes, DeleteChapter, InsertRow, StoreEmbedding, Update, Create,
         AnswerLost
<1> QED BY <1>2, <1>3, <1>4 DEF Moves

LEMMA FailMoves ==
  ASSUME TypeInv, NEW w \in Cores, CallFails(w)
  PROVE  Moves(w)
<1>1. call' = [call EXCEPT ![w] = call'[w]]
  BY ReturnsEffect DEF CallFails
<1> QED BY <1>1, FailingHistory DEF CallFails, Moves

LEMMA CrashEffect ==
  ASSUME TypeInv, NEW w \in Cores, Crash(w)
  PROVE  /\ held' \in [Stores -> [Chapters -> Seq(Nat)]]
         /\ \A s \in Stores, c \in Chapters :
               held'[s][c] # held[s][c]
                 => s \in StoresOf(w) /\ Kind[s] = "vector"
<1>1. [c \in Chapters |-> << >>] \in [Chapters -> Seq(Nat)]
  OBVIOUS
<1> QED BY <1>1 DEF Crash, TypeInv, StoresTypeOK

LEMMA CrashMoves ==
  ASSUME TypeInv, NEW w \in Cores, Crash(w)
  PROVE  Moves(w)
<1>1. call' = [call EXCEPT ![w] = call'[w]]
  BY ReturnsEffect DEF Crash
<1>2. \A s \in Stores, c \in Chapters :
         held'[s][c] # held[s][c] => Wrote(w, s, c)
  BY CrashEffect DEF Wrote
<1> QED BY <1>1, <1>2, FailingHistory DEF Crash, Moves

(* All steps of a core.                                                      *)
CoreStep(w) ==
  \/ \E c \in Chapters : Commit(w, c)
  \/ MarkDirty(w)
  \/ \E s \in Stores : Begin(w, s)
  \/ Replay(w) \/ EnsureSchema(w) \/ Query(w)
  \/ Writes(w)
  \/ CallFails(w) \/ Crash(w)

LEMMA CoreMoves ==
  ASSUME TypeInv, NEW w \in Cores, CoreStep(w)
  PROVE  Moves(w)
BY CommitMoves, MarkMoves, BeginMoves, ReadMoves, WriteMoves, FailMoves,
   CrashMoves DEF CoreStep

LEMMA Steps ==
  ASSUME StoresNext
  PROVE  (\E w \in Cores : CoreStep(w)) \/ (\E c \in Chapters : Close(c))
BY DEF StoresNext, RebuildStep, CoreStep, Writes

-----------------------------------------------------------------------------
(* Type correctness. *)

LEMMA TypesInit == StoresInit => TypeInv
BY StoresAssumption DEF StoresInit, TypeInv, StoresTypeOK, StepSound, KindSound

(* A document of a remote store is updated or created, and nothing else.     *)
LEMMA DocumentWritten ==
  ASSUME TypeInv, NEW w \in Cores, CoreStep(w),
         NEW s \in Stores, Kind[s] \in Remote, NEW c \in Chapters,
         held'[s][c] # held[s][c]
  PROVE  /\ Rebuilding(w) /\ <<s, c>> = Part(w) /\ held[s][c] = Holds(w)
         /\ held'[s][c] \in Seq(Nat)
         /\ DOMAIN held[s][c] \subseteq DOMAIN held'[s][c]
         /\ \/ Len(held'[s][c]) = Len(held[s][c])
            \/ Doing(w, "create") /\ Len(held'[s][c]) = Len(held[s][c]) + 1
<1>1. Wrote(w, s, c)
  BY CoreMoves DEF Moves
<1>2. /\ Rebuilding(w) /\ call[w] # NoCall /\ <<s, c>> = Part(w)
      /\ s = call[w].store /\ c = call[w].at
      /\ held[s][c] = Holds(w)
  BY <1>1, KindFacts DEF Wrote, Part, Holds, Rebuilding
<1>3. Update(w) \/ Create(w) \/ AnswerLost(w)
  <2>1. Writes(w)
    <3>1. ~Crash(w)
      BY <1>2, CrashEffect, KindFacts
    <3>2. ~MarkDirty(w)
      BY <1>2 DEF MarkDirty, Doing, Rebuilding
    <3> QED BY <3>1, <3>2
            DEF CoreStep, Commit, Begin, Replay, EnsureSchema, Query, CallFails
  <2>2. ~DeleteChapter(w) /\ ~InsertRow(w) /\ ~StoreEmbedding(w)
    BY <1>2, KindFacts
    DEF TypeInv, KindSound, DeleteChapter, InsertRow, StoreEmbedding, Doing
  <2> QED BY <2>1, <2>2 DEF Writes
<1>4. CASE Doing(w, "update") /\ Put(w, Updated(w))
  <2>1. held'[s][c] = Updated(w)
    BY <1>2, <1>4, UpdatedType, PutEffect
  <2> QED BY <1>2, <1>4, <2>1, UpdatedType
<1>5. CASE Doing(w, "create") /\ Put(w, Created(w))
  <2>1. held'[s][c] = Created(w)
    BY <1>2, <1>5, CreatedType, PutEffect
  <2> QED BY <1>2, <1>5, <2>1, CreatedType
<1> QED BY <1>3, <1>4, <1>5 DEF Update, Create, AnswerLost

(* So none is ever taken away.                                               *)
LEMMA DocumentsStay ==
  ASSUME TypeInv, NEW w \in Cores, CoreStep(w),
         NEW s \in Stores, Kind[s] \in Remote, NEW c \in Chapters
  PROVE  DOMAIN held[s][c] \subseteq DOMAIN held'[s][c]
BY DocumentWritten

(* A call that goes on to another step of the same chapter.                  *)
LEMMA NextStep ==
  ASSUME TypeInv, NEW w \in Cores, call[w] # NoCall, attached' = attached,
         call[w].step # "mark",
         call'[w] \in StoreCall,
         call'[w].store = call[w].store, call'[w].at = call[w].at,
         call'[w].step # "mark",
         call'[w].step = "insert" => call'[w].next \in 1 .. call'[w].text,
         call'[w].step = "update" =>
           call'[w].found \in DOMAIN held'[call[w].store][call[w].at]
  PROVE  StepSound(w)'
<1>1. \E i \in DOMAIN attached[w] : call[w].store = attached[w][i]
  BY DEF TypeInv, StoresTypeOK, StepSound
<1> QED BY <1>1 DEF StepSound

(* A rebuild that is done with a chapter.                                    *)
LEMMA AfterChapter ==
  ASSUME TypeInv, NEW w \in Cores, call[w] # NoCall, attached' = attached,
         call[w].step # "mark", GoesOn(w)
  PROVE  /\ call'[w] \in StoreCall \cup {NoCall}
         /\ StepSound(w)' /\ KindSound(w)'
<1>1. CASE call'[w] = NoCall
  BY <1>1 DEF StepSound, KindSound
<1>2. CASE \E c \in call[w].todo :
             call'[w] = AtReplay(call[w].store, c, call[w].todo \ {c})
  <2>1. PICK c \in call[w].todo :
           call'[w] = AtReplay(call[w].store, c, call[w].todo \ {c})
    BY <1>2
  <2>2. c \in Chapters /\ call[w].store \in Stores /\ call[w].todo \subseteq Chapters
    BY CallTypes
  <2>3. call'[w] \in StoreCall
    BY <2>1, <2>2 DEF AtReplay, StoreCall
  <2>4. /\ call'[w].step = "replay" /\ call'[w].next = 1
        /\ call'[w].store = call[w].store
    BY <2>1 DEF AtReplay
  <2>5. \E i \in DOMAIN attached[w] : call[w].store = attached[w][i]
    BY DEF TypeInv, StoresTypeOK, StepSound
  <2>6. StepSound(w)'
    BY <2>4, <2>5 DEF StepSound
  <2>7. KindSound(w)'
    BY <2>4 DEF KindSound
  <2> QED BY <2>3, <2>6, <2>7
<1> QED BY <1>1, <1>2 DEF GoesOn

(* What a core goes on with is a call of its kind.                           *)
LEMMA AppendCalls ==
  ASSUME TypeInv, NEW w \in Cores,
         (\E c \in Chapters : Commit(w, c)) \/ MarkDirty(w)
  PROVE  /\ call'[w] \in StoreCall \cup {NoCall}
         /\ StepSound(w)' /\ KindSound(w)'
<1>1. CASE \E c \in Chapters : Commit(w, c)
  <2>1. PICK c \in Chapters : Commit(w, c)
    BY <1>1
  <2>2. call'[w] = [store |-> attached[w][1], at |-> c, todo |-> {},
                    step |-> "mark", text |-> 0, next |-> 1, found |-> 0]
    BY <2>1, BecomesEffect DEF Commit
  <2>3. 1 \in DOMAIN attached[w] /\ attached[w][1] \in Stores
    BY AttachedTypes
  <2>4. call'[w] \in StoreCall
    BY <2>2, <2>3 DEF StoreCall
  <2>5. attached' = attached
    BY <2>1 DEF Commit
  <2>6. StepSound(w)'
    BY <2>2, <2>3, <2>5 DEF StepSound
  <2>7. KindSound(w)'
    BY <2>2 DEF KindSound
  <2> QED BY <2>4, <2>6, <2>7
<1>2. CASE MarkDirty(w)
  <2>1. call[w] # NoCall /\ call[w].step = "mark" /\ attached' = attached
    BY <1>2 DEF MarkDirty, Doing
  <2>2. CASE call'[w] = NoCall
    BY <2>2 DEF StepSound, KindSound
  <2>3. CASE call'[w] # NoCall
    <3>1. /\ call[w].next # Len(attached[w])
          /\ call'[w] = [call[w] EXCEPT !.next = call[w].next + 1,
                                        !.store = attached[w][call[w].next + 1]]
      BY <1>2, <2>1, <2>3, NextProjectionEffect DEF MarkDirty
    <3>2. call[w] \in StoreCall /\ call[w].next \in DOMAIN attached[w]
      BY <2>1, CallTypes DEF TypeInv, StoresTypeOK, StepSound
    <3>3. /\ call[w].next + 1 \in DOMAIN attached[w]
          /\ call[w].next + 1 \in Nat
          /\ attached[w][call[w].next + 1] \in Stores
      BY <3>1, <3>2, AttachedTypes
    <3>4. call'[w] \in StoreCall
      BY <3>1, <3>2, <3>3 DEF StoreCall
    <3>5. /\ call'[w].step = "mark" /\ call'[w].next = call[w].next + 1
          /\ call'[w].store = attached[w][call[w].next + 1]
      BY <2>1, <3>1, <3>2 DEF StoreCall
    <3>6. StepSound(w)'
      BY <2>1, <3>3, <3>5 DEF StepSound
    <3>7. KindSound(w)'
      BY <3>5 DEF KindSound
    <3> QED BY <3>4, <3>6, <3>7
  <2> QED BY <2>2, <2>3
<1> QED BY <1>1, <1>2

LEMMA BeginCalls ==
  ASSUME TypeInv, NEW w \in Cores, NEW s \in Stores, Begin(w, s)
  PROVE  /\ call'[w] \in StoreCall
         /\ StepSound(w)' /\ KindSound(w)'
         /\ call'[w].step = "replay" /\ call'[w].store = s
         /\ closed = call'[w].todo \cup {call'[w].at}
<1>1. PICK c \in NewestOf(closed) : Becomes(w, AtReplay(s, c, closed \ {c}))
  BY DEF Begin
<1>2. call'[w] = AtReplay(s, c, closed \ {c})
  BY <1>1, BecomesEffect
<1>3. c \in closed /\ closed \subseteq Chapters
  BY DEF NewestOf, TypeInv, StoresTypeOK
<1>4. call'[w] \in StoreCall
  BY <1>2, <1>3 DEF AtReplay, StoreCall
<1>5. /\ call'[w].step = "replay" /\ call'[w].store = s /\ call'[w].next = 1
      /\ call'[w].at = c /\ call'[w].todo = closed \ {c}
  BY <1>2 DEF AtReplay
<1>6. attached' = attached /\ \E i \in DOMAIN attached[w] : s = attached[w][i]
  BY DEF Begin, StoresOf
<1>7. StepSound(w)'
  BY <1>5, <1>6 DEF StepSound
<1>8. KindSound(w)'
  BY <1>5 DEF KindSound
<1> QED BY <1>3, <1>4, <1>5, <1>7, <1>8

LEMMA ReplayEffect ==
  ASSUME TypeInv, NEW w \in Cores, Replay(w)
  PROVE  /\ call[w] # NoCall /\ call[w].step = "replay"
         /\ call'[w] \in StoreCall
         /\ call'[w].store = call[w].store /\ call'[w].at = call[w].at
         /\ call'[w].todo = call[w].todo /\ call'[w].next = 1
         /\ call'[w].text
              = RenderText(Kind[call[w].store], size[call[w].at])
         /\ call'[w].step = FirstStep(w)
<1>1. call[w] # NoCall /\ call[w].step = "replay"
  BY DEF Replay, Doing
<1>2. call[w] \in StoreCall /\ call[w].store \in Stores /\ call[w].at \in Chapters
  BY <1>1, CallTypes
<1>3. size[call[w].at] \in Nat
  BY <1>2 DEF TypeInv, StoresTypeOK
<1>4. RenderText(Kind[call[w].store], size[call[w].at]) \in Nat
  BY <1>3, TextTypes
<1>5. FirstStep(w) \in {"delete", "embed", "ensure", "query"}
  BY <1>2, KindFacts DEF FirstStep
<1>6. call'[w] = [call[w] EXCEPT
                    !.text = RenderText(Kind[call[w].store], size[call[w].at]),
                    !.step = FirstStep(w)]
  BY BecomesEffect DEF Replay
<1>7. call[w].next = 1
  BY <1>1 DEF TypeInv, KindSound
<1>8. call'[w] \in StoreCall
  BY <1>2, <1>4, <1>5, <1>6 DEF StoreCall
<1> QED BY <1>1, <1>2, <1>6, <1>7, <1>8 DEF StoreCall

LEMMA ReplayCalls ==
  ASSUME TypeInv, NEW w \in Cores, Replay(w)
  PROVE  StepSound(w)' /\ KindSound(w)'
<1>1. call[w].store \in Stores
  BY ReplayEffect, CallTypes
<1>2. /\ FirstStep(w) \in {"delete", "embed", "ensure", "query"}
      /\ FirstStep(w) = "delete" => Kind[call[w].store] = "fts5"
      /\ FirstStep(w) = "embed"
           => Kind[call[w].store] \in {"vector-sqlite", "vector"}
      /\ FirstStep(w) \in {"ensure", "query"} => Kind[call[w].store] \in Remote
  BY <1>1, KindFacts DEF FirstStep
<1>3. attached' = attached
  BY DEF Replay
<1>4. StepSound(w)'
  BY <1>2, <1>3, ReplayEffect, NextStep
<1>5. KindSound(w)'
  BY <1>2, ReplayEffect DEF KindSound
<1> QED BY <1>4, <1>5

LEMMA LookupEffect ==
  ASSUME TypeInv, NEW w \in Cores, EnsureSchema(w) \/ Query(w)
  PROVE  /\ call[w] # NoCall /\ call[w].step \in {"ensure", "query"}
         /\ Kind[call[w].store] \in Remote
         /\ call'[w] \in StoreCall
         /\ call'[w].store = call[w].store /\ call'[w].at = call[w].at
         /\ call'[w].todo = call[w].todo /\ call'[w].text = call[w].text
         /\ call'[w].step \in {"query", "update", "create"}
         /\ call'[w].step = "update" => call'[w].found \in DOMAIN Holds(w)
         /\ call'[w].step = "create" => Holds(w) = << >>
<1>1. call[w] # NoCall /\ call[w].step \in {"ensure", "query"}
  BY DEF EnsureSchema, Query, Doing
<1>2. call[w] \in StoreCall /\ Holds(w) \in Seq(Nat)
  BY <1>1, CallTypes DEF Holds
<1>3. Kind[call[w].store] \in Remote
  BY <1>1 DEF TypeInv, KindSound
<1>4. CASE EnsureSchema(w)
  <2>1. call'[w] = [call[w] EXCEPT !.step = "query"]
    BY <1>4, BecomesEffect DEF EnsureSchema
  <2>2. call'[w] \in StoreCall
    BY <1>2, <2>1 DEF StoreCall
  <2> QED BY <1>1, <1>2, <1>3, <2>1, <2>2 DEF StoreCall
<1>5. CASE Query(w) /\ Matches(w) = {}
  <2>1. call'[w] = [call[w] EXCEPT !.step = "create"]
    BY <1>5, BecomesEffect DEF Query
  <2>2. call'[w] \in StoreCall
    BY <1>2, <2>1 DEF StoreCall
  <2>3. Holds(w) = << >>
    BY <1>2, <1>5 DEF Matches
  <2> QED BY <1>1, <1>2, <1>3, <2>1, <2>2, <2>3 DEF StoreCall
<1>6. CASE Query(w) /\ Matches(w) # {}
  <2>1. PICK i \in Matches(w) :
           Becomes(w, [call[w] EXCEPT !.step = "update", !.found = i])
    BY <1>6 DEF Query
  <2>2. call'[w] = [call[w] EXCEPT !.step = "update", !.found = i]
    BY <2>1, BecomesEffect
  <2>3. i \in DOMAIN Holds(w) /\ i \in Nat
    BY <1>2 DEF Matches
  <2>4. call'[w] \in StoreCall
    BY <1>2, <2>2, <2>3 DEF StoreCall
  <2> QED BY <1>1, <1>2, <1>3, <2>2, <2>3, <2>4 DEF StoreCall
<1> QED BY <1>4, <1>5, <1>6

LEMMA LookupCalls ==
  ASSUME TypeInv, NEW w \in Cores, EnsureSchema(w) \/ Query(w)
  PROVE  StepSound(w)' /\ KindSound(w)'
<1>1. attached' = attached /\ held' = held
  BY DEF EnsureSchema, Query
<1>2. StepSound(w)'
  BY <1>1, LookupEffect, NextStep DEF Holds
<1>3. KindSound(w)'
  BY LookupEffect DEF KindSound
<1> QED BY <1>2, <1>3

(* The index of a chapter is deleted, and rows are next, if there are any.   *)
LEMMA DeleteEffect ==
  ASSUME TypeInv, NEW w \in Cores, DeleteChapter(w)
  PROVE  /\ call[w] # NoCall /\ call[w].step = "delete"
         /\ held'[call[w].store][call[w].at] = << >>
         /\ Kind[call[w].store] = "fts5"
         /\ \/ call[w].text = 0 /\ Proceed(w)
            \/ /\ call[w].text \in Nat \ {0}
               /\ call'[w] = [call[w] EXCEPT !.step = "insert"]
               /\ call'[w] \in StoreCall
               /\ call'[w].step = "insert" /\ call'[w].next = 1
               /\ call'[w].store = call[w].store /\ call'[w].at = call[w].at
               /\ call'[w].todo = call[w].todo /\ call'[w].text = call[w].text
<1>1. call[w] # NoCall /\ call[w].step = "delete"
  BY DEF DeleteChapter, Doing
<1>2. call[w] \in StoreCall /\ call[w].text \in Nat
  BY <1>1, CallTypes
<1>3. Kind[call[w].store] = "fts5" /\ call[w].next = 1
  BY <1>1 DEF TypeInv, KindSound
<1>4. held'[call[w].store][call[w].at] = << >>
  <2>1. << >> \in Seq(Nat) /\ Put(w, << >>)
    BY DEF DeleteChapter
  <2> QED BY <1>1, <2>1, PutEffect
<1>5. CASE call[w].text = 0
  BY <1>1, <1>3, <1>4, <1>5 DEF DeleteChapter, Insert
<1>6. CASE call[w].text # 0
  <2>1. call'[w] = [call[w] EXCEPT !.step = "insert"]
    BY <1>6, BecomesEffect DEF DeleteChapter, Insert
  <2>2. call'[w] \in StoreCall
    BY <1>2, <2>1 DEF StoreCall
  <2> QED BY <1>1, <1>2, <1>3, <1>4, <1>6, <2>1, <2>2 DEF StoreCall
<1> QED BY <1>5, <1>6

LEMMA InsertEffect ==
  ASSUME TypeInv, NEW w \in Cores, InsertRow(w)
  PROVE  /\ call[w] # NoCall /\ call[w].step = "insert"
         /\ call[w].next \in 1 .. call[w].text
         /\ held'[call[w].store][call[w].at] = Append(Holds(w), call[w].next)
         /\ Kind[call[w].store] = "fts5"
         /\ \/ call[w].next = call[w].text /\ Proceed(w)
            \/ /\ call[w].next + 1 \in 1 .. call[w].text
               /\ call'[w] \in StoreCall
               /\ call'[w].step = "insert" /\ call'[w].next = call[w].next + 1
               /\ call'[w].store = call[w].store /\ call'[w].at = call[w].at
               /\ call'[w].todo = call[w].todo /\ call'[w].text = call[w].text
<1>1. call[w] # NoCall /\ call[w].step = "insert"
  BY DEF InsertRow, Doing
<1>2. /\ call[w] \in StoreCall /\ call[w].text \in Nat /\ call[w].next \in Nat
      /\ Holds(w) \in Seq(Nat)
  BY <1>1, CallTypes DEF Holds
<1>3. Kind[call[w].store] = "fts5" /\ call[w].next \in 1 .. call[w].text
  BY <1>1 DEF TypeInv, StoresTypeOK, KindSound, StepSound
<1>4. held'[call[w].store][call[w].at] = Append(Holds(w), call[w].next)
  <2>1. Append(Holds(w), call[w].next) \in Seq(Nat)
    BY <1>2
  <2> QED BY <1>1, <2>1, PutEffect DEF InsertRow
<1>5. CASE call[w].next = call[w].text
  BY <1>1, <1>3, <1>4, <1>5 DEF InsertRow
<1>6. CASE call[w].next # call[w].text
  <2>1. call'[w] = [call[w] EXCEPT !.next = call[w].next + 1]
    BY <1>6, BecomesEffect DEF InsertRow
  <2>2. call'[w] \in StoreCall
    <3>1. call[w].next + 1 \in Nat
      BY <1>2
    <3> QED BY <1>2, <2>1, <3>1 DEF StoreCall
  <2>3. call[w].next + 1 \in 1 .. call[w].text
    BY <1>2, <1>3, <1>6
  <2> QED BY <1>1, <1>2, <1>3, <1>4, <2>1, <2>2, <2>3 DEF StoreCall
<1> QED BY <1>5, <1>6

LEMMA WriteCalls ==
  ASSUME TypeInv, NEW w \in Cores, Writes(w)
  PROVE  /\ call'[w] \in StoreCall \cup {NoCall}
         /\ StepSound(w)' /\ KindSound(w)'
<1>1. /\ call[w] # NoCall /\ call[w].step # "mark"
      /\ attached' = attached
  BY WriteEffect
  DEF Rebuilding, Writes, DeleteChapter, InsertRow, StoreEmbedding, Update,
      Create, AnswerLost
<1>2. CASE Proceed(w)
  BY <1>1, <1>2, ProceedEffect, AfterChapter
<1>3. CASE Returns(w)
  BY <1>3, ReturnsEffect DEF StepSound, KindSound
<1>4. CASE ~Proceed(w) /\ DeleteChapter(w)
  <2>1. call'[w].next \in 1 .. call'[w].text
    <3>1. call'[w].next = 1 /\ call'[w].text \in Nat \ {0}
      BY <1>4, DeleteEffect
    <3> QED BY <3>1
  <2>2. StepSound(w)'
    BY <1>1, <1>4, <2>1, DeleteEffect, NextStep
  <2>3. KindSound(w)'
    BY <1>4, DeleteEffect DEF KindSound
  <2> QED BY <1>4, <2>2, <2>3, DeleteEffect
<1>5. CASE ~Proceed(w) /\ InsertRow(w)
  <2>1. call'[w].next \in 1 .. call'[w].text
    BY <1>5, InsertEffect
  <2>2. StepSound(w)'
    BY <1>1, <1>5, <2>1, InsertEffect, NextStep
  <2>3. KindSound(w)'
    BY <1>5, InsertEffect DEF KindSound
  <2> QED BY <1>5, <2>2, <2>3, InsertEffect
<1> QED BY <1>2, <1>3, <1>4, <1>5
        DEF Writes, StoreEmbedding, Update, Create, AnswerLost

LEMMA CallAfter ==
  ASSUME TypeInv, NEW w \in Cores, CoreStep(w)
  PROVE  /\ call'[w] \in StoreCall \cup {NoCall}
         /\ StepSound(w)' /\ KindSound(w)'
<1>1. CASE CallFails(w) \/ Crash(w)
  BY <1>1, ReturnsEffect DEF CallFails, Crash, StepSound, KindSound
<1> QED BY <1>1, AppendCalls, BeginCalls, ReplayEffect, ReplayCalls,
           LookupEffect, LookupCalls, WriteCalls DEF CoreStep

LEMMA CoreTypes ==
  ASSUME TypeInv, NEW w \in Cores, CoreStep(w)
  PROVE  TypeInv'
<1>1. /\ attached' = attached
      /\ call' = [call EXCEPT ![w] = call'[w]]
      /\ Noted
  BY CoreMoves DEF Moves
<1>2. call' \in [Cores -> StoreCall \cup {NoCall}]
  BY <1>1, CallAfter DEF TypeInv, StoresTypeOK
<1>3. /\ disturbed' \subseteq Stores \X Chapters
      /\ exempt' \in [Cores -> SUBSET Chapters]
  BY <1>1, <1>2, HistoryTypes
<1>4. held' \in [Stores -> [Chapters -> Seq(Nat)]]
  <2>1. CASE MarkDirty(w)
    <3>1. << >> \in Seq(Nat) /\ call[w] # NoCall
      BY <2>1 DEF MarkDirty, Doing
    <3> QED BY <2>1, <3>1, PutEffect DEF MarkDirty, TypeInv, StoresTypeOK
  <2> QED BY <2>1, WriteEffect, CrashEffect
          DEF CoreStep, Commit, Begin, Replay, EnsureSchema, Query, CallFails,
              TypeInv, StoresTypeOK
<1>5. /\ ensured' \in [Cores -> SUBSET Stores]
      /\ size' \in [Chapters -> Nat]
      /\ closed' \subseteq Chapters
      /\ faults' \in Nat
  <2> USE DEF TypeInv, StoresTypeOK
  <2>1. CASE \E c \in Chapters : Commit(w, c)
    BY <2>1 DEF Commit
  <2>2. CASE EnsureSchema(w)
    <3>1. call[w].store \in Stores
      BY <2>2, CallTypes DEF EnsureSchema, Doing
    <3> QED BY <2>2, <3>1 DEF EnsureSchema
  <2>3. CASE AnswerLost(w) \/ CallFails(w)
    BY <2>3 DEF AnswerLost, CallFails, Fault
  <2>4. CASE Crash(w)
    BY <2>4 DEF Crash, Fault
  <2>5. CASE UNCHANGED <<ensured, size, closed, faults>>
    BY <2>5
  <2> QED BY <2>1, <2>2, <2>3, <2>4, <2>5
          DEF CoreStep, Writes, MarkDirty, Begin, Replay, Query, DeleteChapter,
              InsertRow, StoreEmbedding, Update, Create
<1>6. \A u \in Cores \ {w} : StepSound(u)' /\ KindSound(u)'
  <2> SUFFICES ASSUME NEW u \in Cores \ {w}
               PROVE  StepSound(u)' /\ KindSound(u)'
    OBVIOUS
  <2>1. call'[u] = call[u]
    BY <1>1 DEF TypeInv, StoresTypeOK
  <2>2. KindSound(u)'
    BY <2>1 DEF TypeInv, KindSound
  <2>3. ASSUME call[u] # NoCall PROVE StepSound(u)'
    <3>1. call[u].store \in Stores /\ call[u].at \in Chapters
      BY <2>3, CallTypes
    <3>2. call[u].step = "update" => Kind[call[u].store] \in Remote
      BY <2>3 DEF TypeInv, KindSound
    <3>3. call[u].step = "update"
            => call[u].found \in DOMAIN held'[call[u].store][call[u].at]
      BY <2>3, <3>1, <3>2, DocumentsStay DEF TypeInv, StoresTypeOK, StepSound
    <3> QED BY <1>1, <2>1, <2>3, <3>3 DEF TypeInv, StoresTypeOK, StepSound
  <2> QED BY <2>1, <2>2, <2>3 DEF StepSound
<1> QED BY <1>1, <1>2, <1>3, <1>4, <1>5, <1>6, CallAfter
        DEF TypeInv, StoresTypeOK

LEMMA CloseTypes ==
  ASSUME TypeInv, NEW c \in Chapters, Close(c)
  PROVE  TypeInv'
<1>1. Noted
  BY QuietHistory DEF Close
<1>2. call' \in [Cores -> StoreCall \cup {NoCall}]
  BY DEF Close, TypeInv, StoresTypeOK
<1>3. /\ disturbed' \subseteq Stores \X Chapters
      /\ exempt' \in [Cores -> SUBSET Chapters]
  BY <1>1, <1>2, HistoryTypes
<1>4. \A w \in Cores : StepSound(w)' /\ KindSound(w)'
  BY DEF Close, TypeInv, StoresTypeOK, StepSound, KindSound
<1> QED BY <1>3, <1>4 DEF Close, TypeInv, StoresTypeOK

(* StoresTypeOK: every store and every call has its shape in every state.     *)
(* A rebuild that updates a document found it, and no statement takes         *)
(* documents away (outline.rs, miniapp.rs).                                  *)
THEOREM StoresTypes == StoresSpec => []StoresTypeOK
<1>1. TypeInv /\ [StoresNext]_svars => TypeInv'
  <2> SUFFICES ASSUME TypeInv, [StoresNext]_svars PROVE TypeInv'
    OBVIOUS
  <2>1. CASE StoresNext
    BY <2>1, Steps, CoreTypes, CloseTypes
  <2>2. CASE UNCHANGED svars
    BY <2>2 DEF svars, TypeInv, StoresTypeOK, StepSound, KindSound
  <2> QED BY <2>1, <2>2
<1>2. TypeInv => StoresTypeOK
  BY DEF TypeInv
<1> QED BY <1>1, <1>2, TypesInit, PTL DEF StoresSpec

-----------------------------------------------------------------------------
(* What the history says about two cores. *)

LEMMA HistoryInit == StoresInit => HistoryInv
<1> SUFFICES ASSUME StoresInit PROVE HistoryInv
  OBVIOUS
<1>1. \A w \in Cores : call[w] = NoCall
  BY DEF StoresInit
<1>2. \A w \in Cores : Rebuilds(call, w) = {}
  BY <1>1 DEF Rebuilds
<1>3. Contended(call) = {}
  BY <1>2 DEF Contended
<1> QED BY <1>1, <1>3 DEF HistoryInv, Listing

LEMMA HistoryKept ==
  ASSUME Noted
  PROVE  HistoryInv'
<1>1. \A w \in Cores : Listing(w)' => Others(call', w) \subseteq exempt'[w]
  BY DEF Noted, Exempts, Listing
<1> QED BY <1>1 DEF Noted, HistoryInv

(* While a rebuild goes on it is exempt from more and more.                  *)
LEMMA ExemptGrows ==
  ASSUME Noted, NEW w \in Cores, Listing(w), Listing(w)'
  PROVE  exempt[w] \subseteq exempt'[w]
BY DEF Noted, Exempts, Listing

(* Nobody works on the part of a rebuild that is alone.                      *)
LEMMA NobodyElse ==
  ASSUME NEW calls, NEW part, NEW ex,
         NEW u \in Cores, NEW v \in Cores, u # v,
         Contended(calls) \subseteq part, Others(calls, v) \subseteq ex,
         calls[v] # NoCall, calls[v].step \notin {"mark", "replay"},
         calls[v].store \in Stores,
         \/ calls[v].at \notin ex
         \/ /\ Kind[calls[v].store] \in Invalidating
            /\ <<calls[v].store, calls[v].at>> \notin part,
         calls[u] # NoCall, calls[u].at = calls[v].at,
         \/ calls[u].step = "mark"
         \/ calls[u].step # "replay" /\ calls[u].store = calls[v].store
  PROVE  FALSE
<1> DEFINE p == <<calls[v].store, calls[v].at>>
<1>1. p \in Rebuilds(calls, v)
  BY WorksOn
<1>2. p \in Works(calls, u)
  BY WorksOn DEF Works
<1>3. calls[u].at \in Others(calls, v)
  BY <1>2, ForOthers
<1>4. \/ p \in Rebuilds(calls, u)
      \/ p \in Notifies(calls, u)
  BY <1>2 DEF Works
<1>5. Kind[p[1]] \in Invalidating => p \in Contended(calls)
  BY <1>1, <1>4, Contending
<1> QED BY <1>3, <1>5

(* A rebuild that a step of another core leaves alone was alone before.      *)
LEMMA AloneBefore ==
  ASSUME TypeInv, HistoryInv, NEW w \in Cores, Moves(w),
         NEW u \in Cores, u # w, Rebuilding(u), Alone(u)'
  PROVE  /\ Alone(u)
         /\ Part(u) \notin disturbed' => Part(u) \notin disturbed
<1>1. call'[u] = call[u]
  BY DEF Moves, TypeInv, StoresTypeOK
<1>2. Listing(u) /\ Listing(u)'
  BY <1>1 DEF Listing, Rebuilding
<1>3. exempt[u] \subseteq exempt'[u]
  BY <1>2, ExemptGrows DEF Moves
<1>4. ~Healed(w, Part(u))
  <2> SUFFICES ASSUME Healed(w, Part(u)) PROVE FALSE
    OBVIOUS
  <2>1. /\ call[w] # NoCall /\ call[u] # NoCall
        /\ call[w].store \in Stores
        /\ call[u].at = call[w].at /\ call[u].store = call[w].store
        /\ call[u].step # "replay" /\ call[w].step \notin {"mark", "replay"}
        /\ call[w].at \notin exempt[w]
    BY CallTypes DEF Healed, Rebuilding, Part
  <2>2. Contended(call) \subseteq disturbed /\ Others(call, w) \subseteq exempt[w]
    BY <2>1 DEF HistoryInv, Listing
  <2> QED BY <2>1, <2>2, NobodyElse
<1>5. Part(u) \notin disturbed' => Part(u) \notin disturbed
  BY <1>4 DEF Moves
<1>6. Part(u)' = Part(u)
  BY <1>1 DEF Part
<1> QED BY <1>1, <1>3, <1>5, <1>6 DEF Alone

(* What others do to a store that they do not share with a call is nothing   *)
(* where the call's embeddings are in memory.                                *)
LEMMA OwnMemory ==
  ASSUME TypeInv, NEW u \in Cores, NEW w \in Cores, u # w,
         call[u] # NoCall, Listing(u),
         Kind[call[u].store] = "vector", call[u].store \in StoresOf(w)
  PROVE  FALSE
<1>1. attached \in Setups
  BY DEF TypeInv, StoresTypeOK
<1>2. PICK i \in DOMAIN attached[u] : call[u].store = attached[u][i]
  BY DEF Listing, TypeInv, StoresTypeOK, StepSound
<1>3. PICK j \in DOMAIN attached[w] : call[u].store = attached[w][j]
  BY DEF StoresOf
<1>4. \A x, y \in Cores : \A k \in DOMAIN attached[x], l \in DOMAIN attached[y] :
         attached[x][k] = attached[y][l] /\ Kind[attached[x][k]] = "vector"
         => x = y
  BY <1>1, StoresAssumption, Zenon
<1> QED BY <1>2, <1>3, <1>4, Zenon

(* A step of another core does not change the part in work.                  *)
LEMMA PartStays ==
  ASSUME TypeInv, TypeInv', HistoryInv, NEW w \in Cores, Moves(w),
         NEW u \in Cores, u # w, Rebuilding(u), Alone(u)'
  PROVE  /\ held'[call[u].store][call[u].at] = Holds(u)
         /\ size'[call[u].at] = size[call[u].at]
<1>1. call'[u] = call[u]
  BY DEF Moves, TypeInv, StoresTypeOK
<1>2. /\ call[u] # NoCall /\ call[u].step \notin {"mark", "replay"}
      /\ call[u].store \in Stores /\ call[u].at \in Chapters
      /\ Listing(u) /\ Listing(u)'
  BY <1>1, CallTypes DEF Rebuilding, Listing
<1>3. Alone(u)
  BY AloneBefore
<1>4. HistoryInv'
  BY HistoryKept DEF Moves
<1>5. ASSUME size'[call[u].at] # size[call[u].at] PROVE FALSE
  <2>1. /\ call'[w] # NoCall /\ call'[w].step = "mark"
        /\ call'[w].at = call'[u].at
    BY <1>1, <1>2, <1>5 DEF Moves, Doing
  <2>2. /\ Contended(call') \subseteq disturbed'
        /\ Others(call', u) \subseteq exempt'[u]
    BY <1>2, <1>4 DEF HistoryInv
  <2>3. \/ call'[u].at \notin exempt'[u]
        \/ /\ Kind[call'[u].store] \in Invalidating
           /\ <<call'[u].store, call'[u].at>> \notin disturbed'
    BY DEF Alone, Part
  <2> QED BY <1>1, <1>2, <2>1, <2>2, <2>3, NobodyElse
<1>6. ASSUME held'[call[u].store][call[u].at] # held[call[u].store][call[u].at]
      PROVE  FALSE
  <2>1. Wrote(w, call[u].store, call[u].at)
    BY <1>2, <1>6 DEF Moves
  <2>2. /\ Contended(call) \subseteq disturbed
        /\ Others(call, u) \subseteq exempt[u]
    BY <1>2 DEF HistoryInv
  <2>3. \/ call[u].at \notin exempt[u]
        \/ /\ Kind[call[u].store] \in Invalidating
           /\ <<call[u].store, call[u].at>> \notin disturbed
    BY <1>3 DEF Alone, Part
  <2>4. ~(Kind[call[u].store] = "vector" /\ call[u].store \in StoresOf(w))
    BY <1>2, OwnMemory
  <2>5. \/ Rebuilding(w) /\ <<call[u].store, call[u].at>> = Part(w)
        \/ Doing(w, "mark") /\ call[w].at = call[u].at
    BY <2>1, <2>4 DEF Wrote
  <2>6. /\ call[w] # NoCall /\ call[w].at = call[u].at
        /\ \/ call[w].step = "mark"
           \/ call[w].step # "replay" /\ call[w].store = call[u].store
    BY <2>5 DEF Rebuilding, Doing, Part
  <2> QED BY <1>2, <2>2, <2>3, <2>6, NobodyElse
<1> QED BY <1>5, <1>6 DEF Holds

(* Nor a chapter that a rebuild owes.                                        *)
LEMMA OwedStays ==
  ASSUME TypeInv, TypeInv', HistoryInv, NEW w \in Cores, Moves(w),
         NEW u \in Cores, u # w, Listing(u),
         NEW c \in Chapters, c \notin exempt'[u]
  PROVE  /\ c \notin exempt[u]
         /\ held'[call[u].store][c] = held[call[u].store][c]
         /\ size'[c] = size[c]
<1>1. call'[u] = call[u]
  BY DEF Moves, TypeInv, StoresTypeOK
<1>2. /\ call[u] # NoCall /\ call[u].store \in Stores /\ Listing(u)'
  BY <1>1, CallTypes DEF Listing
<1>3. c \notin exempt[u]
  BY <1>2, ExemptGrows DEF Moves
<1>4. HistoryInv'
  BY HistoryKept DEF Moves
<1>5. ASSUME size'[c] # size[c] PROVE FALSE
  <2>1. call'[w] # NoCall /\ call'[w].step = "mark" /\ call'[w].at = c
    BY <1>5 DEF Moves, Doing
  <2>2. <<call'[u].store, call'[w].at>> \in Works(call', w)
    BY <1>1, <1>2, <2>1, WorksOn DEF Works
  <2>3. c \in Others(call', u)
    BY <2>1, <2>2, ForOthers
  <2> QED BY <1>2, <1>4, <2>3 DEF HistoryInv
<1>6. ASSUME held'[call[u].store][c] # held[call[u].store][c] PROVE FALSE
  <2>1. Wrote(w, call[u].store, c)
    BY <1>2, <1>6 DEF Moves
  <2>2. ~(Kind[call[u].store] = "vector" /\ call[u].store \in StoresOf(w))
    BY <1>2, OwnMemory
  <2>3. /\ call[w] # NoCall /\ call[w].at = c
        /\ \/ call[w].step = "mark"
           \/ /\ call[w].step \notin {"mark", "replay"}
              /\ call[w].store = call[u].store
    BY <2>1, <2>2 DEF Wrote, Rebuilding, Doing, Part
  <2>4. <<call[u].store, call[w].at>> \in Works(call, w)
    BY <1>2, <2>3, WorksOn DEF Works
  <2>5. c \in Others(call, u)
    BY <2>3, <2>4, ForOthers
  <2> QED BY <1>2, <1>3, <2>5 DEF HistoryInv
<1> QED BY <1>3, <1>5, <1>6

-----------------------------------------------------------------------------
(* The invariants of the other cores. *)

LEMMA OthersKept ==
  ASSUME TypeInv, TypeInv', HistoryInv, NEW w \in Cores, Moves(w),
         NEW u \in Cores, u # w, CoreInv(u)
  PROVE  CoreInv(u)'
<1>1. call'[u] = call[u] /\ attached' = attached
  BY DEF Moves, TypeInv, StoresTypeOK
<1>2. Fresh(u)'
  <2> SUFFICES ASSUME Rebuilding(u)', Alone(u)'
               PROVE  /\ call'[u].text
                           = RenderText(Kind[call'[u].store], size'[call'[u].at])
                      /\ call'[u].step = "insert"
                           => Holds(u)' = [i \in 1 .. call'[u].next - 1 |-> i]
    BY DEF Fresh
  <2>1. Rebuilding(u) /\ Alone(u)
    BY <1>1, AloneBefore DEF Rebuilding
  <2>2. Holds(u)' = Holds(u) /\ size'[call[u].at] = size[call[u].at]
    BY <1>1, <2>1, PartStays DEF Holds
  <2> QED BY <1>1, <2>1, <2>2 DEF CoreInv, Fresh
<1>3. Untouched(u)'
  <2> SUFFICES ASSUME Rebuilding(u)', call'[u].step # "insert",
                      Kind[call'[u].store] \in Invalidating,
                      Part(u)' \notin disturbed'
               PROVE  Holds(u)' \in {<< >>, Pieces(Kind[call'[u].store],
                                                   size'[call'[u].at])}
    BY DEF Untouched
  <2>1. Rebuilding(u) /\ Alone(u)' /\ Part(u) \notin disturbed'
    BY <1>1 DEF Rebuilding, Alone, Part
  <2>2. Part(u) \notin disturbed
    BY <2>1, AloneBefore
  <2>3. Holds(u)' = Holds(u) /\ size'[call[u].at] = size[call[u].at]
    BY <1>1, <2>1, PartStays DEF Holds
  <2> QED BY <1>1, <2>1, <2>2, <2>3 DEF CoreInv, Untouched
<1>4. Told(u)'
  <2> SUFFICES ASSUME Doing(u, "mark")', NEW s \in Stores,
                      Kind[s] \in Invalidating,
                      <<s, call'[u].at>> \notin disturbed'
               PROVE  /\ s \in StoresOf(u)'
                      /\ \A i \in DOMAIN attached'[u] :
                            i < call'[u].next /\ attached'[u][i] = s
                            => held'[s][call'[u].at] = << >>
    BY DEF Told
  <2>1. /\ Doing(u, "mark") /\ call[u] # NoCall /\ call[u].step = "mark"
        /\ call[u].at \in Chapters
    BY <1>1, CallTypes DEF Doing
  <2> DEFINE p == <<s, call[u].at>>
  <2>2. p \in Notifies(call, u)
    BY <2>1, WorksOn
  <2>3. ~Healed(w, p)
    <3> SUFFICES ASSUME Healed(w, p) PROVE FALSE
      OBVIOUS
    <3>1. /\ call[w] # NoCall /\ call[w].store = s /\ Listing(w)
          /\ call[w].at = call[u].at /\ call[w].at \notin exempt[w]
      BY DEF Healed, Rebuilding, Listing, Part
    <3>2. call[u].at \in Others(call, w)
      BY <2>1, <2>2, <3>1, ForOthers DEF Works
    <3> QED BY <3>1, <3>2 DEF HistoryInv
  <2>4. p \notin disturbed
    BY <1>1, <2>3 DEF Moves
  <2>5. held'[s][call[u].at] \in {held[s][call[u].at], << >>}
    <3> SUFFICES ASSUME held'[s][call[u].at] # held[s][call[u].at],
                        held'[s][call[u].at] # << >>
                 PROVE  FALSE
      OBVIOUS
    <3>1. Wrote(w, s, call[u].at)
      BY <2>1 DEF Moves
    <3>2. Rebuilding(w) /\ p = Part(w)
      BY <3>1, KindFacts DEF Wrote
    <3>3. p \in Rebuilds(call, w)
      BY <3>2, WorksOn DEF Rebuilding, Part
    <3>4. p \in Contended(call)
      BY <2>2, <3>3, Contending
    <3> QED BY <2>4, <3>4 DEF HistoryInv
  <2> QED BY <1>1, <2>1, <2>4, <2>5 DEF CoreInv, Told, StoresOf
<1>5. Done(u)'
  <2> SUFFICES ASSUME Listing(u)', NEW c \in Chapters, c \notin exempt'[u],
                      c # call'[u].at, c \notin call'[u].todo
               PROVE  Whole(Kind[call'[u].store], held'[call'[u].store][c], size'[c])
    BY DEF Done
  <2>1. Listing(u)
    BY <1>1 DEF Listing
  <2>2. /\ c \notin exempt[u]
        /\ held'[call[u].store][c] = held[call[u].store][c]
        /\ size'[c] = size[c]
    BY <2>1, OwedStays
  <2>3. Whole(Kind[call[u].store], held[call[u].store][c], size[c])
    BY <1>1, <2>1, <2>2 DEF CoreInv, Done
  <2> QED BY <1>1, <2>2, <2>3
<1> QED BY <1>2, <1>3, <1>4, <1>5 DEF CoreInv

(* What a core leaves behind.                                                *)
Leaves(w) ==
  \A s \in Stores, c \in Chapters :
     /\ Kind[s] \in Invalidating
     /\ <<s, c>> \in Works(call, w) \ Works(call', w)
     /\ <<s, c>> \notin disturbed'
     => held'[s][c] \in {<< >>, Pieces(Kind[s], size'[c])}

(* An index is faithful if the core that worked on it left it so.            *)
LEMMA FaithfulKept ==
  ASSUME TypeInv, TypeInv', IndexFaithful, NEW w \in Cores, Moves(w), Leaves(w)
  PROVE  IndexFaithful'
<1> SUFFICES ASSUME NEW s \in Stores, NEW c \in Chapters,
                    Kind[s] \in Invalidating, <<s, c>> \notin disturbed',
                    Quiet(<<s, c>>)'
             PROVE  held'[s][c] \in {<< >>, Pieces(Kind[s], size'[c])}
  BY DEF IndexFaithful
<1> DEFINE p == <<s, c>>
<1>1. \A u \in Cores : p \notin Works(call', u)
  BY DEF Quiet
<1>2. \A u \in Cores \ {w} : call'[u] = call[u]
  BY DEF Moves, TypeInv, StoresTypeOK
<1>3. \A u \in Cores \ {w} : p \notin Works(call, u)
  <2> SUFFICES ASSUME NEW u \in Cores \ {w}, p \in Works(call, u) PROVE FALSE
    OBVIOUS
  <2>1. p \in Works(call', u)
    BY <1>2, WorksOn DEF Works
  <2> QED BY <1>1, <2>1
<1>4. CASE p \in Works(call, w)
  BY <1>1, <1>4 DEF Leaves
<1>5. CASE p \notin Works(call, w)
  <2>1. Quiet(p)
    BY <1>3, <1>5 DEF Quiet
  <2>2. ~Healed(w, p)
    BY <1>5, WorksOn DEF Healed, Rebuilding, Part, Works
  <2>3. p \notin disturbed
    BY <2>2 DEF Moves
  <2>4. size'[c] = size[c]
    <3> SUFFICES ASSUME size'[c] # size[c] PROVE FALSE
      OBVIOUS
    <3>1. call'[w] # NoCall /\ call'[w].step = "mark" /\ call'[w].at = c
      BY DEF Moves, Doing
    <3>2. p \in Works(call', w)
      BY <3>1, WorksOn DEF Works
    <3> QED BY <1>1, <3>2
  <2>5. held'[s][c] = held[s][c]
    <3> SUFFICES ASSUME held'[s][c] # held[s][c] PROVE FALSE
      OBVIOUS
    <3>1. Wrote(w, s, c)
      BY DEF Moves
    <3>2. \/ Rebuilding(w) /\ p = Part(w)
          \/ Doing(w, "mark") /\ call[w].at = c
      BY <3>1, KindFacts DEF Wrote
    <3>3. p \in Works(call, w)
      BY <3>2, WorksOn DEF Works, Rebuilding, Doing, Part
    <3> QED BY <1>5, <3>3
  <2> QED BY <2>1, <2>3, <2>4, <2>5 DEF IndexFaithful
<1> QED BY <1>4, <1>5

-----------------------------------------------------------------------------
(* The invariants of the core that takes the step. *)

LEMMA Idle ==
  ASSUME NEW w \in Cores, call'[w] = NoCall
  PROVE  CoreInv(w)'
BY DEF CoreInv, Fresh, Untouched, Told, Done, Rebuilding, Doing, Listing

LEMMA GoesOnTo ==
  ASSUME TypeInv, NEW w \in Cores, call[w] # NoCall, GoesOn(w)
  PROVE  \/ call'[w] = NoCall /\ call[w].todo = {}
         \/ /\ call'[w] # NoCall
            /\ call'[w].step = "replay" /\ call'[w].store = call[w].store
            /\ call'[w].at \in call[w].todo
            /\ call'[w].todo = call[w].todo \ {call'[w].at}
<1>1. CASE \E d \in call[w].todo :
             call'[w] = AtReplay(call[w].store, d, call[w].todo \ {d})
  <2>1. PICK d \in call[w].todo :
           call'[w] = AtReplay(call[w].store, d, call[w].todo \ {d})
    BY <1>1
  <2>2. d \in Chapters /\ call[w].store \in Stores /\ call[w].todo \subseteq Chapters
    BY CallTypes
  <2>3. call'[w] \in StoreCall
    BY <2>1, <2>2 DEF AtReplay, StoreCall
  <2>4. call'[w] # NoCall
    BY <2>3, StoresAssumption
  <2> QED BY <2>1, <2>4 DEF AtReplay
<1> QED BY <1>1 DEF GoesOn

(* The end of a chapter's rebuild, if what was written is whole.             *)
LEMMA ChapterDone ==
  ASSUME TypeInv, NEW w \in Cores, Moves(w), Rebuilding(w), CoreInv(w),
         GoesOn(w), size' = size,
         \A c \in Chapters : c # call[w].at
           => held'[call[w].store][c] = held[call[w].store][c],
         Alone(w) => Whole(Kind[call[w].store],
                           held'[call[w].store][call[w].at], size[call[w].at])
  PROVE  /\ CoreInv(w)' /\ Leaves(w)
         /\ call'[w] = NoCall =>
              \A c \in Chapters \ exempt[w] :
                 Whole(Kind[call[w].store], held'[call[w].store][c], size'[c])
<1>1. /\ call[w] # NoCall /\ call[w].store \in Stores /\ call[w].at \in Chapters
      /\ call[w].todo \subseteq Chapters /\ Listing(w)
  BY CallTypes DEF Rebuilding, Listing
<1>2. \A c \in Chapters \ exempt[w] :
         \/ c \in call[w].todo
         \/ Whole(Kind[call[w].store], held'[call[w].store][c], size'[c])
  <2> SUFFICES ASSUME NEW c \in Chapters \ exempt[w], c \notin call[w].todo
               PROVE  Whole(Kind[call[w].store], held'[call[w].store][c],
                            size'[c])
    OBVIOUS
  <2>1. CASE c = call[w].at
    BY <2>1 DEF Alone
  <2>2. CASE c # call[w].at
    <3>1. Whole(Kind[call[w].store], held[call[w].store][c], size[c])
      BY <1>1, <2>2 DEF CoreInv, Done
    <3> QED BY <2>2, <3>1
  <2> QED BY <2>1, <2>2
<1>3. Leaves(w)
  <2> SUFFICES ASSUME NEW s \in Stores, NEW c \in Chapters,
                      Kind[s] \in Invalidating, <<s, c>> \in Works(call, w),
                      <<s, c>> \notin disturbed'
               PROVE  held'[s][c] = Pieces(Kind[s], size'[c])
    BY DEF Leaves
  <2>1. <<s, c>> = Part(w) /\ s = call[w].store /\ c = call[w].at
    BY WorksOn DEF Works, Rebuilding, Part
  <2>2. Alone(w)
    BY <2>1 DEF Moves, Healed, Alone
  <2>3. Whole(Kind[s], held'[s][c], size'[c])
    BY <2>1, <2>2
  <2> QED BY <2>3, KindFacts DEF Whole
<1>4. CASE call'[w] = NoCall
  <2>1. call[w].todo = {}
    BY <1>1, <1>4, GoesOnTo
  <2> QED BY <1>2, <1>3, <1>4, <2>1, Idle
<1>5. CASE call'[w] # NoCall
  <2>2. /\ call'[w].step = "replay" /\ call'[w].store = call[w].store
        /\ call'[w].todo = call[w].todo \ {call'[w].at}
    BY <1>1, <1>5, GoesOnTo
  <2>3. exempt[w] \subseteq exempt'[w]
    BY <1>1, <1>5, <2>2, ExemptGrows DEF Moves, Listing
  <2>4. Done(w)'
    BY <1>2, <2>2, <2>3 DEF Done
  <2>5. Fresh(w)' /\ Untouched(w)' /\ Told(w)'
    BY <2>2 DEF Fresh, Untouched, Told, Rebuilding, Doing
  <2> QED BY <1>3, <1>5, <2>4, <2>5 DEF CoreInv
<1> QED BY <1>4, <1>5

(* The next row continues the rows that were inserted.                       *)
LEMMA NextRow ==
  ASSUME NEW n \in Nat, n # 0
  PROVE  Append([i \in 1 .. n - 1 |-> i], n) = [i \in 1 .. n |-> i]
<1> DEFINE rows == [i \in 1 .. n - 1 |-> i]
<1>1. rows \in Seq(Nat) /\ Len(rows) = n - 1
  OBVIOUS
<1>2. /\ Append(rows, n) \in Seq(Nat) /\ Len(Append(rows, n)) = n
      /\ \A i \in 1 .. n : Append(rows, n)[i] = i
  BY <1>1
<1>3. DOMAIN Append(rows, n) = 1 .. n
  BY <1>2
<1> QED BY <1>2, <1>3

LEMMA TextOf ==
  ASSUME NEW s \in Stores, NEW n \in Nat
  PROVE  /\ Kind[s] = "fts5" => /\ RenderText(Kind[s], n) = n
                                /\ Pieces(Kind[s], n) = [i \in 1 .. n |-> i]
                                /\ n = 0 => Pieces(Kind[s], n) = << >>
         /\ Kind[s] # "fts5" => Pieces(Kind[s], n) = <<RenderText(Kind[s], n)>>
BY DEF RenderText, Pieces

(* The last statement or request of a rebuild completes the chapter.         *)
LEMMA WrittenWhole ==
  ASSUME TypeInv, NEW w \in Cores, Writes(w), ~AnswerLost(w), GoesOn(w),
         Fresh(w), Alone(w)
  PROVE  Whole(Kind[call[w].store], held'[call[w].store][call[w].at],
               size[call[w].at])
<1>1. /\ call[w] # NoCall /\ Rebuilding(w)
      /\ call[w].store \in Stores /\ size[call[w].at] \in Nat
      /\ Holds(w) \in Seq(Nat) /\ call[w].text \in Nat
  BY WriteEffect, CallTypes DEF Rebuilding, Holds, TypeInv, StoresTypeOK
<1>2. call[w].text = RenderText(Kind[call[w].store], size[call[w].at])
  BY <1>1 DEF Fresh
<1>3. \/ call'[w] = NoCall
      \/ call'[w] # NoCall /\ call'[w].step = "replay"
  BY <1>1, GoesOnTo
<1>4. CASE DeleteChapter(w)
  <2>1. /\ call[w].text = 0 /\ held'[call[w].store][call[w].at] = << >>
        /\ Kind[call[w].store] = "fts5"
    BY <1>3, <1>4, DeleteEffect, StoresAssumption
  <2>2. Pieces(Kind[call[w].store], size[call[w].at]) = << >>
    BY <1>1, <1>2, <2>1, TextOf
  <2> QED BY <2>1, <2>2 DEF Whole, Remote
<1>5. CASE InsertRow(w)
  <2>1. /\ call[w].step = "insert" /\ call[w].next = call[w].text
        /\ call[w].next \in 1 .. call[w].text
        /\ held'[call[w].store][call[w].at] = Append(Holds(w), call[w].next)
        /\ Kind[call[w].store] = "fts5"
    BY <1>3, <1>5, InsertEffect, StoresAssumption
  <2>2. Holds(w) = [i \in 1 .. call[w].next - 1 |-> i]
    BY <1>1, <2>1 DEF Fresh
  <2>3. held'[call[w].store][call[w].at] = [i \in 1 .. call[w].text |-> i]
    BY <1>1, <2>1, <2>2, NextRow
  <2>4. Pieces(Kind[call[w].store], size[call[w].at])
          = [i \in 1 .. call[w].text |-> i]
    BY <1>1, <1>2, <2>1, TextOf
  <2> QED BY <2>1, <2>3, <2>4 DEF Whole, Remote
<1>6. CASE StoreEmbedding(w)
  <2>1. Kind[call[w].store] \in {"vector-sqlite", "vector"}
    BY <1>6 DEF StoreEmbedding, Doing, TypeInv, KindSound
  <2>2. held'[call[w].store][call[w].at] = <<call[w].text>>
    <3>1. <<call[w].text>> \in Seq(Nat)
      BY <1>1
    <3> QED BY <1>1, <1>6, <3>1, PutEffect DEF StoreEmbedding
  <2>3. Pieces(Kind[call[w].store], size[call[w].at]) = <<call[w].text>>
    BY <1>1, <1>2, <2>1, TextOf
  <2> QED BY <2>1, <2>2, <2>3 DEF Whole, Remote
<1>7. CASE Update(w) \/ Create(w)
  <2>1. Kind[call[w].store] \in Remote
    BY <1>7 DEF Update, Create, Doing, TypeInv, KindSound
  <2>2. \E i \in DOMAIN held'[call[w].store][call[w].at] :
           held'[call[w].store][call[w].at][i] = call[w].text
    <3>1. CASE Update(w)
      <4>1. Doing(w, "update") /\ Put(w, Updated(w))
        BY <3>1 DEF Update
      <4>2. held'[call[w].store][call[w].at] = Updated(w)
        BY <1>1, <4>1, UpdatedType, PutEffect
      <4> QED BY <4>1, <4>2, UpdatedType
    <3>2. CASE Create(w)
      <4>1. Put(w, Created(w))
        BY <3>2 DEF Create
      <4>2. held'[call[w].store][call[w].at] = Created(w)
        BY <1>1, <4>1, CreatedType, PutEffect
      <4> QED BY <1>1, <4>2, CreatedType
    <3> QED BY <1>7, <3>1, <3>2
  <2>3. Pieces(Kind[call[w].store], size[call[w].at]) = <<call[w].text>>
    <3>1. Kind[call[w].store] # "fts5"
      BY <2>1 DEF Remote
    <3> QED BY <1>1, <1>2, <3>1, TextOf
  <2> QED BY <2>1, <2>2, <2>3 DEF Whole
<1> QED BY <1>4, <1>5, <1>6, <1>7 DEF Writes

(* Everything a core may end a chapter with.                                 *)
LEMMA WriteKept ==
  ASSUME TypeInv, NEW w \in Cores, Writes(w), CoreInv(w)
  PROVE  /\ CoreInv(w)' /\ Leaves(w)
         /\ call'[w] = NoCall /\ faults' = faults =>
              \A c \in Chapters \ exempt[w] :
                 Whole(Kind[call[w].store], held'[call[w].store][c], size'[c])
<1>1. /\ Rebuilding(w) /\ Moves(w)
      /\ call[w] # NoCall /\ call[w].step \notin {"mark", "replay"}
      /\ call[w].store \in Stores /\ call[w].at \in Chapters
  BY WriteEffect, WriteMoves, CallTypes DEF Rebuilding
<1>2. \A c \in Chapters : c # call[w].at
         => held'[call[w].store][c] = held[call[w].store][c]
  BY <1>1, WriteEffect DEF Part
<1>3. size' = size
  BY DEF Writes, DeleteChapter, InsertRow, StoreEmbedding, Update, Create,
         AnswerLost
<1>4. CASE GoesOn(w) /\ ~AnswerLost(w)
  <2>1. Alone(w) => Whole(Kind[call[w].store],
                          held'[call[w].store][call[w].at], size[call[w].at])
    BY <1>4, WrittenWhole DEF CoreInv
  <2> QED BY <1>1, <1>2, <1>3, <1>4, <2>1, ChapterDone
<1>5. CASE AnswerLost(w)
  <2>1. call'[w] = NoCall /\ faults' # faults
    BY <1>5, ReturnsEffect DEF AnswerLost, Fault, TypeInv, StoresTypeOK
  <2>2. Kind[call[w].store] \notin Invalidating
    <3>1. Kind[call[w].store] \in Remote
      BY <1>5 DEF AnswerLost, Doing, TypeInv, KindSound
    <3> QED BY <1>1, <3>1, KindFacts
  <2>3. Leaves(w)
    BY <1>1, <2>2, WorksOn DEF Leaves, Works
  <2> QED BY <2>1, <2>3, Idle
<1>6. CASE ~GoesOn(w) /\ ~AnswerLost(w)
  <2>1. ~Proceed(w)
    BY <1>1, <1>6, ProceedEffect
  <2>2. DeleteChapter(w) \/ InsertRow(w)
    BY <1>6, <2>1 DEF Writes, StoreEmbedding, Update, Create
  <2>3. /\ call'[w] \in StoreCall /\ call'[w] # NoCall
        /\ call'[w].step = "insert"
        /\ call'[w].store = call[w].store /\ call'[w].at = call[w].at
        /\ call'[w].todo = call[w].todo /\ call'[w].text = call[w].text
    BY <2>1, <2>2, DeleteEffect, InsertEffect, StoresAssumption
  <2>4. exempt[w] \subseteq exempt'[w]
    BY <1>1, <2>3, ExemptGrows DEF Moves, Listing
  <2>5. Alone(w)' => Alone(w)
    BY <2>3, <2>4, <1>1 DEF Alone, Part, Moves, Healed
  <2>6. ASSUME Alone(w)
        PROVE  held'[call[w].store][call[w].at]
                 = [i \in 1 .. call'[w].next - 1 |-> i]
    <3>1. CASE DeleteChapter(w)
      <4>1. /\ held'[call[w].store][call[w].at] = << >>
            /\ call'[w].next = 1
        BY <2>1, <3>1, DeleteEffect
      <4> QED BY <4>1
    <3>2. CASE InsertRow(w)
      <4>1. /\ call[w].step = "insert" /\ call[w].next \in 1 .. call[w].text
            /\ held'[call[w].store][call[w].at] = Append(Holds(w), call[w].next)
            /\ call'[w].next = call[w].next + 1
        BY <2>1, <3>2, InsertEffect
      <4>2. Holds(w) = [i \in 1 .. call[w].next - 1 |-> i]
        BY <1>1, <2>6, <4>1 DEF CoreInv, Fresh
      <4>3. call[w].next \in Nat /\ call[w].next # 0
        BY <1>1, <4>1, CallTypes
      <4>4. call'[w].next - 1 = call[w].next
        BY <4>1, <4>3
      <4> QED BY <4>1, <4>2, <4>3, <4>4, NextRow
    <3> QED BY <2>2, <3>1, <3>2
  <2>7. Fresh(w)'
    <3> SUFFICES ASSUME Alone(w)'
                 PROVE  /\ call'[w].text
                             = RenderText(Kind[call'[w].store],
                                          size'[call'[w].at])
                        /\ Holds(w)' = [i \in 1 .. call'[w].next - 1 |-> i]
      BY DEF Fresh
    <3> QED BY <1>1, <1>3, <2>3, <2>5, <2>6 DEF CoreInv, Fresh, Holds
  <2>8. Done(w)'
    <3> SUFFICES ASSUME NEW c \in Chapters, c \notin exempt'[w],
                        c # call'[w].at, c \notin call'[w].todo
                 PROVE  Whole(Kind[call'[w].store], held'[call'[w].store][c],
                              size'[c])
      BY DEF Done
    <3> QED BY <1>1, <1>2, <1>3, <2>3, <2>4 DEF CoreInv, Done, Listing
  <2>9. Untouched(w)' /\ Told(w)'
    BY <2>3 DEF Untouched, Told, Doing
  <2>10. Leaves(w)
    BY <1>1, <2>3, WorksOn DEF Leaves, Works
  <2> QED BY <2>3, <2>7, <2>8, <2>9, <2>10 DEF CoreInv
<1> QED BY <1>4, <1>5, <1>6

LEMMA CommitKept ==
  ASSUME TypeInv, NEW w \in Cores, NEW c \in Chapters, Commit(w, c)
  PROVE  CoreInv(w)' /\ Leaves(w)
<1>1. /\ call'[w] = [store |-> attached[w][1], at |-> c, todo |-> {},
                     step |-> "mark", text |-> 0, next |-> 1, found |-> 0]
      /\ attached' = attached
  BY BecomesEffect DEF Commit
<1>2. call'[w].step = "mark" /\ call'[w].next = 1 /\ call'[w].at = c
  BY <1>1
<1>3. Told(w)'
  <2> SUFFICES ASSUME NEW s \in Stores, Kind[s] \in Invalidating,
                      <<s, c>> \notin disturbed'
               PROVE  /\ s \in StoresOf(w)
                      /\ \A i \in DOMAIN attached[w] : ~(i < 1)
    BY <1>1, <1>2 DEF Told, StoresOf
  <2>1. s \notin Unnotified(w)
    BY DEF Commit, History
  <2> QED BY <2>1, AttachedTypes DEF Unnotified
<1>4. Fresh(w)' /\ Untouched(w)' /\ Done(w)'
  BY <1>2 DEF Fresh, Untouched, Done, Rebuilding, Listing
<1>5. Leaves(w)
  BY WorksOn DEF Leaves, Works, Commit
<1> QED BY <1>3, <1>4, <1>5 DEF CoreInv

LEMMA MarkKept ==
  ASSUME TypeInv, NEW w \in Cores, MarkDirty(w), CoreInv(w)
  PROVE  CoreInv(w)' /\ Leaves(w)
<1>1. /\ call[w] # NoCall /\ call[w].step = "mark" /\ Doing(w, "mark")
      /\ attached' = attached /\ size' = size
      /\ call[w].store \in Stores /\ call[w].at \in Chapters
      /\ call[w] \in StoreCall
  BY CallTypes DEF MarkDirty, Doing
<1>2. /\ call[w].next \in DOMAIN attached[w]
      /\ call[w].store = attached[w][call[w].next]
  BY <1>1 DEF TypeInv, StoresTypeOK, StepSound
<1>3. disturbed \subseteq disturbed'
  BY QuietHistory DEF MarkDirty
<1>4. \A s \in Stores : held'[s][call[w].at] \in {held[s][call[w].at], << >>}
  <2>1. CASE Kind[call[w].store] \in Invalidating
    <3>1. Put(w, << >>) /\ << >> \in Seq(Nat)
      BY <2>1 DEF MarkDirty
    <3>2. /\ held'[call[w].store][call[w].at] = << >>
          /\ \A s \in Stores : s # call[w].store
               => held'[s][call[w].at] = held[s][call[w].at]
      BY <1>1, <3>1, PutEffect DEF Part
    <3> QED BY <3>2
  <2>2. CASE Kind[call[w].store] \notin Invalidating
    BY <2>2 DEF MarkDirty
  <2> QED BY <2>1, <2>2
<1>5. Kind[call[w].store] \in Invalidating
        => held'[call[w].store][call[w].at] = << >>
  <2> SUFFICES ASSUME Kind[call[w].store] \in Invalidating
               PROVE  held'[call[w].store][call[w].at] = << >>
    OBVIOUS
  <2>1. Put(w, << >>) /\ << >> \in Seq(Nat)
    BY DEF MarkDirty
  <2> QED BY <1>1, <2>1, PutEffect
<1>6. ASSUME NEW s \in Stores, Kind[s] \in Invalidating,
             <<s, call[w].at>> \notin disturbed'
      PROVE  /\ s \in StoresOf(w)
             /\ \A i \in DOMAIN attached[w] :
                   i <= call[w].next /\ attached[w][i] = s
                   => held'[s][call[w].at] = << >>
  <2>1. /\ s \in StoresOf(w)
        /\ \A i \in DOMAIN attached[w] :
              i < call[w].next /\ attached[w][i] = s
              => held[s][call[w].at] = << >>
    BY <1>1, <1>3, <1>6 DEF CoreInv, Told
  <2>2. \A i \in DOMAIN attached[w] :
           i <= call[w].next => i < call[w].next \/ i = call[w].next
    BY <1>2, AttachedTypes
  <2> QED BY <1>2, <1>4, <1>5, <1>6, <2>1, <2>2
<1>7. CASE call'[w] = NoCall
  <2>1. call[w].next = Len(attached[w])
    <3> SUFFICES ASSUME call[w].next # Len(attached[w]) PROVE FALSE
      OBVIOUS
    <3>1. call'[w] = [call[w] EXCEPT !.next = call[w].next + 1,
                                     !.store = attached[w][call[w].next + 1]]
      BY <1>1, NextProjectionEffect DEF MarkDirty
    <3>2. call[w].next + 1 \in DOMAIN attached[w] /\ call[w].next + 1 \in Nat
      BY <1>2, AttachedTypes
    <3>3. call'[w] \in StoreCall
      BY <1>1, <3>1, <3>2, AttachedTypes DEF StoreCall
    <3> QED BY <1>7, <3>3, StoresAssumption
  <2>2. Leaves(w)
    <3> SUFFICES ASSUME NEW s \in Stores, NEW c \in Chapters,
                        Kind[s] \in Invalidating, <<s, c>> \in Works(call, w),
                        <<s, c>> \notin disturbed'
                 PROVE  held'[s][c] = << >>
      BY DEF Leaves
    <3>1. c = call[w].at
      BY <1>1, WorksOn DEF Works
    <3>2. s \in StoresOf(w)
      BY <1>6, <3>1
    <3>3. PICK i \in DOMAIN attached[w] : attached[w][i] = s
      BY <3>2 DEF StoresOf
    <3>4. i <= call[w].next
      BY <2>1, AttachedTypes
    <3> QED BY <1>6, <3>1, <3>3, <3>4
  <2> QED BY <1>7, <2>2, Idle
<1>8. CASE call'[w] # NoCall
  <2>1. call'[w] = [call[w] EXCEPT !.next = call[w].next + 1,
                                   !.store = attached[w][call[w].next + 1]]
    BY <1>1, <1>8, NextProjectionEffect DEF MarkDirty
  <2>2. /\ call'[w].step = "mark" /\ call'[w].at = call[w].at
        /\ call'[w].next = call[w].next + 1
    BY <1>1, <2>1 DEF StoreCall
  <2>3. Told(w)'
    <3> SUFFICES ASSUME NEW s \in Stores, Kind[s] \in Invalidating,
                        <<s, call[w].at>> \notin disturbed'
                 PROVE  /\ s \in StoresOf(w)
                        /\ \A i \in DOMAIN attached[w] :
                              i < call[w].next + 1 /\ attached[w][i] = s
                              => held'[s][call[w].at] = << >>
      BY <1>1, <2>2 DEF Told, StoresOf
    <3>1. \A i \in DOMAIN attached[w] :
             i < call[w].next + 1 => i <= call[w].next
      BY <1>2, AttachedTypes
    <3> QED BY <1>6, <3>1
  <2>4. Fresh(w)' /\ Untouched(w)' /\ Done(w)'
    BY <2>2 DEF Fresh, Untouched, Done, Rebuilding, Listing
  <2>5. Leaves(w)
    BY <1>1, <1>8, <2>2, WorksOn DEF Leaves, Works
  <2> QED BY <2>3, <2>4, <2>5 DEF CoreInv
<1> QED BY <1>7, <1>8

LEMMA BeginKept ==
  ASSUME TypeInv, NEW w \in Cores, NEW s \in Stores, Begin(w, s)
  PROVE  CoreInv(w)' /\ Leaves(w)
<1>1. /\ call[w] = NoCall /\ call'[w] # NoCall /\ call'[w].step = "replay"
      /\ closed = call'[w].todo \cup {call'[w].at}
  BY BeginCalls, StoresAssumption DEF Begin
<1>2. Chapters \ closed \subseteq exempt'[w]
  BY <1>1 DEF Begin, History
<1>3. Done(w)'
  BY <1>1, <1>2 DEF Done
<1>4. Fresh(w)' /\ Untouched(w)' /\ Told(w)'
  BY <1>1 DEF Fresh, Untouched, Told, Rebuilding, Doing
<1>5. Leaves(w)
  BY <1>1, WorksOn DEF Leaves, Works
<1> QED BY <1>3, <1>4, <1>5 DEF CoreInv

LEMMA ReplayKept ==
  ASSUME TypeInv, IndexFaithful, NEW w \in Cores, Replay(w), CoreInv(w)
  PROVE  CoreInv(w)' /\ Leaves(w)
<1>1. /\ call[w] # NoCall /\ call[w].step = "replay"
      /\ call'[w] \in StoreCall /\ call'[w] # NoCall
      /\ call'[w].store = call[w].store /\ call'[w].at = call[w].at
      /\ call'[w].todo = call[w].todo
      /\ call'[w].text = RenderText(Kind[call[w].store], size[call[w].at])
      /\ call[w].store \in Stores /\ call[w].at \in Chapters
      /\ size' = size /\ held' = held
  BY ReplayEffect, CallTypes, StoresAssumption DEF Replay
<1>2. call'[w].step \in {"delete", "embed", "ensure", "query"}
  BY <1>1, ReplayEffect, KindFacts DEF FirstStep
<1>3. Moves(w) /\ disturbed \subseteq disturbed'
  BY ReadMoves, QuietHistory DEF Replay
<1>4. Fresh(w)'
  BY <1>1, <1>2 DEF Fresh
<1>5. Untouched(w)'
  <2> SUFFICES ASSUME Kind[call[w].store] \in Invalidating,
                      Part(w) \notin disturbed'
               PROVE  Holds(w) \in {<< >>, Pieces(Kind[call[w].store],
                                                  size[call[w].at])}
    BY <1>1 DEF Untouched, Part, Holds
  <2>1. Part(w) \notin disturbed
    BY <1>3
  <2>2. Quiet(Part(w))
    <3> SUFFICES ASSUME NEW u \in Cores, Part(w) \in Works(call, u)
                 PROVE  FALSE
      BY DEF Quiet
    <3>1. u # w
      BY <1>1, WorksOn DEF Works
    <3>2. call'[u] = call[u]
      BY <1>3, <3>1 DEF Moves, TypeInv, StoresTypeOK
    <3>3. Part(w) \in Works(call', u)
      BY <3>2, WorksOn DEF Works
    <3>4. Part(w) \in Rebuilds(call', w)
      BY <1>1, <1>2, WorksOn DEF Part
    <3>5. Part(w) \in Contended(call')
      BY <3>1, <3>3, <3>4, Contending DEF Works, Part
    <3> QED BY <1>3, <3>5 DEF Moves, Noted
  <2> QED BY <1>1, <2>1, <2>2 DEF IndexFaithful, Part, Holds
<1>6. Done(w)'
  <2>1. exempt[w] \subseteq exempt'[w]
    BY <1>1, <1>2, <1>3, ExemptGrows DEF Moves, Listing
  <2> SUFFICES ASSUME NEW c \in Chapters, c \notin exempt[w],
                      c # call[w].at, c \notin call[w].todo
               PROVE  Whole(Kind[call[w].store], held[call[w].store][c], size[c])
    BY <1>1, <2>1 DEF Done
  <2> QED BY <1>1 DEF CoreInv, Done, Listing
<1>7. Told(w)'
  BY <1>2 DEF Told, Doing
<1>8. Leaves(w)
  BY <1>1, WorksOn DEF Leaves, Works
<1> QED BY <1>4, <1>5, <1>6, <1>7, <1>8 DEF CoreInv

LEMMA LookupKept ==
  ASSUME TypeInv, NEW w \in Cores, EnsureSchema(w) \/ Query(w), CoreInv(w)
  PROVE  CoreInv(w)' /\ Leaves(w)
<1>1. /\ call[w] # NoCall /\ call[w].step \in {"ensure", "query"}
      /\ Kind[call[w].store] \in Remote
      /\ call'[w] \in StoreCall /\ call'[w] # NoCall
      /\ call'[w].store = call[w].store /\ call'[w].at = call[w].at
      /\ call'[w].todo = call[w].todo /\ call'[w].text = call[w].text
      /\ call'[w].step \in {"query", "update", "create"}
      /\ call[w].store \in Stores /\ call[w].at \in Chapters
      /\ size' = size /\ held' = held
  BY LookupEffect, CallTypes, StoresAssumption DEF EnsureSchema, Query
<1>2. Kind[call[w].store] \notin Invalidating
  BY <1>1, KindFacts
<1>3. exempt[w] \subseteq exempt'[w]
  BY <1>1, ReadMoves, ExemptGrows DEF Moves, Listing
<1>4. Fresh(w)'
  BY <1>1, <1>2, <1>3 DEF CoreInv, Fresh, Rebuilding, Alone
<1>5. Done(w)'
  <2> SUFFICES ASSUME NEW c \in Chapters, c \notin exempt[w],
                      c # call[w].at, c \notin call[w].todo
               PROVE  Whole(Kind[call[w].store], held[call[w].store][c], size[c])
    BY <1>1, <1>3 DEF Done
  <2> QED BY <1>1 DEF CoreInv, Done, Listing
<1>6. Untouched(w)' /\ Told(w)'
  BY <1>1, <1>2 DEF Untouched, Told, Doing
<1>7. Leaves(w)
  BY <1>1, <1>2, WorksOn DEF Leaves, Works
<1> QED BY <1>4, <1>5, <1>6, <1>7 DEF CoreInv

LEMMA FailKept ==
  ASSUME TypeInv, NEW w \in Cores, CallFails(w) \/ Crash(w), CoreInv(w)
  PROVE  CoreInv(w)' /\ Leaves(w)
<1>1. call'[w] = NoCall /\ size' = size
  BY ReturnsEffect DEF CallFails, Crash
<1>2. disturbed \subseteq disturbed' /\ Unfinished(w) \subseteq disturbed'
  BY FailingHistory DEF CallFails, Crash
<1>3. Leaves(w)
  <2> SUFFICES ASSUME NEW s \in Stores, NEW c \in Chapters,
                      Kind[s] \in Invalidating, <<s, c>> \in Works(call, w),
                      <<s, c>> \notin disturbed'
               PROVE  held'[s][c] \in {<< >>, Pieces(Kind[s], size'[c])}
    BY DEF Leaves
  <2>1. held'[s][c] = held[s][c]
    BY CrashEffect, KindFacts DEF CallFails
  <2>2. CASE <<s, c>> \in Rebuilds(call, w)
    <3>1. /\ Rebuilding(w) /\ <<s, c>> = Part(w) /\ call[w] # NoCall
          /\ s = call[w].store /\ c = call[w].at
      BY <2>2, WorksOn DEF Rebuilding, Part
    <3>2. call[w].step # "insert"
      BY <1>2, <3>1 DEF Unfinished, Doing
    <3> QED BY <1>1, <1>2, <2>1, <3>1, <3>2 DEF CoreInv, Untouched, Holds
  <2>3. CASE <<s, c>> \in Notifies(call, w)
    <3>1. /\ call[w] # NoCall /\ call[w].step = "mark" /\ c = call[w].at
          /\ Doing(w, "mark")
      BY <2>3, WorksOn DEF Doing
    <3>2. /\ s \in StoresOf(w)
          /\ \A i \in DOMAIN attached[w] :
                i < call[w].next /\ attached[w][i] = s => held[s][c] = << >>
      BY <1>2, <3>1 DEF CoreInv, Told
    <3>3. PICK i \in DOMAIN attached[w] : attached[w][i] = s
      BY <3>2 DEF StoresOf
    <3>4. i < call[w].next
      <4> SUFFICES ASSUME ~(i < call[w].next) PROVE FALSE
        OBVIOUS
      <4>1. i \in call[w].next .. Len(attached[w])
        BY <3>1, AttachedTypes, CallTypes
      <4>2. <<s, c>> \in Unfinished(w)
        BY <2>3, <3>1, <3>3, <4>1 DEF Unfinished, Doing
      <4> QED BY <1>2, <4>2
    <3> QED BY <2>1, <3>2, <3>3, <3>4
  <2> QED BY <2>2, <2>3 DEF Works
<1> QED BY <1>1, <1>3, Idle

-----------------------------------------------------------------------------
(* The invariant, and what follows. *)

LEMMA IndexInit == StoresInit => IndexInv
<1> SUFFICES ASSUME StoresInit PROVE IndexInv
  OBVIOUS
<1>1. \A w \in Cores : CoreInv(w)
  BY DEF StoresInit, CoreInv, Fresh, Untouched, Told, Done, Rebuilding, Doing,
         Listing
<1>2. IndexFaithful
  BY DEF StoresInit, IndexFaithful
<1> QED BY <1>1, <1>2, TypesInit, HistoryInit DEF IndexInv

LEMMA CoreKept ==
  ASSUME IndexInv, NEW w \in Cores, CoreStep(w)
  PROVE  IndexInv'
<1>1. TypeInv /\ HistoryInv /\ IndexFaithful /\ \A u \in Cores : CoreInv(u)
  BY DEF IndexInv
<1>2. Moves(w) /\ TypeInv' /\ HistoryInv'
  BY <1>1, CoreMoves, CoreTypes, HistoryKept DEF Moves
<1>3. CoreInv(w)' /\ Leaves(w)
  BY <1>1, CommitKept, MarkKept, BeginKept, ReplayKept, LookupKept, WriteKept,
     FailKept DEF CoreStep
<1>4. \A u \in Cores \ {w} : CoreInv(u)'
  BY <1>1, <1>2, OthersKept
<1>5. IndexFaithful'
  BY <1>1, <1>2, <1>3, FaithfulKept
<1> QED BY <1>2, <1>3, <1>4, <1>5 DEF IndexInv

LEMMA CloseKept ==
  ASSUME IndexInv, NEW c \in Chapters, Close(c)
  PROVE  IndexInv'
<1>1. TypeInv /\ HistoryInv /\ IndexFaithful /\ \A w \in Cores : CoreInv(w)
  BY DEF IndexInv
<1>2. /\ UNCHANGED <<attached, size, held, call>>
      /\ Noted /\ disturbed \subseteq disturbed'
  BY QuietHistory DEF Close
<1>3. disturbed' = disturbed
  BY <1>1 DEF Close, History, HistoryInv
<1>4. TypeInv' /\ HistoryInv'
  BY <1>1, <1>2, CloseTypes, HistoryKept
<1>5. \A w \in Cores : CoreInv(w)'
  <2> SUFFICES ASSUME NEW w \in Cores PROVE CoreInv(w)'
    OBVIOUS
  <2>1. Listing(w) => exempt[w] \subseteq exempt'[w]
    BY <1>2, ExemptGrows DEF Listing
  <2>2. Rebuilding(w) => Listing(w)
    BY DEF Rebuilding, Listing
  <2>3. Fresh(w)'
    BY <1>1, <1>2, <1>3, <2>1, <2>2
    DEF CoreInv, Fresh, Alone, Rebuilding, Part, Holds
  <2>4. Untouched(w)'
    BY <1>1, <1>2, <1>3 DEF CoreInv, Untouched, Rebuilding, Part, Holds
  <2>5. Told(w)'
    BY <1>1, <1>2, <1>3 DEF CoreInv, Told, Doing, StoresOf
  <2>6. Done(w)'
    BY <1>1, <1>2, <2>1 DEF CoreInv, Done, Listing
  <2> QED BY <2>3, <2>4, <2>5, <2>6 DEF CoreInv
<1>6. IndexFaithful'
  BY <1>1, <1>2, <1>3 DEF IndexFaithful, Quiet
<1> QED BY <1>4, <1>5, <1>6 DEF IndexInv

LEMMA IndexNext == IndexInv /\ [StoresNext]_svars => IndexInv'
<1> SUFFICES ASSUME IndexInv, [StoresNext]_svars PROVE IndexInv'
  OBVIOUS
<1>1. CASE StoresNext
  BY <1>1, Steps, CoreKept, CloseKept
<1>2. CASE UNCHANGED svars
  BY <1>2
  DEF svars, IndexInv, TypeInv, StoresTypeOK, StepSound, KindSound, HistoryInv,
      Listing, IndexFaithful, Quiet, CoreInv, Fresh, Untouched, Told, Done,
      Rebuilding, Alone, Part, Holds, Doing, StoresOf
<1> QED BY <1>1, <1>2

(* IndexFaithful: whatever cores, projections and faults there are, an index  *)
(* that is not disturbed and that no call works on holds all rows of a        *)
(* chapter as the journal has them, or none (fts5.rs, vector_sqlite.rs).      *)
THEOREM IndexAllOrNone == StoresSpec => []IndexFaithful
<1>1. IndexInv => IndexFaithful
  BY DEF IndexInv
<1> QED BY <1>1, IndexInit, IndexNext, PTL DEF StoresSpec

(* RebuildCompletes: a rebuild that ends without an error has brought every   *)
(* chapter it owes to its store, for all five projections (core.rs,           *)
(* rebuild_projection).                                                      *)
THEOREM RebuildsComplete == StoresSpec => RebuildCompletes
<1> DEFINE Ends ==
      \A w \in Cores :
        /\ call[w] # NoCall /\ call[w].step # "mark"
        /\ call'[w] = NoCall /\ faults' = faults
        => \A c \in Chapters \ exempt[w] : Shows(call[w].store, c)
<1>1. IndexInv /\ [StoresNext]_svars => [Ends]_svars
  <2> SUFFICES ASSUME IndexInv, StoresNext PROVE Ends
    OBVIOUS
  <2> SUFFICES ASSUME NEW w \in Cores, call[w] # NoCall, call[w].step # "mark",
                      call'[w] = NoCall, faults' = faults,
                      NEW c \in Chapters \ exempt[w]
               PROVE  Shows(call[w].store, c)
    OBVIOUS
  <2>1. TypeInv /\ CoreInv(w)
    BY DEF IndexInv
  <2>2. CoreStep(w)
    <3>1. ASSUME NEW u \in Cores, CoreStep(u) PROVE u = w
      BY <2>1, <3>1, CoreMoves DEF Moves, TypeInv, StoresTypeOK
    <3>2. \A d \in Chapters : ~Close(d)
      BY DEF Close
    <3> QED BY <3>1, <3>2, Steps
  <2>3. ~Replay(w) /\ ~EnsureSchema(w) /\ ~Query(w)
    BY <2>1, ReplayEffect, LookupEffect, StoresAssumption
  <2>4. ~CallFails(w) /\ ~Crash(w)
    BY <2>1 DEF CallFails, Crash, Fault, TypeInv, StoresTypeOK
  <2>5. Writes(w)
    BY <2>2, <2>3, <2>4 DEF CoreStep, Commit, MarkDirty, Doing, Begin
  <2>6. Whole(Kind[call[w].store], held'[call[w].store][c], size'[c])
    BY <2>1, <2>5, WriteKept
  <2> QED BY <2>6 DEF Whole, Shows
<1> QED BY <1>1, IndexInit, IndexNext, PTL DEF StoresSpec, RebuildCompletes

-----------------------------------------------------------------------------
(* One document for each chapter. *)

LEMMA DocumentInit == StoresInit => DocumentInv
<1> SUFFICES ASSUME StoresInit PROVE DocumentInv
  OBVIOUS
<1>1. OneDocument /\ \A w \in Cores : FirstDocument(w)
  BY DEF StoresInit, OneDocument, FirstDocument, Doing
<1> QED BY <1>1, TypesInit, HistoryInit DEF DocumentInv

(* Only a lookup leads to a create.                                          *)
LEMMA AppendSteps ==
  ASSUME TypeInv, NEW w \in Cores,
         (\E c \in Chapters : Commit(w, c)) \/ MarkDirty(w),
         call'[w] # NoCall
  PROVE  call'[w].step = "mark"
<1>1. CASE \E c \in Chapters : Commit(w, c)
  <2>1. PICK c \in Chapters : Commit(w, c)
    BY <1>1
  <2>2. call'[w] = [store |-> attached[w][1], at |-> c, todo |-> {},
                    step |-> "mark", text |-> 0, next |-> 1, found |-> 0]
    BY <2>1, BecomesEffect DEF Commit
  <2> QED BY <2>2
<1>2. CASE MarkDirty(w)
  <2>1. call[w] # NoCall /\ call[w].step = "mark" /\ call[w] \in StoreCall
    BY <1>2, CallTypes DEF MarkDirty, Doing
  <2>2. call'[w] = [call[w] EXCEPT !.next = call[w].next + 1,
                                   !.store = attached[w][call[w].next + 1]]
    BY <1>2, <2>1, NextProjectionEffect DEF MarkDirty
  <2> QED BY <2>1, <2>2 DEF StoreCall
<1> QED BY <1>1, <1>2

LEMMA WriteSteps ==
  ASSUME TypeInv, NEW w \in Cores, Writes(w), call'[w] # NoCall
  PROVE  call'[w].step \in {"replay", "insert"}
<1>1. call[w] # NoCall
  BY WriteEffect DEF Rebuilding
<1>2. CASE Proceed(w)
  BY <1>1, <1>2, ProceedEffect, GoesOnTo
<1>3. CASE ~Proceed(w)
  <2>1. ~AnswerLost(w)
    BY ReturnsEffect DEF AnswerLost
  <2> QED BY <1>3, <2>1, DeleteEffect, InsertEffect
          DEF Writes, StoreEmbedding, Update, Create
<1> QED BY <1>2, <1>3

(* What is disturbed at a remote service stays so.                           *)
LEMMA DisturbedStays ==
  ASSUME TypeInv, NEW w \in Cores, Moves(w),
         NEW s \in Stores, NEW c \in Chapters, Kind[s] \in Remote,
         <<s, c>> \in disturbed
  PROVE  <<s, c>> \in disturbed'
BY KindFacts, CallTypes DEF Moves, Healed, Rebuilding, Part

LEMMA DocumentKept ==
  ASSUME DocumentInv, NEW w \in Cores, CoreStep(w)
  PROVE  DocumentInv'
<1>1. /\ TypeInv /\ HistoryInv /\ OneDocument
      /\ \A u \in Cores : FirstDocument(u)
  BY DEF DocumentInv
<1>2. Moves(w) /\ TypeInv' /\ HistoryInv'
  BY <1>1, CoreMoves, CoreTypes, HistoryKept DEF Moves
<1>3. OneDocument'
  <2> SUFFICES ASSUME NEW s \in Stores, NEW c \in Chapters, Kind[s] \in Remote,
                      Len(held'[s][c]) > 1, <<s, c>> \notin disturbed'
               PROVE  FALSE
    BY DEF OneDocument
  <2>1. <<s, c>> \notin disturbed /\ held[s][c] \in Seq(Nat)
    <3>1. <<s, c>> \notin disturbed
      BY <1>1, <1>2, DisturbedStays
    <3> QED BY <1>1, <3>1 DEF TypeInv, StoresTypeOK
  <2>2. ~(Len(held[s][c]) > 1)
    BY <1>1, <2>1 DEF OneDocument
  <2>3. /\ <<s, c>> = Part(w) /\ held[s][c] = Holds(w)
        /\ Doing(w, "create") /\ Len(held'[s][c]) = Len(held[s][c]) + 1
    BY <1>1, <2>2, DocumentWritten
  <2>4. Holds(w) = << >>
    BY <1>1, <2>1, <2>3 DEF FirstDocument
  <2> QED BY <2>2, <2>3, <2>4
<1>4. FirstDocument(w)'
  <2> SUFFICES ASSUME Doing(w, "create")' PROVE Holds(w)' = << >>
    BY DEF FirstDocument
  <2>1. call'[w] # NoCall /\ call'[w].step = "create"
    BY DEF Doing
  <2>2. EnsureSchema(w) \/ Query(w)
    <3>1. ~(\E c \in Chapters : Commit(w, c)) /\ ~MarkDirty(w)
      BY <1>1, <2>1, AppendSteps
    <3>2. ~(\E s \in Stores : Begin(w, s))
      BY <1>1, <2>1, BeginCalls
    <3>3. ~Replay(w)
      <4> SUFFICES ASSUME Replay(w) PROVE FALSE
        OBVIOUS
      <4>1. call[w].store \in Stores
        BY <1>1, ReplayEffect, CallTypes
      <4> QED BY <1>1, <2>1, <4>1, ReplayEffect, KindFacts DEF FirstStep
    <3>4. ~Writes(w)
      BY <1>1, <2>1, WriteSteps
    <3>5. ~CallFails(w) /\ ~Crash(w)
      BY <1>1, <2>1, ReturnsEffect DEF CallFails, Crash
    <3> QED BY <3>1, <3>2, <3>3, <3>4, <3>5 DEF CoreStep
  <2>3. /\ Holds(w) = << >> /\ held' = held
        /\ call'[w].store = call[w].store /\ call'[w].at = call[w].at
    BY <1>1, <2>1, <2>2, LookupEffect DEF EnsureSchema, Query
  <2> QED BY <2>3 DEF Holds
<1>5. ASSUME NEW u \in Cores \ {w} PROVE FirstDocument(u)'
  <2> SUFFICES ASSUME Doing(u, "create")', Part(u)' \notin disturbed'
               PROVE  Holds(u)' = << >>
    BY DEF FirstDocument
  <2>1. call'[u] = call[u] /\ Doing(u, "create")
    BY <1>1, <1>2 DEF Moves, TypeInv, StoresTypeOK, Doing
  <2>2. /\ call[u] # NoCall /\ call[u].step = "create"
        /\ call[u].store \in Stores /\ call[u].at \in Chapters
        /\ Kind[call[u].store] \in Remote
    BY <1>1, <2>1, CallTypes DEF Doing, TypeInv, KindSound
  <2>3. Part(u)' = Part(u) /\ Part(u) \notin disturbed
    BY <1>1, <1>2, <2>1, <2>2, DisturbedStays DEF Part
  <2>4. Holds(u) = << >>
    BY <1>1, <2>1, <2>3 DEF FirstDocument
  <2>5. held'[call[u].store][call[u].at] = held[call[u].store][call[u].at]
    <3> SUFFICES ASSUME held'[call[u].store][call[u].at]
                          # held[call[u].store][call[u].at]
                 PROVE  FALSE
      OBVIOUS
    <3>1. Rebuilding(w) /\ Part(u) = Part(w)
      BY <1>1, <2>2, DocumentWritten DEF Part
    <3>2. Part(u) \in Rebuilds(call, u) /\ Part(u) \in Rebuilds(call, w)
      BY <2>2, <3>1, WorksOn DEF Part, Rebuilding
    <3>3. Part(u) \in Contended(call)
      BY <3>2, Contending
    <3> QED BY <1>1, <2>3, <3>3 DEF HistoryInv
  <2> QED BY <2>1, <2>4, <2>5 DEF Holds
<1> QED BY <1>2, <1>3, <1>4, <1>5 DEF DocumentInv

LEMMA DocumentClose ==
  ASSUME DocumentInv, NEW c \in Chapters, Close(c)
  PROVE  DocumentInv'
<1>1. /\ TypeInv /\ HistoryInv /\ OneDocument
      /\ \A w \in Cores : FirstDocument(w)
  BY DEF DocumentInv
<1>2. /\ UNCHANGED <<held, call>> /\ Noted /\ disturbed \subseteq disturbed'
  BY QuietHistory DEF Close
<1>3. TypeInv' /\ HistoryInv'
  BY <1>1, <1>2, CloseTypes, HistoryKept
<1>4. OneDocument' /\ \A w \in Cores : FirstDocument(w)'
  BY <1>1, <1>2 DEF OneDocument, FirstDocument, Doing, Holds, Part
<1> QED BY <1>3, <1>4 DEF DocumentInv

(* OneDocument: a chapter has a second document at a remote service only      *)
(* after two rebuilds of it at once, whatever requests and answers were lost  *)
(* and repeated (outline.rs, miniapp.rs).                                    *)
THEOREM DocumentsUnique == StoresSpec => []OneDocument
<1>1. DocumentInv /\ [StoresNext]_svars => DocumentInv'
  <2> SUFFICES ASSUME DocumentInv, [StoresNext]_svars PROVE DocumentInv'
    OBVIOUS
  <2>1. CASE StoresNext
    BY <2>1, Steps, DocumentKept, DocumentClose
  <2>2. CASE UNCHANGED svars
    BY <2>2
    DEF svars, DocumentInv, TypeInv, StoresTypeOK, StepSound, KindSound,
        HistoryInv, Listing, OneDocument, FirstDocument, Doing, Holds, Part
  <2> QED BY <2>1, <2>2
<1>2. DocumentInv => OneDocument
  BY DEF DocumentInv
<1> QED BY <1>1, <1>2, DocumentInit, PTL DEF StoresSpec
=============================================================================
