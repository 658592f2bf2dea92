--------------------------- MODULE StoreProjections ---------------------------
(***************************************************************************)
(* The projections that keep a chapter in a store instead of a file: the   *)
(* FTS5 table (projection/fts5.rs), the embeddings in a table or in memory *)
(* (vector_sqlite.rs, vector.rs) and the documents of a remote service     *)
(* (outline.rs, miniapp.rs).  A core attaches some of them; append_section *)
(* calls mark_dirty of each in turn, rebuild_projection hands every closed *)
(* chapter to rebuild_chapter of one.                                      *)
(*                                                                         *)
(* A core runs one call at a time (its mutex); several cores are several   *)
(* processes on one journal, or one process that has it open twice.  They  *)
(* share the tables and the remote documents.  Every SQL statement and     *)
(* every remote request is a step: nothing here runs in a transaction.     *)
(*                                                                         *)
(* A chapter is its number of section rows, a text the number of rows that *)
(* are in it.  Queries, rankings and scores are left out, and so are the   *)
(* dirty sets, which only tests read.                                      *)
(***************************************************************************)
EXTENDS Naturals, Sequences, FiniteSets

CONSTANTS
  Chapters,  \* chapter ids
  Cores,     \* JournalCore instances with this journal
  Stores,    \* tables, embedding maps, remote books
  Kind,      \* of each store, the projection that writes it
  Setups,    \* the ways projections are attached to cores, of each core in
             \* the order of add_projection
  OpenedAt,  \* opened_at of each chapter
  Amendable, \* chapters whose schema lets rows be appended after the close
  NoCall,    \* "the core runs nothing"
  MaxRows,   \* bound: section rows of each chapter
  MaxFaults  \* bound: errors, lost answers and crashes; only these count

VARIABLES
  attached,  \* the projections of each core, one of Setups
  ensured,   \* of each core, the stores whose remote table it knows to exist
  size,      \* the journal: section rows of each chapter
  closed,    \* the journal: the chapters with closed_at
  held,      \* what each store holds of each chapter
  call,      \* what each core is doing
  disturbed, \* history: the parts of stores that need a rebuild
  exempt,    \* history: of each rebuild, the chapters that were open when it
             \* began, and those others worked on
  faults     \* counts what MaxFaults bounds

svars == <<attached, ensured, size, closed, held, call, disturbed, exempt,
           faults>>

(* The name each projection answers to. *)
Kinds == {"fts5", "vector-sqlite", "vector", "outline", "miniapp"}

(* Those that write through a client to a service of their own.             *)
Remote == {"outline", "miniapp"}

(* Those whose mark_dirty deletes what they hold.                           *)
Invalidating == {"fts5", "vector-sqlite"}

(* at is the chapter in work and todo the chapters after it, text the size   *)
(* read by the replay, next the row to insert or the projection to notify,   *)
(* found the document the query returned (0: none).                          *)
StoreCall ==
  [store: Stores, at: Chapters, todo: SUBSET Chapters,
   step: {"mark", "replay", "delete", "insert", "embed",
          "ensure", "query", "update", "create"},
   text: Nat, next: Nat, found: Nat]

ASSUME StoresAssumption ==
  /\ Kind \in [Stores -> Kinds]
  /\ Setups \subseteq [Cores -> Seq(Stores)]
  /\ \A a \in Setups : \A w \in Cores :
        /\ a[w] # << >>
        /\ \A i, j \in DOMAIN a[w] : a[w][i] = a[w][j] => i = j
  /\ \A a \in Setups : \A v, w \in Cores :
        \A i \in DOMAIN a[v], j \in DOMAIN a[w] :
           a[v][i] = a[w][j] /\ Kind[a[v][i]] = "vector" => v = w
  /\ OpenedAt \in [Chapters -> Nat]
  /\ Amendable \subseteq Chapters
  /\ NoCall \notin StoreCall
  /\ MaxRows \in [Chapters -> Nat]
  /\ MaxFaults \in Nat

(* What a call that is at its step relies on. *)
StepSound(w) ==
  call[w] # NoCall =>
    LET x == call[w] IN
    /\ x.step = "mark" => /\ x.next \in DOMAIN attached[w]
                          /\ x.store = attached[w][x.next]
    /\ x.step # "mark" => \E i \in DOMAIN attached[w] : x.store = attached[w][i]
    /\ x.step = "insert" => x.next \in 1 .. x.text
    /\ x.step = "update" => x.found \in DOMAIN held[x.store][x.at]

StoresTypeOK ==
  /\ attached \in Setups
  /\ ensured \in [Cores -> SUBSET Stores]
  /\ size \in [Chapters -> Nat]
  /\ closed \subseteq Chapters
  /\ held \in [Stores -> [Chapters -> Seq(Nat)]]
  /\ call \in [Cores -> StoreCall \cup {NoCall}]
  /\ disturbed \subseteq Stores \X Chapters
  /\ exempt \in [Cores -> SUBSET Chapters]
  /\ faults \in Nat
  /\ \A w \in Cores : StepSound(w)

StoresInit ==
  /\ attached \in Setups
  /\ ensured = [w \in Cores |-> {}]
  /\ size = [c \in Chapters |-> 0]
  /\ closed = {}
  /\ held = [s \in Stores |-> [c \in Chapters |-> << >>]]
  /\ call = [w \in Cores |-> NoCall]
  /\ disturbed = {}
  /\ exempt = [w \in Cores |-> {}]
  /\ faults = 0

-----------------------------------------------------------------------------
(* History: who works on what. *)

StoresOf(w) == {attached[w][i] : i \in DOMAIN attached[w]}

Notifies(calls, w) ==
  IF calls[w] = NoCall THEN {}
  ELSE {p \in Stores \X {calls[w].at} : calls[w].step = "mark"}

(* A rebuild works on one chapter from its replay to its last statement.     *)
Rebuilds(calls, w) ==
  IF calls[w] = NoCall THEN {}
  ELSE {p \in {<<calls[w].store, calls[w].at>>} :
          calls[w].step \notin {"mark", "replay"}}

Works(calls, w) == Notifies(calls, w) \cup Rebuilds(calls, w)

(* Two rebuilds at once, or an append during a rebuild of an index.          *)
Contended(calls) ==
  UNION {Rebuilds(calls, u) \cap
           UNION {Rebuilds(calls, v) \cup
                    {p \in Notifies(calls, v) : Kind[p[1]] \in Invalidating} :
                  v \in Cores \ {u}} :
         u \in Cores}

Others(calls, w) ==
  {calls[v].at : v \in {u \in Cores \ {w} :
     calls[u] # NoCall /\ <<calls[w].store, calls[u].at>> \in Works(calls, u)}}

History(healed, broken) ==
  /\ disturbed' = (disturbed \ healed) \cup broken \cup Contended(call')
  /\ exempt' = [w \in Cores |->
               IF call'[w] = NoCall \/ call'[w].step = "mark" THEN {}
               ELSE (IF call[w] = NoCall THEN Chapters \ closed ELSE exempt[w])
                      \cup Others(call', w)]

-----------------------------------------------------------------------------
(* Moving a core through a call. *)

Doing(w, step) == call[w] # NoCall /\ call[w].step = step

Becomes(w, x) == call' = [call EXCEPT ![w] = x]

Returns(w) == Becomes(w, NoCall)

Part(w) == <<call[w].store, call[w].at>>

Holds(w) == held[call[w].store][call[w].at]

Put(w, x) == held' = [held EXCEPT ![call[w].store][call[w].at] = x]

Fault == faults < MaxFaults /\ faults' = faults + 1

-----------------------------------------------------------------------------
(* append_section: the row is committed, then mark_dirty of each projection. *)

(* Indexes that this core does not know of. *)
Unnotified(w) == {s \in Stores \ StoresOf(w) : Kind[s] \in Invalidating}

Commit(w, c) ==
  /\ call[w] = NoCall
  /\ size[c] < MaxRows[c]
  /\ c \notin closed \/ c \in Amendable
  /\ size' = [size EXCEPT ![c] = @ + 1]
  /\ Becomes(w, [store |-> attached[w][1], at |-> c, todo |-> {},
                 step |-> "mark", text |-> 0, next |-> 1, found |-> 0])
  /\ History({}, {<<s, c>> : s \in Unnotified(w)})
  /\ UNCHANGED <<attached, ensured, closed, held, faults>>

NextProjection(w) ==
  IF call[w].next = Len(attached[w])
    THEN Returns(w)
    ELSE Becomes(w, [call[w] EXCEPT !.next = @ + 1,
                                    !.store = attached[w][call[w].next + 1]])

(* Mutant: mark_dirty of every projection only notes the chapter. *)
MarkDirtyNoted(w) ==
  /\ Doing(w, "mark")
  /\ NextProjection(w)
  /\ History({}, {})
  /\ UNCHANGED <<attached, ensured, size, closed, held, faults>>

(* One DELETE, or nothing the store shows.                                   *)
MarkDirty(w) ==
  /\ Doing(w, "mark")
  /\ IF Kind[call[w].store] \in Invalidating THEN Put(w, << >>)
                                             ELSE UNCHANGED held
  /\ NextProjection(w)
  /\ History({}, {})
  /\ UNCHANGED <<attached, ensured, size, closed, faults>>

-----------------------------------------------------------------------------
(* rebuild_projection: the chapter list is read once, each replay when its   *)
(* chapter's turn comes.                                                     *)

NewestOf(C) == {c \in C : \A d \in C : OpenedAt[d] <= OpenedAt[c]}

AtReplay(s, c, rest) ==
  [store |-> s, at |-> c, todo |-> rest, step |-> "replay",
   text |-> 0, next |-> 1, found |-> 0]

Begin(w, s) ==
  /\ call[w] = NoCall
  /\ s \in StoresOf(w)
  /\ \E c \in NewestOf(closed) :
        Becomes(w, AtReplay(s, c, closed \ {c}))
  /\ History({}, {})
  /\ UNCHANGED <<attached, ensured, size, closed, held, faults>>

Heals(w) ==
  IF call[w].at \notin exempt[w] /\ Kind[call[w].store] \in Invalidating
    THEN {Part(w)} ELSE {}

(* Mutant: the chapter list is read again for each chapter. *)
ProceedAfresh(w) ==
  /\ IF closed \ {call[w].at} = {}
       THEN Returns(w)
       ELSE \E c \in NewestOf(closed \ {call[w].at}) :
              Becomes(w, AtReplay(call[w].store, c, closed \ {c}))
  /\ History(Heals(w), {})

(* The chapter is done: on to the next one, or Ok. *)
Proceed(w) ==
  /\ IF call[w].todo = {}
       THEN Returns(w)
       ELSE \E c \in NewestOf(call[w].todo) :
              Becomes(w, AtReplay(call[w].store, c, call[w].todo \ {c}))
  /\ History(Heals(w), {})

(* The first statement or request of rebuild_chapter by kind; miniapp makes  *)
(* sure of its table once in the life of the process.                        *)
FirstStep(w) ==
  LET k == Kind[call[w].store] IN
  CASE k = "fts5" -> "delete"
    [] k = "outline" -> "query"
    [] k = "miniapp" -> IF call[w].store \in ensured[w] THEN "query"
                                                        ELSE "ensure"
    [] OTHER -> "embed"

(* A miniapp row has the first line of the first row of one section, and     *)
(* the references of the first row of another.                               *)
Summary(n) == IF n = 0 THEN 0 ELSE 1

(* The others take every row of the chapter.                                 *)
RenderText(k, n) == IF k = "miniapp" THEN Summary(n) ELSE n

Replay(w) ==
  /\ Doing(w, "replay")
  /\ Becomes(w, [call[w] EXCEPT
                 !.text = RenderText(Kind[call[w].store], size[call[w].at]),
                 !.step = FirstStep(w)])
  /\ History({}, {})
  /\ UNCHANGED <<attached, ensured, size, closed, held, faults>>

(* FTS5: one DELETE, then one INSERT for each row. *)

(* Mutant: the first row is inserted without looking whether there is one. *)
InsertAnyway(w) ==
  /\ Becomes(w, [call[w] EXCEPT !.step = "insert"])
  /\ History({}, {})

Insert(w) ==
  IF call[w].text = 0
    THEN Proceed(w)
    ELSE /\ Becomes(w, [call[w] EXCEPT !.step = "insert"])
         /\ History({}, {})

(* Mutant: the old rows are left in the table. *)
DeleteNothing(w) ==
  /\ Doing(w, "delete")
  /\ Insert(w)
  /\ UNCHANGED <<attached, ensured, size, closed, held, faults>>

DeleteChapter(w) ==
  /\ Doing(w, "delete")
  /\ Put(w, << >>)
  /\ Insert(w)
  /\ UNCHANGED <<attached, ensured, size, closed, faults>>

InsertRow(w) ==
  /\ Doing(w, "insert")
  /\ Put(w, Append(Holds(w), call[w].next))
  /\ IF call[w].next = call[w].text
       THEN Proceed(w)
       ELSE /\ Becomes(w, [call[w] EXCEPT !.next = @ + 1])
            /\ History({}, {})
  /\ UNCHANGED <<attached, ensured, size, closed, faults>>

(* Mutant: INSERT OR IGNORE. *)
StoreIfAbsent(w) ==
  /\ Doing(w, "embed")
  /\ Put(w, IF Holds(w) = << >> THEN <<call[w].text>> ELSE Holds(w))
  /\ Proceed(w)
  /\ UNCHANGED <<attached, ensured, size, closed, faults>>

(* Embeddings: INSERT OR REPLACE, or an insert into the map. *)
StoreEmbedding(w) ==
  /\ Doing(w, "embed")
  /\ Put(w, <<call[w].text>>)
  /\ Proceed(w)
  /\ UNCHANGED <<attached, ensured, size, closed, faults>>

(* Remote documents: a query by chapter id, then an update or a create. *)

(* schema_ensure; the flag is set when it has answered. *)
EnsureSchema(w) ==
  /\ Doing(w, "ensure")
  /\ ensured' = [ensured EXCEPT ![w] = @ \cup {call[w].store}]
  /\ Becomes(w, [call[w] EXCEPT !.step = "query"])
  /\ History({}, {})
  /\ UNCHANGED <<attached, size, closed, held, faults>>

(* The documents a query for the chapter id finds; it returns one of them.   *)
Matches(w) == DOMAIN Holds(w)

(* Mutant: no query, every rebuild creates. *)
QueryNothing(w) ==
  /\ Doing(w, "query")
  /\ Becomes(w, [call[w] EXCEPT !.step = "create"])
  /\ History({}, {})
  /\ UNCHANGED <<attached, ensured, size, closed, held, faults>>

Query(w) ==
  /\ Doing(w, "query")
  /\ IF Matches(w) = {}
       THEN Becomes(w, [call[w] EXCEPT !.step = "create"])
       ELSE \E i \in Matches(w) :
              Becomes(w, [call[w] EXCEPT !.step = "update", !.found = i])
  /\ History({}, {})
  /\ UNCHANGED <<attached, ensured, size, closed, held, faults>>

(* Outline replaces the document.  The row of miniapp is merged with the     *)
(* payload, which comes to the same: a payload has always the same fields.   *)
Updated(w) == [Holds(w) EXCEPT ![call[w].found] = call[w].text]

(* Nothing at the service makes the chapter id unique. *)
Created(w) == Append(Holds(w), call[w].text)

Update(w) ==
  /\ Doing(w, "update")
  /\ Put(w, Updated(w))
  /\ Proceed(w)
  /\ UNCHANGED <<attached, ensured, size, closed, faults>>

Create(w) ==
  /\ Doing(w, "create")
  /\ Put(w, Created(w))
  /\ Proceed(w)
  /\ UNCHANGED <<attached, ensured, size, closed, faults>>

-----------------------------------------------------------------------------
(* Failures. *)

(* What a call that ends here leaves to be rebuilt: a chapter whose rows are *)
(* not all inserted, or the indexes that were not told of the append.        *)
Unfinished(w) ==
  IF Doing(w, "insert") THEN {Part(w)}
  ELSE {p \in Notifies(call, w) :
          /\ Kind[p[1]] \in Invalidating
          /\ \E i \in call[w].next .. Len(attached[w]) : attached[w][i] = p[1]}

(* A replay, a payload, an embedding, a statement or a request fails: the    *)
(* first error ends the call, what was done before stays.                    *)
CallFails(w) ==
  /\ call[w] # NoCall
  /\ Fault
  /\ Returns(w)
  /\ History({}, Unfinished(w))
  /\ UNCHANGED <<attached, ensured, size, closed, held>>

(* A remote request is carried out and its answer is lost. *)
AnswerLost(w) ==
  /\ \/ Doing(w, "update") /\ Put(w, Updated(w))
     \/ Doing(w, "create") /\ Put(w, Created(w))
  /\ Fault
  /\ Returns(w)
  /\ History({}, {})
  /\ UNCHANGED <<attached, ensured, size, closed>>

(* The process dies and is started again: embeddings in memory are lost, and *)
(* miniapp asks for its table again.                                         *)
Crash(w) ==
  /\ Fault
  /\ held' = [s \in Stores |->
                IF s \in StoresOf(w) /\ Kind[s] = "vector"
                  THEN [c \in Chapters |-> << >>] ELSE held[s]]
  /\ Returns(w)
  /\ History({}, Unfinished(w))
  /\ ensured' = [ensured EXCEPT ![w] = {}]
  /\ UNCHANGED <<attached, size, closed>>

(* A chapter is closed (by a core that is not shown doing so). *)
Close(c) ==
  /\ c \notin closed
  /\ closed' = closed \cup {c}
  /\ UNCHANGED <<attached, ensured, size, held, call, faults>>
  /\ History({}, {})

-----------------------------------------------------------------------------
RebuildStep(w) ==
  \/ Replay(w)
  \/ DeleteChapter(w) \/ InsertRow(w)
  \/ StoreEmbedding(w)
  \/ EnsureSchema(w) \/ Query(w) \/ Update(w) \/ Create(w)

StoresNext ==
  \/ \E w \in Cores :
       \/ \E c \in Chapters : Commit(w, c)
       \/ MarkDirty(w)
       \/ \E s \in Stores : Begin(w, s)
       \/ RebuildStep(w)
       \/ CallFails(w) \/ AnswerLost(w) \/ Crash(w)
  \/ \E c \in Chapters : Close(c)

StoresSpec == StoresInit /\ [][StoresNext]_svars

(* A call that has started goes on: synchronous code under the core's mutex. *)
Goes(w) == MarkDirty(w) \/ RebuildStep(w)

FairStores == StoresSpec /\ \A w \in Cores : WF_svars(Goes(w))

-----------------------------------------------------------------------------
(* What a whole chapter of n rows is in a store of kind k. *)
Pieces(k, n) ==
  IF k = "fts5" THEN [i \in 1 .. n |-> i] ELSE <<RenderText(k, n)>>

Quiet(p) == \A w \in Cores : p \notin Works(call, w)

(* A search of an index finds all rows of a chapter as the journal has them, *)
(* each once, or none of it (projection/fts5.rs:23-25).  The exceptions are  *)
(* the chapters a call is working on, and those that a failed call, a        *)
(* rebuild together with another call, or an append by a core without this   *)
(* projection has left disturbed, until an undisturbed rebuild.              *)
IndexFaithful ==
  \A s \in Stores, c \in Chapters :
     Kind[s] \in Invalidating /\ <<s, c>> \notin disturbed /\ Quiet(<<s, c>>)
       => held[s][c] \in {<< >>, Pieces(Kind[s], size[c])}

(* A chapter has two remote documents only after two cores rebuilt it at     *)
(* once: failures, lost answers, restarts and retries duplicate nothing      *)
(* (projection/outline.rs:49-53).                                            *)
OneDocument ==
  \A s \in Stores, c \in Chapters :
     Kind[s] \in Remote /\ Len(held[s][c]) > 1 => <<s, c>> \in disturbed

Shows(s, c) ==
  IF Kind[s] \in Remote
    THEN \E i \in DOMAIN held'[s][c] :
           <<held'[s][c][i]>> = Pieces(Kind[s], size'[c])
    ELSE held'[s][c] = Pieces(Kind[s], size'[c])

(* A rebuild that returns Ok (no fault) leaves in its store every chapter    *)
(* that was closed when it began, as the journal has it, whatever earlier    *)
(* failures left there; except chapters that another core worked on          *)
(* meanwhile.                                                                *)
RebuildCompletes ==
  [][\A w \in Cores :
        /\ call[w] # NoCall /\ call[w].step # "mark"
        /\ call'[w] = NoCall /\ faults' = faults
        => \A c \in Chapters \ exempt[w] : Shows(call[w].store, c)]_svars

(* Every call returns, however many rows others append to the chapters that  *)
(* a rebuild is going through, and whatever they close meanwhile.            *)
CallsReturn == \A w \in Cores : call[w] # NoCall ~> call[w] = NoCall
=============================================================================
