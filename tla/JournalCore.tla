----------------------------- MODULE JournalCore -----------------------------
(***************************************************************************)
(* JournalCore (core.rs) over the EventLog: open, append, close, import    *)
(* and schema load, cut at every SQL statement.  A core is one JournalCore *)
(* behind its mutex, so it runs one operation at a time; several cores are *)
(* several connections to one database file.  Between two statements of a  *)
(* core another core may run, a statement may fail, or the process may die *)
(* and start again.                                                        *)
(*                                                                         *)
(* The reads chapter_ids, tail, grep, dump and progress_of change nothing  *)
(* and are the operators of EventLog.                                      *)
(***************************************************************************)
EXTENDS EventLog, SchemaRegistry

CONSTANTS
  ImportFiles,    \* parsed markdown files: sequences of [id, rows]
  NumProjections, \* how many projections each core dispatches to
  MaxEvents,      \* bound: no operation starts on a log this long
  MaxFaults       \* bound: failed statements, failed callbacks and crashes

VARIABLES
  pc,     \* what each core does next
  op,     \* the operation a core is in, with what it has read so far
  faults, \* failures so far
  rules,  \* history: the schema version that admitted each event of the log
  acked   \* history: appends answered Ok, per chapter and section

vars == <<log, meta, l2, pc, op, faults, rules, acked>>

ASSUME CoreAssumption ==
  /\ ImportFiles \subseteq Seq(ImportEntry)
  /\ NumProjections \in Nat
  /\ MaxEvents \in Nat
  /\ MaxFaults \in Nat

Steps ==
  {"idle", "open_meta", "append_admit", "append_event", "append_state",
   "dispatch", "close_check", "close_event", "close_state", "import_tx"}

Unbound == [chapter |-> NoChapter, section |-> NoSection, blank |-> TRUE,
            schema |-> ImportSchema, rule |-> NoSchema, row |-> 0,
            state |-> ImportState, batch |-> << >>]

(* rule and row are the schema version and the transition the operation was  *)
(* validated with, state the chapter state it will store.                    *)
Operation ==
  [chapter: Chapters \cup {NoChapter},
   section: Sections \cup {NoSection},
   blank: BOOLEAN,
   schema: SchemaIds,
   rule: Versions \cup {NoSchema},
   row: Nat,
   state: States,
   batch: Seq(ImportEntry)]

TypeOK ==
  /\ StoreTypeOK
  /\ RegistryTypeOK
  /\ pc \in [Cores -> Steps]
  /\ op \in [Cores -> Operation]
  /\ faults \in Nat
  /\ rules \in Seq(Versions \cup {NoSchema})
  /\ acked \in [Chapters -> [Sections -> Nat]]

Init ==
  /\ StoreInit
  /\ RegistryInit
  /\ pc = [w \in Cores |-> "idle"]
  /\ op = [w \in Cores |-> Unbound]
  /\ faults = 0
  /\ rules = << >>
  /\ acked = [c \in Chapters |-> [s \in Sections |-> 0]]

-----------------------------------------------------------------------------
(* Moving a core through an operation. *)

Idle(w) == pc[w] = "idle"

Ready(w) == Idle(w) /\ Len(log) < MaxEvents

Start(w, step, o) ==
  /\ pc' = [pc EXCEPT ![w] = step]
  /\ op' = [op EXCEPT ![w] = o]

Go(w, from, to) ==
  /\ pc[w] = from
  /\ pc' = [pc EXCEPT ![w] = to]
  /\ UNCHANGED op

(* The call returns, with Ok or with an error. *)
Return(w) ==
  /\ pc' = [pc EXCEPT ![w] = "idle"]
  /\ op' = [op EXCEPT ![w] = Unbound]

(* An error found after the first read and before anything is written.       *)
(* A call refused at its first read leaves no trace and has no action.       *)
Reject(w) ==
  /\ Return(w)
  /\ UNCHANGED <<log, meta, l2, faults, rules, acked>>

(* One event is inserted, admitted under schema version v. *)
Insert(e, v) ==
  /\ InsertEvent(e)
  /\ rules' = Append(rules, v)

-----------------------------------------------------------------------------
(* open_chapter: resolve the schema, then INSERT the open event and INSERT   *)
(* the chapter_meta row.  Nothing asks first whether the chapter exists.     *)

(* Mutant: a schema without an initial state is not refused. *)
OpenableKnown(w, k) == Known(w, k)

Openable(w, k) == Known(w, k) /\ Resolve(w, k).initial # NoState

OpenEventStep(w, c, k) ==
  /\ Ready(w)
  /\ Openable(w, k)
  /\ Insert(OpenEvent(c), Resolve(w, k))
  /\ Start(w, "open_meta",
           [Unbound EXCEPT !.chapter = c, !.schema = k,
                           !.rule = Resolve(w, k),
                           !.state = Resolve(w, k).initial])
  /\ UNCHANGED <<meta, l2, faults, acked>>

OpenMetaStep(w) ==
  /\ pc[w] = "open_meta"
  /\ InsertMeta(op[w].chapter, op[w].schema, op[w].state)
  /\ Return(w)
  /\ UNCHANGED <<log, l2, faults, rules, acked>>

(* Mutant: the conflicting INSERT is tried again for ever. *)
OpenConflictRetried(w) ==
  /\ Go(w, "open_meta", "open_meta")
  /\ Exists(op[w].chapter)
  /\ UNCHANGED <<log, meta, l2, faults, rules, acked>>

(* The primary key refuses the row; the open event stays in the log. *)
OpenConflict(w) ==
  /\ pc[w] = "open_meta"
  /\ Exists(op[w].chapter)
  /\ Return(w)
  /\ UNCHANGED <<log, meta, l2, faults, rules, acked>>

-----------------------------------------------------------------------------
(* append_section (and append_progress, which is append_section on the       *)
(* section "Progress"): read the chapter_meta row, validate, count the rows  *)
(* of an append-once section, INSERT the event, UPDATE the state, call       *)
(* mark_dirty of every projection.                                           *)

Bound(w, c) == Exists(c) /\ Known(w, meta[c].schema)

SchemaOf(w, c) == Resolve(w, meta[c].schema)

Appendable(w, c, s) ==
  /\ Bound(w, c)
  /\ HasTransition(SchemaOf(w, c), meta[c].state, "append_section")
  /\ Declares(SchemaOf(w, c), s)

AppendValidate(w, c, s, blank) ==
  /\ Ready(w)
  /\ Appendable(w, c, s)
  /\ LET v == SchemaOf(w, c) IN
     \E i \in DOMAIN v.transitions :
        /\ Fires(v, meta[c].state, "append_section", i)
        /\ Start(w, IF IsAppendOnce(v, s) THEN "append_admit"
                                          ELSE "append_event",
                 [Unbound EXCEPT !.chapter = c, !.section = s, !.blank = blank,
                                 !.rule = v, !.row = i,
                                 !.state = v.transitions[i].to])
  /\ UNCHANGED <<log, meta, l2, faults, rules, acked>>

(* Mutant: the rows of an append-once section are not counted. *)
AppendAdmitUncounted(w) ==
  /\ Go(w, "append_admit", "append_event")
  /\ UNCHANGED <<log, meta, l2, faults, rules, acked>>

AppendAdmit(w) ==
  /\ Go(w, "append_admit", "append_event")
  /\ ~HasSection(op[w].chapter, op[w].section)
  /\ UNCHANGED <<log, meta, l2, faults, rules, acked>>

AppendOnceRefused(w) ==
  /\ pc[w] = "append_admit"
  /\ HasSection(op[w].chapter, op[w].section)
  /\ Reject(w)

AppendEventStep(w) ==
  /\ Go(w, "append_event", "append_state")
  /\ Insert(SectionEvent(op[w].chapter, op[w].section, op[w].blank),
            op[w].rule)
  /\ UNCHANGED <<meta, l2, faults, acked>>

(* Mutant: an UPDATE that does not go through sends the call back to INSERT. *)
AppendStateRetried(w) ==
  /\ \/ Go(w, "append_state", "dispatch")
     \/ Go(w, "append_state", "append_event")
  /\ UpdateState(op[w].chapter, op[w].state)
  /\ UNCHANGED <<log, l2, faults, rules, acked>>

AppendStateStep(w) ==
  /\ Go(w, "append_state", "dispatch")
  /\ UpdateState(op[w].chapter, op[w].state)
  /\ UNCHANGED <<log, l2, faults, rules, acked>>

Dispatch(w) ==
  /\ pc[w] = "dispatch"
  /\ acked' = [acked EXCEPT ![op[w].chapter][op[w].section] = @ + 1]
  /\ Return(w)
  /\ UNCHANGED <<log, meta, l2, faults, rules>>

(* A projection's mark_dirty fails: the caller gets an error for an event    *)
(* that is committed.                                                        *)
DispatchFails(w) ==
  /\ pc[w] = "dispatch"
  /\ NumProjections > 0
  /\ faults < MaxFaults
  /\ faults' = faults + 1
  /\ Return(w)
  /\ UNCHANGED <<log, meta, l2, rules, acked>>

-----------------------------------------------------------------------------
(* close_chapter: read the chapter_meta row and find the transition, read    *)
(* the events and check the requires lists, INSERT the close event, UPDATE   *)
(* state and closed_at.  Projections are not called.                         *)

Closable(w, c) ==
  /\ Bound(w, c)
  /\ HasTransition(SchemaOf(w, c), meta[c].state, "close_chapter")

CloseValidate(w, c) ==
  /\ Ready(w)
  /\ Closable(w, c)
  /\ LET v == SchemaOf(w, c) IN
     \E i \in DOMAIN v.transitions :
        /\ Fires(v, meta[c].state, "close_chapter", i)
        /\ Start(w, "close_check",
                 [Unbound EXCEPT !.chapter = c, !.rule = v, !.row = i,
                                 !.state = v.transitions[i].to])
  /\ UNCHANGED <<log, meta, l2, faults, rules, acked>>

(* Mutant: sections_non_empty is not checked. *)
RequirementsPresent(w) ==
  \A s \in op[w].rule.transitions[op[w].row].present :
     HasSection(op[w].chapter, s)

RequirementsMet(w) ==
  RowsSatisfy(op[w].rule.transitions[op[w].row], ReplayRows(op[w].chapter))

(* Mutant: the row is updated before the event is inserted. *)
CloseCheckStateFirst(w) ==
  /\ Go(w, "close_check", "close_state")
  /\ RequirementsMet(w)
  /\ UNCHANGED <<log, meta, l2, faults, rules, acked>>

CloseCheck(w) ==
  /\ Go(w, "close_check", "close_event")
  /\ RequirementsMet(w)
  /\ UNCHANGED <<log, meta, l2, faults, rules, acked>>

CloseRefused(w) ==
  /\ pc[w] = "close_check"
  /\ ~RequirementsMet(w)
  /\ Reject(w)

CloseEventStep(w) ==
  /\ Go(w, "close_event", "close_state")
  /\ Insert(CloseEvent(op[w].chapter), op[w].rule)
  /\ UNCHANGED <<meta, l2, faults, acked>>

CloseStateStep(w) ==
  /\ pc[w] = "close_state"
  /\ UpdateClosed(op[w].chapter, op[w].state)
  /\ Return(w)
  /\ UNCHANGED <<log, l2, faults, rules, acked>>

-----------------------------------------------------------------------------
(* import_chapter: a file with no chapter answers Ok and a known id is a     *)
(* collision, both without effect; otherwise one transaction inserts         *)
(* everything, or is rolled back when the primary key refuses a row.         *)

Collides(batch) == \E c \in BatchIds(batch) : Exists(c)

ImportCheck(w, batch) ==
  /\ Ready(w)
  /\ batch # << >>
  /\ ~Collides(batch)
  /\ Start(w, "import_tx", [Unbound EXCEPT !.batch = batch])
  /\ UNCHANGED <<log, meta, l2, faults, rules, acked>>

ImportCommit(w) ==
  /\ pc[w] = "import_tx"
  /\ InsertImport(op[w].batch)
  /\ rules' = Append(rules, NoSchema)
  /\ Return(w)
  /\ UNCHANGED <<l2, faults, acked>>

ImportRollback(w) ==
  /\ pc[w] = "import_tx"
  /\ ~BatchInsertable(op[w].batch)
  /\ Return(w)
  /\ UNCHANGED <<log, meta, l2, faults, rules, acked>>

-----------------------------------------------------------------------------
(* Mutant: the registry is replaced while a call is between two statements.  *)
LoadSchemaUnlocked(w, k, v) ==
  /\ RegisterSchema(w, k, v)
  /\ UNCHANGED <<log, meta, pc, op, faults, rules, acked>>

(* load_schema_yaml, under the same mutex. *)
LoadSchema(w, k, v) ==
  /\ Idle(w)
  /\ RegisterSchema(w, k, v)
  /\ UNCHANGED <<log, meta, pc, op, faults, rules, acked>>

(* A statement returns an error (disk full, database locked): the operation  *)
(* ends, what earlier statements committed stays.                            *)
StatementFails(w) ==
  /\ pc[w] \notin {"idle", "dispatch"}
  /\ faults < MaxFaults
  /\ faults' = faults + 1
  /\ Return(w)
  /\ UNCHANGED <<log, meta, l2, rules, acked>>

(* The process dies and is started again: memory is lost, the database has   *)
(* every committed statement.                                                *)
Crash(w) ==
  /\ faults < MaxFaults
  /\ faults' = faults + 1
  /\ ReloadRegistry(w)
  /\ Return(w)
  /\ UNCHANGED <<log, meta, rules, acked>>

-----------------------------------------------------------------------------
OpenChapter(w) ==
  \/ \E c \in Chapters, k \in SchemaIds : OpenEventStep(w, c, k)
  \/ OpenMetaStep(w)
  \/ OpenConflict(w)

AppendSection(w) ==
  \/ \E c \in Chapters, s \in Sections, blank \in BOOLEAN :
        AppendValidate(w, c, s, blank)
  \/ AppendAdmit(w)
  \/ AppendOnceRefused(w)
  \/ AppendEventStep(w)
  \/ AppendStateStep(w)
  \/ Dispatch(w)
  \/ DispatchFails(w)

CloseChapter(w) ==
  \/ \E c \in Chapters : CloseValidate(w, c)
  \/ CloseCheck(w)
  \/ CloseRefused(w)
  \/ CloseEventStep(w)
  \/ CloseStateStep(w)

ImportChapter(w) ==
  \/ \E batch \in ImportFiles : ImportCheck(w, batch)
  \/ ImportCommit(w)
  \/ ImportRollback(w)

Environment(w) ==
  \/ \E u \in Uploads : LoadSchema(w, u[1], u[2])
  \/ StatementFails(w)
  \/ Crash(w)

Next ==
  \E w \in Cores :
     OpenChapter(w) \/ AppendSection(w) \/ CloseChapter(w)
        \/ ImportChapter(w) \/ Environment(w)

Spec == Init /\ [][Next]_vars

(* What the runtime does for a core: an operation that has started goes on   *)
(* to its end, since nothing in it waits for another operation.              *)
Advance(w) ==
  \/ OpenMetaStep(w) \/ OpenConflict(w)
  \/ AppendAdmit(w) \/ AppendOnceRefused(w) \/ AppendEventStep(w)
  \/ AppendStateStep(w) \/ Dispatch(w)
  \/ CloseCheck(w) \/ CloseRefused(w) \/ CloseEventStep(w)
  \/ CloseStateStep(w)
  \/ ImportCommit(w) \/ ImportRollback(w)

FairSpec == Spec /\ \A w \in Cores : WF_vars(Advance(w))

-----------------------------------------------------------------------------
(* Properties for any number of cores. *)

(* What the schemas must not say for the properties of closed chapters:      *)
(* nothing in schema.rs refuses a transition out of the state of an import   *)
(* or of a close, but no schema in the repository has one.                   *)
ImportsAreFinal ==
  \A v \in Versions : ~HasTransition(v, ImportState, "close_chapter")

FinalStates ==
  {s \in States :
     \A v \in Versions, on \in {"append_section", "close_chapter"} :
        ~HasTransition(v, s, on)}

ClosesAreFinal ==
  /\ ImportState \in FinalStates
  /\ \A v \in Versions : \A i \in DOMAIN v.transitions :
        v.transitions[i].on = "close_chapter"
          => v.transitions[i].to \in FinalStates

RowsBefore(c, i) == {r \in DirectRows(c) : r.event < i}

(* A close event is in the log only if the rows committed before it satisfy  *)
(* the close transition it was validated with: what close_chapter checked    *)
(* before its INSERT still holds at the INSERT, whatever other cores did.    *)
CloseMeetsRequires ==
  \A i \in DOMAIN log :
     log[i].type = "close" =>
       \E k \in DOMAIN rules[i].transitions :
          /\ rules[i].transitions[k].on = "close_chapter"
          /\ RowsSatisfy(rules[i].transitions[k],
                         RowsBefore(log[i].stream, i))

(* import_chapter is all or nothing: every chapter an import event lists has *)
(* its row and is closed, no chapter is listed twice, by one import or by    *)
(* two, and an imported chapter was not opened as well.                      *)
ImportedOnce ==
  \A c \in Chapters :
     /\ Imports(c) # {} => IsClosed(c) /\ meta[c].schema = ImportSchema
     /\ \A i, j \in Imports(c) :
          \A k \in DOMAIN log[i].batch, m \in DOMAIN log[j].batch :
             log[i].batch[k].id = c /\ log[j].batch[m].id = c
               => i = j /\ k = m

(* chapter_meta says closed only of chapters with a close event in their     *)
(* stream or imported: the row never runs ahead of the log.                  *)
ClosedHasCloseEvent ==
  \A c \in Chapters :
     IsClosed(c) =>
       \/ Imports(c) # {}
       \/ \E i \in Direct(c) : log[i].type = "close"

RowsOf(c, s) == {i \in SectionRows(c) : log[i].section = s}

InFlight(c, s) ==
  {w \in Cores : /\ pc[w] \in {"append_state", "dispatch"}
                 /\ op[w].chapter = c
                 /\ op[w].section = s}

(* No acknowledged append is lost, and a row without an acknowledgement is    *)
(* explained by a call still running or by one failure: the duplicates a      *)
(* retrying client creates are bounded by the errors it was told of.          *)
FailuresExplainRows ==
  \A c \in Chapters, s \in Sections :
     /\ acked[c][s] + Cardinality(InFlight(c, s)) <= Cardinality(RowsOf(c, s))
     /\ Cardinality(RowsOf(c, s))
          <= acked[c][s] + Cardinality(InFlight(c, s)) + faults

(* Rows that were let in under an append-once policy.                        *)
OnceRows(c, s) ==
  {i \in RowsOf(c, s) : rules[i] # NoSchema /\ IsAppendOnce(rules[i], s)}

(* section_count is read before the INSERT, so several cores can each find   *)
(* none and each insert one; but once a row is there nobody else is let in,  *)
(* so such a section never has more rows than there are writers, however     *)
(* many calls are made, fail or are retried.                                 *)
AppendOnceRaceBounded ==
  \A c \in Chapters, s \in Sections :
     Cardinality(OnceRows(c, s)) <= Cardinality(Cores)

(* The events that carry a chapter's content: those of its own stream that   *)
(* are no open, and the imports that list it.                                *)
OwnContent(c) == {i \in Direct(c) : log[i].type # "open"}
ContentEvents(c) == OwnContent(c) \cup Imports(c)

(* What open_chapter does to an imported chapter (event_log.rs:268, 473-482, *)
(* run reimport): it is refused for the row, but its open event is committed *)
(* by then, and with an event of its own the chapter is no longer looked up  *)
(* in the import.                                                            *)
HiddenByOpen(c) ==
  /\ Imports(c) # {}
  /\ Direct(c) = {}
  /\ Direct(c)' # {}
  /\ \A i \in Direct(c)' : log'[i].type = "open"

(* Neither the content of a chapter nor what a replay shows of it changes,   *)
(* with that one exception.                                                  *)
ContentFrozen(c) ==
  /\ ContentEvents(c)' = ContentEvents(c)
  /\ ReplayRows(c)' = ReplayRows(c) \/ HiddenByOpen(c)

(* The cores that validated an append or a close of the chapter and have not *)
(* returned.                                                                 *)
WorkingOn(c) ==
  {w \in Cores : /\ pc[w] \notin {"idle", "open_meta", "import_tx"}
                 /\ op[w].chapter = c}

Settled(c) ==
  IsClosed(c) /\ meta[c].state \in FinalStates /\ WorkingOn(c) = {}

(* An append validated before a close may still insert its row and move the  *)
(* state of the closed chapter back (append_section reads the row and writes *)
(* it in two statements).  Only such a call can: a chapter closed or         *)
(* imported while no other call works on it is settled, and a settled        *)
(* chapter stays as it is, whatever any core calls and whatever fails.       *)
CloseSettles ==
  [][\A c \in Chapters :
        /\ /\ ~IsClosed(c) /\ IsClosed(c)'
           /\ Cardinality(WorkingOn(c)) <= 1
           => Settled(c)'
        /\ Settled(c) => /\ Settled(c)'
                         /\ meta'[c] = meta[c]
                         /\ ContentFrozen(c)]_vars

-----------------------------------------------------------------------------
(* Properties of one core, the deployment docs/design.md 9.2 assumes.        *)

SingleCore == \A u, w \in Cores : u = w

(* A row admitted under an append-once policy is the first of its section:   *)
(* neither a retry nor a crash lets a second one in.                         *)
AppendOnceHonoured ==
  \A i \in DOMAIN log :
     /\ log[i].type = "section_append"
     /\ rules[i] # NoSchema
     /\ IsAppendOnce(rules[i], log[i].section)
     => \A j \in RowsOf(log[i].stream, log[i].section) : i <= j

(* Once chapter_meta says closed, neither the row nor the chapter's content, *)
(* its own or imported, changes again, with whatever operation is called or  *)
(* fails next.  What a replay shows of the content does not change either,   *)
(* except that an open_chapter, although refused, hides what was imported.   *)
ClosedChaptersFrozen ==
  [][\A c \in Chapters :
        IsClosed(c) => meta'[c] = meta[c] /\ ContentFrozen(c)]_vars

(* A chapter's state moves only along a transition that fires in the schema  *)
(* registered for its key at that moment: a schema loaded over it, or        *)
(* forgotten in a restart, takes effect between two calls and never within   *)
(* one, between the lookup of the transition and the UPDATE.                 *)
StateFollowsSchema ==
  [][\A c \in Chapters :
        Exists(c) /\ meta'[c] # NoRow /\ meta'[c].state # meta[c].state =>
          \E w \in Cores, on \in {"append_section", "close_chapter"} :
             /\ Bound(w, c)
             /\ \E i \in DOMAIN SchemaOf(w, c).transitions :
                  /\ Fires(SchemaOf(w, c), meta[c].state, on, i)
                  /\ SchemaOf(w, c).transitions[i].to
                       = meta'[c].state]_vars

(* One core implements the abstract journal: an open takes effect when the   *)
(* chapter_meta row is inserted, an append when its event is, a close when   *)
(* closed_at is set, an import at its commit; a crash or a failed statement  *)
(* is a step that changes nothing a caller was promised.                     *)
StatusOf(c) ==
  IF ~Exists(c) THEN "absent" ELSE IF meta[c].closed THEN "closed" ELSE "open"

AllRows ==
  {[event |-> i, chapter |-> log[i].stream, section |-> log[i].section,
    blank |-> log[i].blank] :
     i \in {j \in DOMAIN log : log[j].type = "section_append"}}

CloseDemands ==
  UNION {{[present |-> v.transitions[i].present,
           nonEmpty |-> v.transitions[i].nonEmpty] :
            i \in {j \in DOMAIN v.transitions :
                     v.transitions[j].on = "close_chapter"}} :
         v \in Versions}

Abstract ==
  INSTANCE Journal WITH
    Requires <- CloseDemands,
    EventIds <- 1 .. MaxEvents,
    status <- [c \in Chapters |-> StatusOf(c)],
    rows <- AllRows

ImplementsJournal == Abstract!JournalSpec

(* Each core may have one more event to insert when the log is full.         *)
AbstractShared ==
  INSTANCE Journal WITH
    Requires <- CloseDemands,
    EventIds <- 1 .. MaxEvents + Cardinality(Cores),
    status <- [c \in Chapters |-> StatusOf(c)],
    rows <- AllRows

(* Any number of cores implement the shared journal: whatever they do at     *)
(* once, a chapter is opened by one of them, is closed only when its rows    *)
(* satisfy a close transition, is never open again, and is imported only     *)
(* when nobody has created it.  A second close of a closed chapter changes   *)
(* nothing here.                                                             *)
ImplementsSharedJournal == AbstractShared!SharedSpec

-----------------------------------------------------------------------------
(* What the documents say and the code does not do (one run each).           *)

(* event_log.rs:397-402: callers see a uniform replay regardless of how the  *)
(* chapter was created.  So the replay of an imported chapter shows what was *)
(* imported.                                                                 *)
ImportedContentReplayable ==
  \A c \in Chapters : Imports(c) # {} => ImportedRows(c) \subseteq ReplayRows(c)

Busy(c) == \E w \in Cores : op[w].chapter = c

(* core.rs:17-19: chapter state is always derived from the EventLog.  So a   *)
(* chapter whose stream has a close event is closed, when no call is running *)
(* on it.                                                                    *)
CloseEventClosesChapter ==
  \A c \in Chapters :
     Exists(c) /\ ~Busy(c) /\ (\E i \in Direct(c) : log[i].type = "close")
       => IsClosed(c)

(* docs/design.md:114: chapter_meta.schema_id pins the version of a chapter  *)
(* and resolving it after the open is immutable.  So every event of a        *)
(* chapter is admitted under the schema it was opened with.                  *)
SchemaPinnedAtOpen ==
  \A c \in Chapters :
     \A i, j \in Direct(c) :
        log[i].type = "open" /\ log[j].type # "open" /\ i < j
          => rules[j] = rules[i]

-----------------------------------------------------------------------------
(* Liveness. *)

(* Every call returns: no order of statements of the cores leaves an         *)
(* operation without a next statement.                                       *)
CallsReturn == \A w \in Cores : pc[w] # "idle" ~> pc[w] = "idle"
=============================================================================
