# Verification of journal-mcp

journal-mcp is an append-only journal served over MCP.  A client opens a
chapter under a schema, appends sections to it, closes it when the schema's
requirements are met, or imports closed chapters from markdown.  Everything is
written to an SQLite event log; projections (a markdown file, a search index, a
remote document) are derived from it.

This directory holds TLA+ modules translated from the code, the TLC runs that
check them on small instances, and TLAPS proofs for every value of the
constants.  `PROJECT.json` maps each definition to the lines it stands for.

## 1. Inventory

`core/` is `crates/journal-mcp-core/src/`, `rmcp/` is
`crates/journal-mcp-rmcp/src/`.

| Part | State | Operations | What makes it correct | Module |
|---|---|---|---|---|
| Chapter schema, `core/schema.rs`, `embed/*.yaml` | none: a parsed text with states, transitions, sections with append policies | `parse_str`, `transition`, `section` | first matching row of the table wins; `requires` names declared sections | `ChapterSchema` |
| Schema registry, `core/registry.rs` | L1 (built in) and L2 (project files, then uploads), in memory | `get`, `list`, `load_from_yaml_str`, `with_project_local` | L2 shadows L1; a chapter is validated by the schema it was opened with | `SchemaRegistry` |
| Event log, `core/event_log.rs` | tables `event_log` (append-only, by trigger) and `chapter_meta` | `append_chapter_open`, `append_section`, `append_close`, `append_import`; `chapter`, `section_count`, `expand_import_events`, `tail`, `grep` | the two tables agree after every statement, failure and restart; a replay shows what was written, in order, and so does a reader beside the writer | `EventLog`, `JournalReads` |
| Journal core, `core/core.rs` | an event log, a registry, the projections | open, append, progress, close, import, load schema, rebuild projections, reads | a closed chapter never changes, a close meets its requirements, append-once sections have one row, an import is all or nothing, no acknowledged row is lost | `JournalCore`, abstract `Journal`; its reads `JournalReads` |
| Typestate handle, `core/handle.rs` | none (a marker type) | forwards to the core | holds at compile time; the server does not use it | none |
| File projection, `core/projection/file.rs` | chapter dumps, hashes, write times and dirty marks in memory; the file and its backups on disk | `mark_dirty`, `rebuild_chapter`, `rebuild_index` | a rebuild answered Ok leaves the whole journal in the file, a hand edit is backed up | `FileProjection` |
| JSON projection, `core/projection/json.rs` | the replays in memory, the file | `rebuild_chapter` | as above, without the backup | `FileProjection` |
| FTS5 projection, `core/projection/fts5.rs` | an index table in the journal's database | `mark_dirty` (a delete), rebuild by delete and inserts, search | a search finds all rows of a chapter or none | `StoreProjections` |
| Vector projections, `core/projection/vector*.rs` | embeddings, in memory or SQLite | `mark_dirty`, rebuild, similarity search | an embedding is of the whole chapter; the scores are out of scope | `StoreProjections` |
| Outline and MiniApp projections, `core/projection/{outline,miniapp*}.rs` | documents, or rows, on a remote service; whether the remote table is known to exist | look up, then update or create | one document for each chapter, with its content | `StoreProjections` |
| Core cache, `rmcp/server.rs` | a map from project root to `Arc<Mutex<JournalCore>>` behind a mutex | `resolve_core`, `build_core` | one core, hence one writer, for each database; nobody waits for ever | `CoreCache` |
| Tool handlers, `rmcp/tools.rs`, `rmcp/request.rs` | none | each resolves and locks one core and calls one method of it | an operation runs alone in its core; pages of a list miss nothing | `CoreCache`; the calls themselves in the other modules |
| Transports, command line, `rmcp/{server,lib}.rs`, `crates/journal-mcp/` | none after start | third-party service, argument parsing | none of the journal's | none |

How they interact.  A tool handler resolves the project root to a core, takes
the core's mutex and calls one method.  The method validates with the schema
the registry returns, issues SQL statements on the core's connection, and (for
an append) calls `mark_dirty` on each projection.  Rebuilds replay chapters from
the log and hand them to a projection.  Cores share nothing in memory; two
cores on one file share the database.

What is hard.

* Each SQL statement of open, append and close commits on its own: a failure, a
  crash, or another connection can come between any two.
* Checks are made on data read before the write: the requirements of a close,
  the count of an append-once section, the state a transition starts from, the
  collision check of an import.
* The schema that validates a chapter can be replaced while it is open, and is
  lost or restored at a restart.
* No state is terminal in the code; closed chapters are frozen only because of
  what the schemas' tables do not contain.
* An append may be committed and still be answered with an error.
* Projections keep memory that a restart loses, and disk that it does not.
* Stores are brought up to date statement by statement, or request by request,
  without a transaction, and several processes write the same ones.
* A read is several SELECTs, and a list is read page after page, while writers
  go on.  The order of replay is that of ids drawn from the clock.
* A core is found under a path that may be spelled in several ways, by a check
  of what exists at that moment.

The hazards are listed one by one, at their lines, in `PROJECT.json`.

## 2. Modules and how they correspond to the code

```
ChapterSchema            the schema records, first-match lookup, requires
  EventLog               the two tables, one action per SQL statement
  SchemaRegistry         L1/L2, load, restart
    JournalCore          the operations, cut at their statements
      Journal            (abstract) what JournalCore implements: JournalSpec with
                         one core, SharedSpec with several
      MCJournalCore      constants for TLC
      JournalCore_proofs theorems for any number of cores
        SingleCore_proofs    theorems for one core
        SharedStore_proofs   what counts rows, what a close settles and the
                             refinement, for several
      JournalReads       the reads of a second process, ids and clock
        MCJournalReads   constants for TLC
        JournalReads_proofs  theorems (uses SingleCore_proofs)
        Paging_proofs    what a client that pages is given
FileProjection           the file and JSON projections
  MCFileProjection       constants for TLC
  FileProjection_proofs  theorems
StoreProjections         the index, embedding and remote projections
  MCStoreProjections     constants for TLC
  StoreProjections_proofs  theorems
CoreCache                resolve_core, build_core and the two mutexes
  CoreTable              (abstract) what CoreCache implements
  MCCoreCache            constants for TLC
  CoreCache_proofs       theorems
```

**ChapterSchema.** A schema version is a record of what the journal reads from
the YAML: initial state, transition table in file order, append policy of each
declared section.  `Fires` is `ChapterSchema::transition`; `RowsSatisfy` is the
two checks of `requires`.  Of five append policies the code acts on one,
`append-once`, and so does the model.  Hooks only warn and are left out.

**EventLog.** `log` is the table `event_log` in commit order and `meta` is
`chapter_meta` by primary key.  Each statement of `event_log.rs` is an operator:
`InsertEvent`, `InsertMeta` (refused when the key is taken), `UpdateState`,
`UpdateClosed` (no row, no effect), `InsertImport` (one transaction).  The
queries are `HasSection` (`section_count`), `DirectRows`, `ImportedRows` and
`ReplayRows` (`chapter`: an import payload is looked at only when the stream has
no event).  A body is reduced to whether `body_is_empty` holds of it.  What a
replay contains is decided here, in which order it comes in `JournalReads`.

**SchemaRegistry.** `l2` of each core; `Resolve` is `get`, `RegisterSchema` is
`load_from_yaml_str`, `ReloadRegistry` a restart, which reads the project's schema
files as they are by then: `LocalFiles` is what they may hold.

**JournalCore.** A core runs one operation at a time (its mutex): `pc[w]` says
which statement comes next and `op[w]` holds what the operation read.

| Operation | Actions, in order |
|---|---|
| `open_chapter` | `OpenEventStep` (validate, INSERT event), then `OpenMetaStep` or `OpenConflict` |
| `append_section`, `append_progress` | `AppendValidate` (read row, transition, section), `AppendAdmit` or `AppendOnceRefused` (count, for append-once), `AppendEventStep`, `AppendStateStep`, `Dispatch` or `DispatchFails` (`mark_dirty`) |
| `close_chapter` | `CloseValidate`, `CloseCheck` or `CloseRefused` (requires), `CloseEventStep`, `CloseStateStep` |
| `import_chapter` | `ImportCheck` (parse, collisions), then `ImportCommit` or `ImportRollback` |
| `load_schema_yaml` | `LoadSchema` |
| failures | `StatementFails` (an SQL error: the call ends, what was committed stays), `Crash` (also loses L2) |

The first action of an operation is its first read with the checks on what it
read; a call refused there changes nothing and has no action.
Two history variables: `rules[i]`, the schema version that admitted event `i`,
and `acked[c][s]`, the appends answered Ok.

**Journal** says what a caller is promised: a chapter is opened once, takes rows
while open, is closed when its rows satisfy a close transition, and is then
final; an import creates its chapters closed, all or none.  `JournalCore`
implements it under `status <- StatusOf`, `rows <- AllRows`: an open takes effect at
the `chapter_meta` INSERT, an append at its event, a close when `closed_at` is
set; everything else, crashes included, is a stutter.  The mapping does not show
`current_state`.  That is `JournalSpec`, for one core.
Several cores implement `SharedSpec`, under the same mapping, which adds one action:
a closed chapter may still be given a row (`AddLateRow`).  `append_section` reads the
`chapter_meta` row in a statement of its own, and neither its INSERT nor its UPDATE
looks at `closed_at`; a close that commits in between does not stop it.  All else
stands, and the second of two racing closes changes nothing that the mapping shows.
The late append also moves the state of the closed chapter back, which `CloseSettles`
is about.

**What a closed chapter keeps.**  `ContentEvents` are the events of its own stream
except opens, and the imports that list it.  `ContentFrozen` says that these stay and
that `ReplayRows`, what a replay shows of them, stays too, with one exception that
`HiddenByOpen` spells out: an `open_chapter` with the id of an imported chapter
is refused after its open event was committed, and hides what was imported (run
`reimport`).  `ClosedChaptersFrozen` (one core) demands this, and the same
`chapter_meta` row, of every closed chapter.  `CloseSettles` (several cores) demands it of a
`Settled` one, closed in a final state with no append or close running on it, and
says that a chapter is settled when it is closed or imported while no other call
works on it: so only a call in flight at the close can change it afterwards.
`StateFollowsSchema` says that the state moves along a transition which fires in the
schema registered for the chapter's key at the moment of the UPDATE, so a load or
restart never takes effect within a call.

**FileProjection.** `Begin` starts `journal_projection_rebuild` (a one-shot
starts with an empty memory); for each closed chapter, newest first, `Skip` or
`Render` (memory is updated before the write), `Check` (read and compare),
`Rename` (backup), `Persist` (rename over the target, `last_written_hash`);
`UnknownSchema`, `RenameMissing` and `CallFails` are the error returns, and
`Restart` forgets the memory.  `Touch` is anybody else's edit or removal of the
file, at any moment; `Expire` ends a chapter's debounce window.  A text stands
for itself and its hash.  `Debounced = BacksUp = FALSE` is the JSON projection.
History: `owed`, the contents that nobody gave up; `clean` and `before` in `call`.
`HideImport` is there because the replay of a closed chapter can change
(run `reimport`).

**StoreProjections.** Several cores, each with the projections that
`add_projection` gave it in order (`attached`), over stores they may share.  A
chapter is its number of section rows, and `held[s][c]` what store `s` has of it:
row numbers (FTS5), one text (an embedding) or remote documents.

| Code | Actions, in order |
|---|---|
| `append_section` after its UPDATE | `Commit`, then `MarkDirty` for each projection (FTS5 and the vector table delete, the others only note) |
| `rebuild_projection` | `Begin` (the list of closed chapters, newest first, read once), then for each chapter `Replay` and `rebuild_chapter` |
| `fts5.rs` | `DeleteChapter`, `InsertRow` for each row |
| `vector_sqlite.rs`, `vector.rs` | `StoreEmbedding` |
| `outline.rs` | `Query`, then `Update` or `Create` |
| `miniapp.rs` | `EnsureSchema` once per process, then the same |
| failures | `CallFails` (the first error ends the call), `AnswerLost` (the service did it, the caller has an error), `Crash` (embeddings in memory and `ensured` are lost) |

`append_section` is one action up to its commit, since `JournalCore` cuts it.
`Close` comes from a core that is not shown.  The remote services are
external: they answer a query with one of the matching documents, and nothing there makes the
chapter id unique.  History: `disturbed`, the parts of stores that a failed
call, two calls at once or an append by a core without the projection have left to
be rebuilt; `exempt`, the chapters a running rebuild owes nothing for.
The server itself attaches the file projection only (`server.rs`); these
projections reach users of the library, through `add_projection`.  A rebuild covers
closed chapters, so an open one stays as `mark_dirty` left it.

**CoreCache.** Requests are threads.  `Omitted` and `Canonicalize` are the first
lines of `resolve_core`; `LockCache`, `Found`, `Missing`, `Insert` what it does under
the mutex of `extra_cores`; `CreateDir`, `OpenCore` and `BuildFails` are `build_core`,
which runs under that mutex (the comment at `server.rs:391` says the lock is held
only across lookup and insertion).  `LockCore` and `Answer` are a handler of
`tools.rs`.  `KeyOf` is `canonicalize(p).unwrap_or(p)`, so a path is
taken as spelled until there is a directory; `MakeDir` is anybody creating one,
`journal_projection_rebuild` with an `output_path` included.  `early` remembers
which spellings were taken that way.

**CoreTable** is the comment of `resolve_core` as a specification, without mutexes and
lookups: the startup path has the startup core, every other path is given a core when a
request needs it and keeps that one, a request works in its path's core, alone, and is
refused only while its path has none.  `CoreCache` implements it with `path <- key`,
`core <-` the map (or the startup core), `user <- coreLock`: a core is the path's at the
INSERT into the map, so a failed build, a directory it left and a handle nobody
got are stutters.

**JournalReads** is `JournalCore` with a reader in another process and a clock.
`Draw` reads the clock for `new_event_id` and `now_ms`; `WriteStep` is any
step of `JournalCore`, which stores what was drawn: `ids`, the event id of each
event, and `table`, `chapter_meta` in rowid order with `opened_at`.  A ULID is
its millisecond and a random part; two drawn in one millisecond come in
either order.  `Tick` and `SetBack` move the clock.  The reading session is `Ask`, then
`List` (`all_chapter_metas` and the page), and for each chapter `ReadRow`, `ReadEvents`
and, when the stream has none, `ReadImports` or `ExpandFails`: `chapter()` in
`event_log.rs`, where an error of the import SELECT is swallowed (line 474) and the
replay is empty, which `lost` in what the client got remembers.  A listing is the wanted rows (`since`, and the schemas a dump knows) in
their order: `InOrder` puts each row at its `Place`, the number of rows ahead of it.  `tail` is the first page,
`chapter_list` a page after another, grep and dump one page of everything; a dump
sorts its chapters by id and skips those whose schema the process does not know.
The `until` of a grep and its second listing are left out: they drop chapters
from an answer, and add none.
`settled` remembers the events that a tick separates from every later
call.  `ORDER BY opened_at DESC` has no tie-breaker; SQLite's sort
keeps rows of one `opened_at` in rowid order, and the model relies on it.

## 3. Runs

| Run | Checks | Bounds | Result |
|---|---|---|---|
| `single` | one core: types, `CloseMeetsRequires`, `ImportedOnce`, `AppendOnceHonoured`, `FailuresExplainRows`, `ClosedChaptersFrozen`, `StateFollowsSchema`, `ImplementsJournal` | 2 chapters, 2 sections, 2 keys with 3 schema texts, project files that may change, 5 events, 1 failure | holds, 532,801 states |
| `pair` | two cores on one database: `CloseMeetsRequires`, `ImportedOnce`, `ClosedHasCloseEvent`, `FailuresExplainRows`, `AppendOnceRaceBounded`, `CloseSettles`, `ImplementsSharedJournal`, `CallsReturn` | 1 chapter, 2 sections, 4 events, 1 failure | holds, 121,712 states |
| `reimport` | `ImportedContentReplayable` | one core, no failure | violated |
| `torn` | `CloseEventClosesChapter` | one core, 1 failure | violated |
| `reload` | `SchemaPinnedAtOpen` | one core, 1 schema load | violated |
| `file` | `FileTypeOK`, `NothingOverwritten`, `RebuildShowsJournal` | 2 chapters, 2 texts, attached and one-shot, 2 faults | holds, 1,658,074 states |
| `json` | `RebuildRestoresFile` | 2 chapters, 2 texts, 4 faults | holds, 146,018 states |
| `restore` | `RebuildRestoresFile` | file projection, 1 fault | violated |
| `reads` | a reader beside one writer: `ReadsTypeOK`, `PagingMissesNothing`, `ClosedReadsAreFinal`, `AppendsReadInOrder` | 2 chapters, 1 section, 3 events, 1 failure, 1 tick, 1 set-back, 2 random parts, pages of 1 and a dump with `since` | holds, 2,388,446 states |
| `stores` | two cores and their stores: `StoresTypeOK`, `IndexFaithful`, `OneDocument`, `RebuildCompletes`, `CallsReturn` | 2 chapters (0 and 2 rows), 5 ways of attaching 5 projections, 1 fault | holds, 204,724 states |
| `cache` | `CacheTypeOK`, `SameCore`, `OneWriter`, `ImplementsCoreTable`, `RequestsReturn` | 3 requests, 2 roots with 2 spellings each, 1 failed build | holds, 12,764 states |
| `atomic` | `FailedCallLeavesFile` | file projection, 1 fault | violated |

*Why the bounds are enough.*  Operations interact through one chapter's row and
stream, or through the key set of an import, so two chapters and two sections
(one that must be filled, one append-once) meet every guard.  `MaxEvents` is a
bound on starting an operation: five events are an open, a row, another row, a
close and one call too many, and the log may pass the bound by what is already
running.  One failure or crash can be placed between any two statements; the
theorems below do not bound failures at all.  The schema texts are the shape of
`journal-mcp-canonical-v1`, a revision of it under the same key (a section and a state
dropped, another section made append-once, an empty close), uploaded or found in the
project's files, and the stateless built-ins.
The import files cover none, one, two chapters, the same heading twice and a
heading that gives an empty id.  For the file projection two chapters give one
that is written and one that is skipped in the same rebuild; two texts let a
replay change.

In `reads` pages of one chapter are the smallest, so the list shifts between any
two of them; a session that takes everything in one page covers grep and dump.
Three events are an open, an import of two chapters that share a
millisecond, and one call more, or an open, a row and a close.  One tick gives two milliseconds, two random
parts both orders within one, one set-back the order no clock explains.
In `stores` a chapter without rows is the one FTS5 deletes and does not insert, two
rows are the least that can be half inserted, and the empty chapter is the older
one, done last.  The five setups share an index, share a remote book, share one of two
indexes, share nothing but the journal, and have a remote table beside embeddings in memory.
Every order of statements of two cores occurs; a third core would do
to two what the second does to one.  In `cache` three requests are one that builds,
one that waits for it and one that comes with another spelling, which may be
the startup root's.

*Deadlock* is checked in `single` and the file projection's runs.  In those of
`JournalCore`, and in `reads`, the log fills up to `MaxEvents` and nothing more can start; in `stores`
the rows run out; in `cache` every request is answered once.  There it is off.

*Fairness.*  `FairSpec` has `WF` of `Advance(w)`, the continuation of a started
operation, for each core: the handlers are synchronous code without an await
under the mutex, so the thread goes on to the end.  Nothing is assumed of new
calls, schema loads, failures or crashes.  `CallsReturn` needs no more than
that; it would fail if some combination of statements of two cores left an
operation without a next statement (a taken key, a changed row).  `FairStores` has
`WF` of `Goes(w)` for the same reason: statements and HTTP calls of a rebuild are
made one after the other by blocking code, and a request that does not
answer ends in an error.  `CallsReturn` there says that a rebuild ends although rows are
appended and chapters closed all the time, since it reads its list once.
`FairCache` has `WF` of `Serve(r)` for each request: threads run, and a mutex is
given to a thread that waits for it; requests are finitely many and each locks once,
so none is overtaken for ever.

## 4. What the violations show

1. `reimport`.  `open_chapter` on an imported id commits its open event before
   the primary key refuses the `chapter_meta` row.  The caller gets an error, and
   `chapter()` now finds a direct event and no longer looks at the import: the
   imported sections are gone from replay, dump and grep.
2. `torn`.  A failure between the two statements of `append_close` leaves a close
   event in the stream of a chapter whose row is open.
3. `reload`.  `journal_schema_load` replaces the schema an open chapter is bound
   to; `docs/design.md:114` says its version is fixed at open.
4. `restore`.  The file projection records hash and time of a write before it is
   made.  When the write fails (or the file is removed afterwards), the same
   rebuild within a second answers Ok without a file.
5. `atomic`.  The backup is a rename of the target, so a write that fails after
   it leaves no file, where the comment promises the old one.

## 5. What is proved

All theorems hold for every value of the constants that meets the modules'
named assumptions; those only say that sentinels differ from values, that
schemas have the shape `parse_str` accepts, and that bounds are naturals.

*Any number of cores* (`JournalCore_proofs`): `TypeCorrect`; `ImportsAtomic`
(`ImportedOnce`); `RowFollowsLog` (`ClosedHasCloseEvent`); `ClosesMeetRequires`
(`CloseMeetsRequires`), which supposes `ImportsAreFinal`: no schema has a close
transition out of the state an import stores.

`ImportedOnce` is inductive with the types: since a listed chapter has a row,
the primary key keeps a second import of it out.  `ClosedHasCloseEvent` needs
that a core about to set `closed_at` has its close event in the log
(`CloseEventFirst`).  `CloseMeetsRequires` needs three more invariants.  `StreamsOpened`:
a chapter without events of its own is in the state of an import, so no close is
under way on it and what a close checks is the chapter's own rows, not an import
payload that a later event would hide.  `CloseAdmitted`: the rows a core has
checked satisfy its transition until it returns, because the log only grows.
`Recorded`: the history of schema versions has one entry for each event.

*Several cores on one store* (`SharedStore_proofs`).  `RowsExplained`
(`FailuresExplainRows`), for any number of cores.  Every step of a core is one of four: it inserts a row and
joins the calls in flight, leaves them with an acknowledgement, leaves them with a
failure, or changes none of the counts.  The library's theorems on cardinalities
do the rest; the equation is inductive as it stands.

`OnceRowsBounded` (`AppendOnceRaceBounded`), for finitely many cores: the append-once check
of `core.rs:349` and the INSERT are two statements, so cores can pass the check together.
`RaceInv` counts the rows that an append-once policy let in together with the cores that
have passed the check and not yet inserted; a core passes only while there is no
row, and a core that inserts or fails is one admitted core less, so the sum never exceeds the number
of cores.  The bound is reached.

`ClosesSettle` (`CloseSettles`), for finitely many cores and under `ClosesAreFinal`.  A
core that would write the row of a chapter is working on it, so of a settled chapter
no row is written and no content inserted.  When `closed_at` is set, the state that is
stored with it is final (`ClosesToFinal`), and the closing core is the only one working there.

`SharedJournalImplemented` (`ImplementsSharedJournal`), for finitely many cores and under
`ImportsAreFinal`.  Of the one-core proof, `WorksOnOpen` and `ClosedInFinal` are gone, since
another core may close a chapter under a running append.  What replaces them is
`WorksOnExisting` (no statement deletes a `chapter_meta` row, so an append or a close
never meets an absent chapter), `StreamsOpened` and `CloseAdmitted` from above (what a
close checked still holds when `closed_at` is set, whoever has written since), and
`SharedRoom`: the log and the cores with an event still to insert are together at
most `MaxEvents` and the number of cores, so the bound on new calls gives
every row an event number.  The steps that open and import are shared with the one-core
refinement.

*One core* (`SingleCore_proofs`), under `SingleCore`: `AppendOnceOnce`
(`AppendOnceHonoured`); `StatesFollow` (`StateFollowsSchema`), from `StatePlanned`:
the state that a running call is about to store is one transition of the registered
schema away from the state the row still has; and, when also `ClosesAreFinal` (no transition leaves the
state of a close or of an import), `ClosedFrozen` (`ClosedChaptersFrozen`) and
`JournalImplemented` (`ImplementsJournal`).  The invariant is `WorksOnOpen` (a
core past validation works on a chapter that is not closed), `ClosedInFinal` and
`ClosesToFinal` (a close leads to a final state); `JournalImplemented` adds
`Room`, that a running append has an event number left below the bound.  The
hypothesis is needed: nothing in `schema.rs` makes a state
terminal, closed chapters are frozen by what the tables do not contain.
`MCJournalCore` asserts that the schemas of the runs meet it.

*Reads* (`JournalReads_proofs`).  `ReplayOrder` (`AppendsReadInOrder`), for any
number of cores: while the clock is not set back no id is ahead of it, and a settled
event is behind the clock and behind every id that a core has drawn (`OrderInv`), so
whatever is inserted later sorts after it.  `ClosedReadsFinal`
(`ClosedReadsAreFinal`), beside one writing core and under `ClosesAreFinal`: when the
reader has seen `closed_at`, the content is complete and frozen (`ContentKept` of
`SingleCore_proofs`), so what any later SELECT returns is `Complete` and stays so.
`NoContent` is what imports add to that: an imported chapter, and one without a row,
never has content events of its own, so its replay is its import or the open events
that refused calls left, and empty only when the SELECT of that replay failed.

*Paging* (`Paging_proofs`, any number of cores, page size, filter, dump order and faults):
`ReadsTypes` (`ReadsTypeOK`) and `PagesMissNothing` (`PagingMissesNothing`).  That ids are
unique needs `IdsInv`: an id that a core has drawn is on no event and with no other
core, except between the two statements of `open_chapter`, where it is on the event just
inserted.  `TableInv` says that the table lists the chapters of `chapter_meta` once
each, which rests on the primary key, for an import also on the rollback of a batch that repeats
an id.  The sorted listing is a function of the place of each row, so no induction over a
sequence is needed: `InOrderFacts` shows that a strict order puts every element
of a finite set at exactly one place.  Then `PagingInv` is inductive: every chapter the client
is owed has been replayed with what it had then, its own events and its import, is on the page in work, or has a row whose
place is not yet behind the offset.  `PlaceMonotone` is why writers cannot break it: rows
are never deleted, `opened_at` never changes, and a new row only adds to those ahead of an
old one, so places only grow, away from what was already cut off.

*Stores* (`StoreProjections_proofs`, any number of cores, projections and rows, and
any number of faults): `StoresTypes` (`StoresTypeOK`); `IndexAllOrNone`
(`IndexFaithful`); `RebuildsComplete` (`RebuildCompletes`); `DocumentsUnique`
(`OneDocument`).  `HistoryInv` ties the history to what runs: a part that two work on is
disturbed, and a rebuild is exempt from every chapter another core works on.  A
rebuild that is `Alone` on its chapter therefore still has the journal's text and exactly
the rows it has inserted (`Fresh`).  `IndexFaithful` also needs to know what a
failure leaves: a rebuild before its first statement (`Untouched`), and an append after
some of its `mark_dirty` calls (`Told`).  `RebuildCompletes` follows from `Done`, that the
chapters a rebuild is done with are in its store; for embeddings in memory it rests
on the assumption that no two cores share a map.  `OneDocument` is inductive with
`FirstDocument`: where a create is next there was no document, or another rebuild is
there too.  What a step of one core leaves of another core's invariants is proved once for
all steps (`Moves`, `OthersKept`).

*Cores* (`CoreCache_proofs`, any number of requests): `LocksTyped` (`CacheTypeOK`, which
says who holds each mutex); `OneCorePerPath` (`SameCore`); `OneWriterPerRoot`
(`OneWriter`).  `GivenInv` says that a request's core is the startup one, the one in
the map under its path, or the one it is about to insert there, and that nothing
is in the map for a path whose core is being built, because the mutex is held all that time.
`EarlyInv` adds that a path that is not canonical was taken when there was no directory.
`CoreTableImplemented` (`ImplementsCoreTable`) is the refinement: by `GivenInv` the
core a request locks is the one the table has for its path, by `OwnInv` a core about to be
inserted is in the map for no other path, and a refused build leaves the path without one.

*File projection* (`FileProjection_proofs`): `FileTypes`; `ContentsKept`
(`NothingOverwritten`, given `BacksUp`); `OkShowsJournal` (`RebuildShowsJournal`);
`OkRestoresFile` (`RebuildRestoresFile`, given `~Debounced`).  `NothingOverwritten`
is inductive with `PersistSafe`: between the comparison and the rename over the
target, what is owed in the file is the instance's own last write.
`RebuildShowsJournal` needs `RebuildInv`: the chapters a rebuild is done with are
in memory as the journal has them, and a rebuild that may skip finds its memory
in the file.

Only model-checked: the three liveness properties, `CallsReturn` (of `JournalCore` and of
`StoreProjections`) and `RequestsReturn`, which are out of the prover's reach; and the five
violations, which are traces.  Every safety invariant, action property and refinement that a
run checks is a theorem.

## 6. Not modelled

Every operation that writes to the journal, to a projection's store or to the core
cache is an action of a module.  What is left out, and why:

* Parsing of YAML and markdown: only which ids and sections result.  Hooks (they log).
  Payload bytes and the content hash of an import, which no code reads back.
* Rendering: the layout of a file, a document or a dump.  A text stands for
  itself, so two renderings of one replay are taken to be equal.
* The `until` filter and the second listing of grep.
* The queries of projections: FTS5 `MATCH`, embeddings, scores and rankings, the
  miniapp's scan for chapter ids in a text.
* The dirty sets of the projections (`FileProjection::dirty` and the others), which are
  written and never read outside tests.
* Poisoned mutexes: a panic in a handler makes every later request to its core fail
  (`tools.rs:70`).  What could panic there is a serialisation, outside of the model.
* HTTP and stdio transport and the command line; the typestate handle, a
  compile-time wrapper the server does not use.
* Documents that somebody else removes from the remote service, and queries there that miss
  a document just created: the service is external and its guarantees are not in
  this repository.

Simplifications.  A client of `JournalReads` asks once in a behaviour, because a read
leaves nothing behind.  `new_event_id` and `now_ms` read the clock one after the other
in the code, once in the model.  Two backups in the same millisecond would share a
name; the model gives each its own.

Two comments of the code are not what the code does, and the properties state what
does hold instead.  `event_log.rs:385` says that replays come in append order: within a
millisecond, and after the clock was set back, they do not, and `AppendsReadInOrder`
has exactly these exceptions.  `server.rs:391` says that the mutex of the map is held
only across lookup and insertion: it is held while the database is opened too, which
`SameCore` needs.

What would extend this: a client that polls with `since` and merges what it gets (a
property about chapters imported with an earlier clock), and two servers behind one file
projection's output path, which `FileProjection` covers by `Touch` only.
