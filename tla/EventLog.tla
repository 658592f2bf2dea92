------------------------------ MODULE EventLog ------------------------------
(***************************************************************************)
(* The SQLite store of event_log.rs: the append-only table event_log and   *)
(* the table chapter_meta, with one action per SQL statement, because the  *)
(* store commits each statement of append_chapter_open, append_section and *)
(* append_close on its own; only append_import runs in a transaction.      *)
(*                                                                         *)
(* log is event_log in commit order.  An event's batch is what an import   *)
(* payload lists: a sequence of [id, rows] in file order.                  *)
(***************************************************************************)
EXTENDS ChapterSchema, FiniteSets

CONSTANTS
  Chapters,        \* non-empty chapter ids
  NoRow,           \* "no chapter_meta row with this key"
  NoSection,       \* the NULL section_name of open, close and import events
  NoChapter,       \* the empty id a heading without letters or digits gets
  MigrationStream, \* the stream of every import event (a fresh ULID each)
  ImportState,     \* the literal 'closed' that append_import stores
  ImportSchema     \* the literal 'journal-mcp-canonical-v1'

VARIABLES
  log,   \* event_log
  meta   \* chapter_meta by primary key

MetaRow == [schema: SchemaIds, state: States, closed: BOOLEAN]

(* A section row: its name, and whether body_is_empty holds of its body.    *)
Row == [section: Sections, blank: BOOLEAN]

ImportEntry == [id: Chapters \cup {NoChapter}, rows: SUBSET Row]

Event ==
  [type: {"open", "section_append", "close", "import"},
   stream: Chapters \cup {MigrationStream},
   section: Sections \cup {NoSection},
   blank: BOOLEAN,
   batch: Seq(ImportEntry)]

ASSUME StoreAssumption ==
  /\ ImportState \in States
  /\ ImportSchema \in SchemaIds
  /\ NoRow \notin MetaRow
  /\ NoSection \notin Sections
  /\ NoChapter \notin Chapters
  /\ MigrationStream \notin Chapters

StoreTypeOK ==
  /\ log \in Seq(Event)
  /\ meta \in [Chapters -> MetaRow \cup {NoRow}]

StoreInit ==
  /\ log = << >>
  /\ meta = [c \in Chapters |-> NoRow]

-----------------------------------------------------------------------------
(* The events each statement inserts. *)

OpenEvent(c) ==
  [type |-> "open", stream |-> c, section |-> NoSection,
   blank |-> TRUE, batch |-> << >>]

SectionEvent(c, s, blank) ==
  [type |-> "section_append", stream |-> c, section |-> s,
   blank |-> blank, batch |-> << >>]

CloseEvent(c) ==
  [type |-> "close", stream |-> c, section |-> NoSection,
   blank |-> TRUE, batch |-> << >>]

ImportEvent(batch) ==
  [type |-> "import", stream |-> MigrationStream, section |-> NoSection,
   blank |-> TRUE, batch |-> batch]

-----------------------------------------------------------------------------
(* Queries. *)

Exists(c) == meta[c] # NoRow
IsClosed(c) == Exists(c) /\ meta[c].closed

(* WHERE stream_id = c, as positions of the log. *)
Direct(c) == {i \in DOMAIN log : log[i].stream = c}
SectionRows(c) == {i \in Direct(c) : log[i].type = "section_append"}

(* section_count(c, s) > 0 *)
HasSection(c, s) == \E i \in SectionRows(c) : log[i].section = s

ListedIn(i, c) ==
  /\ log[i].type = "import"
  /\ \E k \in DOMAIN log[i].batch : log[i].batch[k].id = c

Imports(c) == {i \in DOMAIN log : ListedIn(i, c)}

(* expand_import_events: what the entries listing c hold.  The code takes   *)
(* the first entry; a chapter is never in two (ImportedOnce).               *)
ImportedRows(c) ==
  UNION {UNION {{[event |-> i, section |-> r.section, blank |-> r.blank] :
                   r \in log[i].batch[k].rows} :
                k \in {j \in DOMAIN log[i].batch : log[i].batch[j].id = c}} :
         i \in Imports(c)}

DirectRows(c) ==
  {[event |-> i, section |-> log[i].section, blank |-> log[i].blank] :
     i \in SectionRows(c)}

(* chapter(): the direct events; only a stream with no event at all is      *)
(* looked up in the import payloads.                                        *)
ReplayRows(c) == IF Direct(c) # {} THEN DirectRows(c) ELSE ImportedRows(c)

-----------------------------------------------------------------------------
(* Statements. *)

InsertEvent(e) == log' = Append(log, e)

(* Mutant: INSERT OR REPLACE. *)
InsertMetaReplace(c, k, state) ==
  meta' = [meta EXCEPT ![c] = [schema |-> k, state |-> state,
                               closed |-> FALSE]]

(* INSERT INTO chapter_meta: the primary key must be free. *)
InsertMeta(c, k, state) ==
  /\ ~Exists(c)
  /\ meta' = [meta EXCEPT ![c] = [schema |-> k, state |-> state,
                                  closed |-> FALSE]]

(* UPDATE chapter_meta SET current_state = ... WHERE chapter_id = c: no row, *)
(* no effect, no error.                                                      *)
UpdateState(c, state) ==
  meta' = IF Exists(c) THEN [meta EXCEPT ![c].state = state] ELSE meta

(* Mutant: the close sets closed_at and forgets current_state. *)
UpdateClosedAtOnly(c, state) ==
  meta' = IF Exists(c) THEN [meta EXCEPT ![c].closed = TRUE] ELSE meta

(* UPDATE chapter_meta SET current_state = ..., closed_at = now. *)
UpdateClosed(c, state) ==
  meta' = IF Exists(c)
            THEN [meta EXCEPT ![c].state = state, ![c].closed = TRUE]
            ELSE meta

BatchIds(batch) == {batch[k].id : k \in DOMAIN batch} \cap Chapters

(* Mutant: INSERT OR IGNORE within one import. *)
BatchInsertableIgnore(batch) == \A c \in BatchIds(batch) : ~Exists(c)

(* Mutant: the transaction relies on the earlier collision check alone. *)
BatchInsertableUnkeyed(batch) ==
  \A j, k \in DOMAIN batch :
     batch[j].id = batch[k].id /\ batch[j].id # NoChapter => j = k

(* No two entries share an id, and no id has a row: what the primary key     *)
(* demands of the inserts of one import.                                     *)
BatchInsertable(batch) ==
  /\ \A j, k \in DOMAIN batch :
        batch[j].id = batch[k].id /\ batch[j].id # NoChapter => j = k
  /\ \A c \in BatchIds(batch) : ~Exists(c)

(* append_import and the commit: one transaction; entries with an empty id   *)
(* get no chapter_meta row.                                                  *)
InsertImport(batch) ==
  /\ BatchInsertable(batch)
  /\ InsertEvent(ImportEvent(batch))
  /\ meta' = [c \in Chapters |->
                IF c \in BatchIds(batch)
                  THEN [schema |-> ImportSchema, state |-> ImportState,
                        closed |-> TRUE]
                  ELSE meta[c]]
=============================================================================
