---------------------------- MODULE JournalReads ----------------------------
(***************************************************************************)
(* The reads of the journal (event_log.rs chapter, all_chapter_metas;      *)
(* core.rs tail_chapters, chapter_ids, grep_chapters, dump_markdown) by a  *)
(* second process while the cores of JournalCore write.  A read is one     *)
(* SELECT of the chapter_meta rows and then, chapter by chapter, a SELECT  *)
(* of the row and a SELECT of the events: no transaction spans them.       *)
(*                                                                         *)
(* JournalCore says nothing of time, and reads order by it: events by      *)
(* event_id, a ULID that starts with the clock's milliseconds, chapters by *)
(* opened_at, the clock's milliseconds.  So every step of JournalCore is   *)
(* taken over here with the clock readings it stores.                      *)
(*                                                                         *)
(* The client asks once per behaviour: a read leaves nothing in the        *)
(* journal, so a later session is a first session that starts later.       *)
(***************************************************************************)
EXTENDS JournalCore, Functions

CONSTANTS
  Ties,         \* the random parts of a ULID, ordered; no two events share one
                \* within a millisecond
  Requests,     \* what a client asks for: page size, since filter, dump or not
  ReaderSchemas, \* the keys the reading process resolves: what was uploaded
                \* to another process is not among them
  MaxClock,     \* bound: milliseconds that pass
  MaxSetBacks,  \* bound: times the system clock is set back
  NoStamp,      \* "no id drawn"
  Unread        \* "the client has not read this chapter"

VARIABLES
  clock,    \* the system clock, in milliseconds
  setbacks, \* times it was set back
  stamp,    \* what each core has read of the clock for its next INSERT
  ids,      \* the event_id of each event of the log
  table,    \* chapter_meta in rowid order, with the column opened_at
  client,   \* the reading session
  settled   \* history: the events a clock tick separates from every later call

clockVars == <<clock, setbacks, stamp, ids, table, settled>>
readVars == <<log, meta, l2, pc, op, faults, rules, acked,
              clock, setbacks, stamp, ids, table, client, settled>>

ASSUME ReadsAssumption ==
  /\ Ties \subseteq Nat
  /\ Requests \subseteq [limit: Nat \ {0}, since: Nat, dump: BOOLEAN]
  /\ ReaderSchemas \subseteq SchemaIds
  /\ MaxClock \in Nat
  /\ MaxSetBacks \in Nat
  /\ NoStamp \notin [ms: Nat, tie: Ties]
  /\ Unread \notin [closed: BOOLEAN, events: SUBSET Nat, lost: BOOLEAN]

-----------------------------------------------------------------------------
(* The elements of a finite set S as a sequence, sorted by the pairs of Less *)
(* (SetToSortSeq of the community modules takes an operator).                *)
Place(b, S, Less) == Cardinality({a \in S : <<a, b>> \in Less})

InOrder(S, Less) ==
  [n \in 1 .. Cardinality(S) |-> CHOOSE b \in S : Place(b, S, Less) = n - 1]

-----------------------------------------------------------------------------
EventId == [ms: Nat, tie: Ties]
ListedRow == [id: Chapters, opened: Nat]

(* One chapter as read: closed_at of its row, the events, and, as history,   *)
(* whether the SELECT of the imports failed.                                 *)
Replay == [closed: BOOLEAN, events: SUBSET Nat, lost: BOOLEAN]

(* The session: its step, the page size, the since filter, whether it is a   *)
(* journal_dump, the offset of the page, the chapters of the page still to   *)
(* be replayed and whether it is the last page, the closed_at of the first   *)
(* of them, what it got; and, as history, the chapters and the events that   *)
(* were there when it started.                                               *)
Session ==
  [at: {"idle", "list", "row", "events", "expand", "done"},
   limit: Nat, since: Nat, dump: BOOLEAN, offset: Nat,
   todo: Seq(Chapters), last: BOOLEAN, closed: BOOLEAN,
   got: [Chapters -> Replay \cup {Unread}],
   owed: SUBSET Chapters, past: Nat]

NoSession ==
  [at |-> "idle", limit |-> 0, since |-> 0, dump |-> FALSE, offset |-> 0,
   todo |-> << >>, last |-> FALSE, closed |-> FALSE,
   got |-> [c \in Chapters |-> Unread], owed |-> {}, past |-> 0]

ReadInit ==
  /\ Init
  /\ clock = 0
  /\ setbacks = 0
  /\ stamp = [w \in Cores |-> NoStamp]
  /\ ids = << >>
  /\ table = << >>
  /\ client = NoSession
  /\ settled = 0

-----------------------------------------------------------------------------
(* The clock. *)

Calm == \A w \in Cores : Idle(w) /\ stamp[w] = NoStamp

(* What ran before this tick has an earlier millisecond than what starts     *)
(* after it, as long as the clock is never set back.                         *)
Tick ==
  /\ clock < MaxClock
  /\ clock' = clock + 1
  /\ settled' = IF Calm /\ setbacks = 0 THEN Len(log) ELSE settled
  /\ UNCHANGED <<vars, setbacks, stamp, ids, table, client>>

(* SystemTime is not monotonic. *)
SetBack ==
  /\ setbacks < MaxSetBacks
  /\ clock > 0
  /\ setbacks' = setbacks + 1
  /\ clock' = clock - 1
  /\ settled' = 0
  /\ UNCHANGED <<vars, stamp, ids, table, client>>

-----------------------------------------------------------------------------
(* Writing: the id and the time are taken just before the INSERT.            *)

(* Mutant: an id without a time in front (a random UUID). *)
RandomIds == [ms: 0 .. MaxClock, tie: Ties]

(* Ulid::new at this reading of the clock: nothing makes two ids of one      *)
(* millisecond increase.                                                     *)
UlidsNow == [ms: {clock}, tie: Ties]

TakenIds ==
  {ids[i] : i \in DOMAIN ids} \cup {stamp[w] : w \in Cores}

AtInsert(w) ==
  \/ pc[w] \in {"append_event", "close_event", "import_tx"}
  \/ Ready(w)

(* new_event_id and now_ms, one after the other in the code, read the clock  *)
(* once here.                                                                *)
Draw(w) ==
  /\ AtInsert(w)
  /\ stamp[w] = NoStamp
  /\ \E i \in UlidsNow \ TakenIds : stamp' = [stamp EXCEPT ![w] = i]
  /\ UNCHANGED <<vars, clock, setbacks, ids, table, client, settled>>

(* open_chapter goes on to use the time; every other call is done with it.   *)
StampAfter(w) == IF pc'[w] = "open_meta" THEN stamp[w] ELSE NoStamp

(* Mutant: an import also writes a row for a heading without an id. *)
AllImportIds(batch) == [k \in DOMAIN batch |-> batch[k].id]

ImportIds(batch) ==
  LET given == InOrder({k \in DOMAIN batch : batch[k].id # NoChapter},
                       {p \in (DOMAIN batch) \X (DOMAIN batch) : p[1] < p[2]})
  IN [n \in DOMAIN given |-> batch[given[n]].id]

(* The chapters the running statement inserts into chapter_meta, in order.   *)
NewRows(w) ==
  LET new == CASE pc[w] = "open_meta" -> <<op[w].chapter>>
               [] pc[w] = "import_tx" -> ImportIds(op[w].batch)
               [] OTHER -> << >>
  IN [k \in DOMAIN new |-> [id |-> new[k], opened |-> stamp[w].ms]]

Inserted == \E c \in Chapters : meta[c] = NoRow /\ meta'[c] # NoRow

JournalStep(w) ==
  \/ OpenChapter(w) \/ AppendSection(w) \/ CloseChapter(w)
  \/ ImportChapter(w) \/ Environment(w)

(* A core that has drawn an id while idle is in open_chapter: it inserts the *)
(* event, or the process dies.                                               *)
WriteStep(w) ==
  /\ JournalStep(w)
  /\ Idle(w) /\ stamp[w] # NoStamp => (log' # log \/ faults' # faults)
  /\ log' # log => stamp[w] # NoStamp
  /\ ids' = IF log' # log THEN Append(ids, stamp[w]) ELSE ids
  /\ table' = IF Inserted THEN table \o NewRows(w) ELSE table
  /\ stamp' = [stamp EXCEPT ![w] = StampAfter(w)]
  /\ UNCHANGED <<clock, setbacks, client, settled>>

-----------------------------------------------------------------------------
(* Reading. *)

(* ORDER BY opened_at DESC; nothing breaks a tie, and SQLite's sort of a     *)
(* table scan keeps rows of one opened_at in rowid order.                    *)
Ahead(a, b) ==
  \/ table[a].opened > table[b].opened
  \/ table[a].opened = table[b].opened /\ a < b

NewestFirst == {p \in (DOMAIN table) \X (DOMAIN table) : Ahead(p[1], p[2])}

(* chapter_ids(since) and the chapters dump_markdown does not skip. *)
Wanted(row, s) ==
  /\ row.opened >= s.since
  /\ s.dump => meta[row.id].schema \in ReaderSchemas

WantedRows(s) == {a \in DOMAIN table : Wanted(table[a], s)}

Rows(places) == [n \in DOMAIN places |-> table[places[n]]]

(* Mutant: the rows are kept by opened_at, one for each time. *)
ListingByTime(s) ==
  Rows(InOrder({a \in WantedRows(s) :
                  \A b \in WantedRows(s) :
                     table[b].opened = table[a].opened => b <= a},
               NewestFirst))

(* all_chapter_metas, and what the callers keep of it. *)
Listing(s) == Rows(InOrder(WantedRows(s), NewestFirst))

(* A client starts to read: the whole journal (dump, grep, chapter_list      *)
(* without a limit), its newest chapters (tail) or page after page           *)
(* (chapter_list); since is a parameter of grep and dump, which do not page. *)
Ask(r) ==
  /\ client.at = "idle"
  /\ LET s == [NoSession EXCEPT !.at = "list", !.limit = r.limit,
                                !.since = r.since, !.dump = r.dump,
                                !.past = Len(log)]
     IN client' = [s EXCEPT !.owed = {table[a].id : a \in WantedRows(s)}]
  /\ UNCHANGED <<vars, clockVars>>

(* One page: skip(offset).take(limit) of the listing.  chapter_list replays   *)
(* the chapters outside of its page too, and drops what it read.             *)
Page(s) ==
  LET rows == Listing(s)
      last == s.offset + s.limit
  IN SubSeq(rows, s.offset + 1, IF last < Len(rows) THEN last ELSE Len(rows))

(* A dump sorts its chapters by id: by any order of the ids here.            *)
Orders(s, page) ==
  LET rowIds == [n \in DOMAIN page |-> page[n].id]
  IN IF s.dump
       THEN {q \in [DOMAIN page -> Range(rowIds)] : Range(q) = Range(rowIds)}
       ELSE {rowIds}

(* grep lists a second time for its replays, and drops the chapters that     *)
(* were not in the first listing, and those after until: neither is here.    *)
List ==
  /\ client.at = "list"
  /\ LET page == Page(client) IN
     \E order \in Orders(client, page) :
        client' = [client EXCEPT !.at = IF page = << >> THEN "done" ELSE "row",
                                 !.todo = order,
                                 !.last = Len(page) < client.limit]
  /\ UNCHANGED <<vars, clockVars>>

(* chapter(): the row first; it is there, since no statement deletes one.    *)
ReadRow ==
  /\ client.at = "row"
  /\ client' = [client EXCEPT !.at = "events",
                              !.closed = IsClosed(Head(client.todo))]
  /\ UNCHANGED <<vars, clockVars>>

(* A replay is complete: the next of the page, the next page, or the end.    *)
Replayed(events, lost) ==
  LET c == Head(client.todo)
      rest == Tail(client.todo)
  IN client' = [client EXCEPT
       !.at = IF rest # << >> THEN "row"
              ELSE IF client.last THEN "done" ELSE "list",
       !.todo = rest,
       !.offset = IF rest = << >> THEN @ + client.limit ELSE @,
       !.closed = FALSE,
       !.got[c] = [closed |-> client.closed, events |-> events,
                   lost |-> lost]]

(* Mutant: the events of all chapters are fetched once, when the client      *)
(* starts.                                                                   *)
EventsAtStart(c) == {i \in Direct(c) : i <= client.past}

EventsNow(c) == Direct(c)

ReadEvents ==
  /\ client.at = "events"
  /\ IF Direct(Head(client.todo)) = {}
       THEN client' = [client EXCEPT !.at = "expand"]
       ELSE Replayed(EventsNow(Head(client.todo)), FALSE)
  /\ UNCHANGED <<vars, clockVars>>

(* expand_import_events: a second SELECT, of the import events.              *)
ReadImports ==
  /\ client.at = "expand"
  /\ Replayed(Imports(Head(client.todo)), FALSE)
  /\ UNCHANGED <<vars, clockVars>>

(* chapter() takes an error of that SELECT for "not imported", and answers   *)
(* with no events.                                                           *)
ExpandFails ==
  /\ client.at = "expand"
  /\ faults < MaxFaults
  /\ faults' = faults + 1
  /\ Replayed({}, TRUE)
  /\ UNCHANGED <<log, meta, l2, pc, op, rules, acked, clockVars>>

-----------------------------------------------------------------------------
Read ==
  \/ \E r \in Requests : Ask(r)
  \/ List
  \/ ReadRow
  \/ ReadEvents
  \/ ReadImports
  \/ ExpandFails

ReadNext ==
  \/ Tick
  \/ SetBack
  \/ \E w \in Cores : Draw(w) \/ WriteStep(w)
  \/ Read

ReadSpec == ReadInit /\ [][ReadNext]_readVars

-----------------------------------------------------------------------------
(* Every variable has its type, every event an id of its own, and the table  *)
(* in rowid order holds exactly the chapters of chapter_meta, once each.     *)
ReadsTypeOK ==
  /\ clock \in Nat
  /\ setbacks \in Nat
  /\ stamp \in [Cores -> EventId \cup {NoStamp}]
  /\ ids \in Seq(EventId)
  /\ Len(ids) = Len(log)
  /\ \A i, j \in DOMAIN ids : ids[i] = ids[j] => i = j
  /\ table \in Seq(ListedRow)
  /\ {table[a].id : a \in DOMAIN table} = {c \in Chapters : Exists(c)}
  /\ \A a, b \in DOMAIN table : table[a].id = table[b].id => a = b
  /\ client \in Session
  /\ settled \in 0 .. Len(log)

(* The two ways in which an imported chapter is replayed without what was    *)
(* imported: the SELECT failed, or an open_chapter that was refused has left *)
(* it an event of its own.                                                   *)
ImportMissed(c, replay) ==
  replay.lost \/ replay.events \cap Direct(c) # {}

(* A client that pages through the list to its end has read every chapter    *)
(* that was there when it started, with every event of its stream and the    *)
(* import it came from, whatever is opened, imported or closed between two   *)
(* pages: chapters opened meanwhile shift the pages towards the client,      *)
(* never away from it (server.rs paginate slices a list computed anew for    *)
(* every page).                                                              *)
PagingMissesNothing ==
  client.at = "done" =>
    \A c \in client.owed :
       /\ client.got[c] # Unread
       /\ {i \in Direct(c) : i <= client.past} \subseteq client.got[c].events
       /\ \/ {i \in Imports(c) : i <= client.past}
               \subseteq client.got[c].events
          \/ ImportMissed(c, client.got[c])

(* A chapter read as closed was read in full: its row is read before its     *)
(* events and written after them, so no event of its content is missing from *)
(* the replay, then or ever after.  The stream of an imported chapter is the *)
(* import event, or the open events that refused open_chapters left; it is   *)
(* empty only if the SELECT of this replay failed.  For one writing core.    *)
ClosedReadsAreFinal ==
  \A c \in Chapters :
     client.got[c] # Unread /\ client.got[c].closed =>
       IF Imports(c) = {}
         THEN /\ OwnContent(c) \subseteq client.got[c].events
              /\ \E i \in client.got[c].events : log[i].type = "close"
         ELSE \/ client.got[c].events = Imports(c)
              \/ /\ \A i \in client.got[c].events : log[i].type = "open"
                 /\ client.got[c].events = {} => client.got[c].lost

Earlier(a, b) == a.ms < b.ms \/ (a.ms = b.ms /\ a.tie < b.tie)

(* Replays come in the order of the ids: an event is ordered after every     *)
(* event whose call had returned at a tick of the clock before its own call  *)
(* began.  Within a millisecond, and once the clock was set back, nothing is *)
(* promised (event_log.rs:385-389 says append order).                        *)
AppendsReadInOrder ==
  [][\A i \in 1 .. settled : \A j \in DOMAIN ids' \ DOMAIN ids :
        Earlier(ids[i], ids'[j])]_readVars
=============================================================================
