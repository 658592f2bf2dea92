--------------------------- MODULE MCJournalReads ---------------------------
(* Constants of JournalReads for TLC. *)
EXTENDS JournalReads, MCJournalCore

(* A heading that gives no id, and two chapters of one millisecond.          *)
MCReadFiles == {<<Entry(NoChapter, {}), Entry(c1, MCRows), Entry(c2, {})>>}

(* Page after page of the whole list, and a dump of the newer chapters.      *)
MCRequests ==
  {[limit |-> 1, since |-> 0, dump |-> FALSE],
   [limit |-> Cardinality(Chapters) + 1, since |-> 1, dump |-> TRUE]}

(* A schema that lets an empty chapter be closed, so that few events do.     *)
MCShort ==
  [initial |-> "open",
   transitions |-> <<T("open", "open", "append_section", {}, {}),
                     T("open", "closed", "close_chapter", {}, {})>>,
   policy |-> s1 :> "append-only-chain"]

(* Imported chapters have a key of their own, under which none is opened;    *)
(* it is the only one the reading process knows.                             *)
MCImported == [MCShort EXCEPT !.initial = NoState]

MCReadVersions == {MCShort, MCImported}
MCReadBuiltIn == [k \in SchemaIds |-> IF k = k1 THEN MCShort ELSE MCImported]
=============================================================================
