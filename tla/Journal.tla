------------------------------- MODULE Journal -------------------------------
(***************************************************************************)
(* What the journal promises its callers, with nothing of how it is stored *)
(* (docs/design.md sections 8 and 9.2): a chapter is opened once, takes    *)
(* rows while it is open, is closed only when its rows satisfy what its    *)
(* schema requires, and is never touched again; an import creates all of   *)
(* its chapters closed, or none.  JournalCore with one core implements     *)
(* JournalSpec, and with any number of cores SharedSpec, crashes and       *)
(* failed statements included.                                             *)
(***************************************************************************)
EXTENDS Naturals

CONSTANTS
  Chapters,  \* chapter ids
  Sections,  \* section names
  Requires,  \* what a close may demand: records [present, nonEmpty]
  EventIds   \* the numbers that order the rows, a set of naturals

VARIABLES
  status,    \* of each chapter: absent, open or closed
  rows       \* every row: [event, chapter, section, blank]

jvars == <<status, rows>>

JournalTypeOK ==
  /\ status \in [Chapters -> {"absent", "open", "closed"}]
  /\ rows \subseteq [event: EventIds, chapter: Chapters, section: Sections,
                     blank: BOOLEAN]

JournalInit ==
  /\ status = [c \in Chapters |-> "absent"]
  /\ rows = {}

OpenNew(c) ==
  /\ status[c] = "absent"
  /\ status' = [status EXCEPT ![c] = "open"]
  /\ UNCHANGED rows

(* The new row comes after every row there is. *)
NewRow(c, s, blank) ==
  /\ \E n \in EventIds :
        /\ \A r \in rows : r.event < n
        /\ rows' = rows \cup {[event |-> n, chapter |-> c, section |-> s,
                               blank |-> blank]}
  /\ UNCHANGED status

AddRow(c, s, blank) == status[c] = "open" /\ NewRow(c, s, blank)

Satisfied(q, c) ==
  /\ \A s \in q.present : \E r \in rows : r.chapter = c /\ r.section = s
  /\ \A s \in q.nonEmpty :
        \E r \in rows : r.chapter = c /\ r.section = s /\ ~r.blank

CloseComplete(c) ==
  /\ status[c] = "open"
  /\ \E q \in Requires : Satisfied(q, c)
  /\ status' = [status EXCEPT ![c] = "closed"]
  /\ UNCHANGED rows

ImportAll(C) ==
  /\ \A c \in C : status[c] = "absent"
  /\ status' = [c \in Chapters |-> IF c \in C THEN "closed" ELSE status[c]]
  /\ UNCHANGED rows

JournalNext ==
  \/ \E c \in Chapters : OpenNew(c)
  \/ \E c \in Chapters, s \in Sections, blank \in BOOLEAN : AddRow(c, s, blank)
  \/ \E c \in Chapters : CloseComplete(c)
  \/ \E C \in SUBSET Chapters : ImportAll(C)

JournalSpec == JournalInit /\ [][JournalNext]_jvars

-----------------------------------------------------------------------------
(* What is left of the promise when several writers share the store: a row   *)
(* may still come after a close.  All the rest stands: a chapter is opened   *)
(* once, stays closed, was complete when it was closed, and an import is     *)
(* refused a chapter that somebody else created.                             *)

AddLateRow(c, s, blank) == status[c] = "closed" /\ NewRow(c, s, blank)

SharedNext ==
  \/ JournalNext
  \/ \E c \in Chapters, s \in Sections, blank \in BOOLEAN :
        AddLateRow(c, s, blank)

SharedSpec == JournalInit /\ [][SharedNext]_jvars
=============================================================================
