--------------------------- MODULE MCJournalCore ---------------------------
(* Constants of JournalCore for TLC. *)
EXTENDS JournalCore, TLC

CONSTANTS c1, c2, s1, s2, k1, k2, w1, w2

T(from, to, on, present, nonEmpty) ==
  [from |-> from, to |-> to, on |-> on,
   present |-> present, nonEmpty |-> nonEmpty]

(* The shape of journal-mcp-canonical-v1 with two sections: s1 must be       *)
(* filled, s2 must be present and takes one row.                             *)
MCCanonical ==
  [initial |-> "open",
   transitions |-> <<T("open", "appending", "append_section", {}, {}),
                     T("appending", "appending", "append_section", {}, {}),
                     T("appending", "appending", "append_progress", {}, {}),
                     T("appending", "closed", "close_chapter",
                       {s1}, {s1})>>,
   policy |-> s1 :> "append-only-chain" @@ s2 :> "append-once"]

(* A later text for the same key: s2 and the state open are gone, s1 takes   *)
(* one row, and an empty chapter may be closed.                              *)
MCRevised ==
  [initial |-> "appending",
   transitions |-> <<T("appending", "appending", "append_section", {}, {}),
                     T("appending", "closed", "close_chapter", {}, {})>>,
   policy |-> s1 :> "append-once"]

(* madr and minimal: no states, so no initial state. *)
MCStateless ==
  [initial |-> NoState,
   transitions |-> <<T("appending", "closed", "close_chapter", {}, {})>>,
   policy |-> << >>]

MCVersions == {MCCanonical, MCRevised, MCStateless}
MCBuiltIn == [k \in SchemaIds |-> IF k = k1 THEN MCCanonical ELSE MCStateless]

(* No schema files, or, at the start or from some restart on, one for k1.    *)
MCNoFiles == {[k \in SchemaIds |-> NoSchema]}
MCLocalFiles == MCNoFiles \cup {[k \in SchemaIds |->
                                   IF k = k1 THEN MCRevised ELSE NoSchema]}

MCUploads == {<<k1, MCRevised>>}
MCNoUploads == {}

Entry(c, rows) == [id |-> c, rows |-> rows]
MCRows == {[section |-> s1, blank |-> FALSE]}

(* No chapter, one, two, the same heading twice, and a heading that gives    *)
(* the empty id; only the files that use the chapters at hand.               *)
MCImportFiles ==
  {f \in {<< >>,
          <<Entry(c1, MCRows)>>,
          <<Entry(c1, MCRows), Entry(c2, {})>>,
          <<Entry(c1, {}), Entry(c1, MCRows)>>,
          <<Entry(NoChapter, MCRows), Entry(c1, MCRows)>>} :
     \A i \in DOMAIN f : f[i].id \in Chapters \cup {NoChapter}}

(* What the theorems about closed chapters suppose of the schemas. *)
ASSUME MCClosesAreFinal == ImportsAreFinal /\ ClosesAreFinal
=============================================================================
