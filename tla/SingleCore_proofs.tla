-------------------------- MODULE SingleCore_proofs --------------------------
(***************************************************************************)
(* Theorems about JournalCore when one core owns the database, the         *)
(* deployment docs/design.md 9.2 assumes, and no schema has a transition   *)
(* out of a closed state: append-once, frozen closed chapters, and the     *)
(* refinement of Journal.  Crashes and failed statements are included.     *)
(***************************************************************************)
EXTENDS JournalCore_proofs

Forward(u) ==
  \/ \E c \in Chapters, k \in SchemaIds : OpenEventStep(u, c, k)
  \/ \E c \in Chapters, s \in Sections, b \in BOOLEAN :
        AppendValidate(u, c, s, b)
  \/ AppendAdmit(u) \/ AppendEventStep(u) \/ AppendStateStep(u)
  \/ \E c \in Chapters : CloseValidate(u, c)
  \/ CloseCheck(u) \/ CloseEventStep(u)
  \/ \E batch \in ImportFiles : ImportCheck(u, batch)

(* The only core either goes on by itself or is idle afterwards.             *)
LEMMA SoloMoves ==
  ASSUME SingleCore, TypeInv, Next, NEW u \in Cores
  PROVE  pc'[u] = "idle" \/ Forward(u)
<1>1. PICK w \in Cores : \/ OpenChapter(w) \/ AppendSection(w)
                         \/ CloseChapter(w) \/ ImportChapter(w)
                         \/ Environment(w)
  BY DEF Next
<1>2. w = u
  BY DEF SingleCore
<1>3. pc \in [Cores -> Steps]
  BY DEF TypeInv, TypeOK
<1>4. Return(u) => pc'[u] = "idle"
  BY <1>3 DEF Return
<1>5. CASE OpenChapter(u)
  BY <1>4, <1>5 DEF OpenChapter, OpenMetaStep, OpenConflict, Forward
<1>6. CASE AppendSection(u)
  BY <1>4, <1>6
  DEF AppendSection, AppendOnceRefused, Reject, Dispatch, DispatchFails, Forward
<1>7. CASE CloseChapter(u)
  BY <1>4, <1>7 DEF CloseChapter, CloseRefused, Reject, CloseStateStep, Forward
<1>8. CASE ImportChapter(u)
  BY <1>4, <1>8 DEF ImportChapter, ImportCommit, ImportRollback, Forward
<1>9. CASE Environment(u)
  BY <1>4, <1>9 DEF Environment, LoadSchema, Idle, StatementFails, Crash
<1> QED BY <1>1, <1>2, <1>5, <1>6, <1>7, <1>8, <1>9

-----------------------------------------------------------------------------
(* Closed chapters. *)

OpenSteps == SectionSteps \cup CloseSteps

(* The core appends to and closes only chapters that are open, a closed      *)
(* chapter is in a final state, and a close leads to one.                    *)
WorksOnOpen ==
  \A w \in Cores :
     pc[w] \in OpenSteps =>
       Exists(op[w].chapter) /\ ~meta[op[w].chapter].closed

ClosedInFinal ==
  \A c \in Chapters : IsClosed(c) => meta[c].state \in FinalStates

ClosesToFinal ==
  \A w \in Cores : pc[w] \in CloseSteps => op[w].state \in FinalStates

ClosedInv == WorksOnOpen /\ ClosedInFinal /\ ClosesToFinal

LEMMA SchemaOfType ==
  ASSUME TypeInv, NEW w \in Cores, NEW c \in Chapters, Bound(w, c)
  PROVE  SchemaOf(w, c) \in Versions /\ IsSchema(SchemaOf(w, c))
<1>1. meta[c].schema \in SchemaIds
  BY DEF Bound, Exists, TypeInv, TypeOK, StoreTypeOK, MetaRow
<1> QED BY <1>1, ResolveType DEF Bound, SchemaOf, TypeInv, TypeOK

(* No append and no close is validated against a final state.                *)
LEMMA FinalRefuses ==
  ASSUME TypeInv, ClosedInFinal, NEW w \in Cores, NEW c \in Chapters,
         NEW on \in {"append_section", "close_chapter"}, Bound(w, c),
         HasTransition(SchemaOf(w, c), meta[c].state, on)
  PROVE  ~meta[c].closed
BY SchemaOfType DEF ClosedInFinal, IsClosed, Bound, FinalStates

LEMMA WorksOnOpenStep ==
  ASSUME SingleCore, TypeInv, Next, ClosedInv
  PROVE  WorksOnOpen'
<1> SUFFICES ASSUME NEW u \in Cores, pc'[u] \in OpenSteps
             PROVE  Exists(op[u].chapter)' /\ ~meta'[op'[u].chapter].closed
  BY DEF WorksOnOpen
<1>1. pc \in [Cores -> Steps] /\ op \in [Cores -> Operation]
  BY DEF TypeInv, TypeOK
<1>2. ASSUME NEW c \in Chapters, NEW s \in Sections, NEW b \in BOOLEAN,
             AppendValidate(u, c, s, b)
      PROVE  Exists(op[u].chapter)' /\ ~meta'[op'[u].chapter].closed
  <2>1. op'[u].chapter = c /\ meta' = meta
    BY <1>1, <1>2 DEF AppendValidate, Start, Unbound
  <2>2. Exists(c) /\ ~meta[c].closed
    BY <1>2, FinalRefuses DEF AppendValidate, Appendable, Bound, ClosedInv
  <2> QED BY <2>1, <2>2 DEF Exists
<1>3. ASSUME NEW c \in Chapters, CloseValidate(u, c)
      PROVE  Exists(op[u].chapter)' /\ ~meta'[op'[u].chapter].closed
  <2>1. op'[u].chapter = c /\ meta' = meta
    BY <1>1, <1>3 DEF CloseValidate, Start, Unbound
  <2>2. Exists(c) /\ ~meta[c].closed
    BY <1>3, FinalRefuses DEF CloseValidate, Closable, Bound, ClosedInv
  <2> QED BY <2>1, <2>2 DEF Exists
<1>4. CASE \/ AppendAdmit(u) \/ AppendEventStep(u)
           \/ CloseCheck(u) \/ CloseEventStep(u)
  <2>1. op'[u] = op[u] /\ meta' = meta /\ pc[u] \in OpenSteps
    BY <1>4 DEF AppendAdmit, AppendEventStep, CloseCheck, CloseEventStep, Go,
                OpenSteps, SectionSteps, CloseSteps
  <2> QED BY <2>1 DEF ClosedInv, WorksOnOpen, Exists
<1>5. CASE AppendStateStep(u)
  <2> DEFINE c == op[u].chapter
  <2>1. op'[u] = op[u] /\ pc[u] \in OpenSteps /\ c \in Chapters
    BY <1>5 DEF AppendStateStep, Go, OpenSteps, SectionSteps, TypeInv,
                OperationsBound, ChapterSteps
  <2>2. Exists(c) /\ ~meta[c].closed
    BY <2>1 DEF ClosedInv, WorksOnOpen
  <2>3. meta'[c].closed = meta[c].closed
    BY <1>5, <2>1, <2>2
    DEF AppendStateStep, UpdateState, TypeInv, TypeOK, StoreTypeOK, MetaRow,
        Exists
  <2>4. Exists(c) => Exists(op[u].chapter)'
    <3>1. \A d \in Chapters : Exists(d) => Exists(d)'
      BY ClosedStays
    <3> QED BY <2>1, <3>1 DEF Exists
  <2> QED BY <2>1, <2>2, <2>3, <2>4
<1>6. /\ pc'[u] # "idle"
      /\ \A c, k : ~OpenEventStep(u, c, k)
      /\ \A batch : ~ImportCheck(u, batch)
  BY <1>1 DEF OpenEventStep, ImportCheck, Start, OpenSteps, SectionSteps,
              CloseSteps
<1> QED BY <1>2, <1>3, <1>4, <1>5, <1>6, SoloMoves DEF Forward

LEMMA ClosesToFinalStep ==
  ASSUME ClosesAreFinal, TypeInv, Next, ClosesToFinal
  PROVE  ClosesToFinal'
<1> SUFFICES ASSUME NEW u \in Cores, pc'[u] \in CloseSteps
             PROVE  op'[u].state \in FinalStates
  BY DEF ClosesToFinal, FinalStates
<1>1. pc \in [Cores -> Steps] /\ op \in [Cores -> Operation]
  BY DEF TypeInv, TypeOK
<1>2. ASSUME NEW c \in Chapters, CloseValidate(u, c)
      PROVE  op'[u].state \in FinalStates
  <2>1. PICK i \in DOMAIN SchemaOf(u, c).transitions :
          /\ Fires(SchemaOf(u, c), meta[c].state, "close_chapter", i)
          /\ Start(u, "close_check",
                [Unbound EXCEPT !.chapter = c, !.rule = SchemaOf(u, c),
                                !.row = i,
                                !.state = SchemaOf(u, c).transitions[i].to])
    BY <1>2 DEF CloseValidate
  <2>2. op'[u].state = SchemaOf(u, c).transitions[i].to
    BY <1>1, <2>1 DEF Start, Unbound
  <2>3. SchemaOf(u, c) \in Versions
    BY <1>2, SchemaOfType DEF CloseValidate, Closable
  <2> QED BY <2>1, <2>2, <2>3 DEF Fires, ClosesAreFinal
<1>3. CASE CloseCheck(u) \/ CloseEventStep(u)
  BY <1>3 DEF CloseCheck, CloseEventStep, Go, CloseSteps, ClosesToFinal
<1>4. CASE pc'[u] = pc[u] /\ op'[u] = op[u]
  BY <1>4 DEF ClosesToFinal
<1>5. /\ pc'[u] # "idle"
      /\ \A c, k : ~OpenEventStep(u, c, k)
      /\ \A c, s, b : ~AppendValidate(u, c, s, b)
      /\ ~AppendAdmit(u) /\ ~AppendEventStep(u) /\ ~AppendStateStep(u)
      /\ \A batch : ~ImportCheck(u, batch)
  BY <1>1 DEF OpenEventStep, AppendValidate, AppendAdmit, AppendEventStep,
              AppendStateStep, ImportCheck, Start, Go, CloseSteps
<1> QED BY <1>2, <1>3, <1>4, <1>5, Moves

(* No step touches the row of a closed chapter nobody works on.              *)
LEMMA RowLeftAlone ==
  ASSUME TypeInv, Next, NEW c \in Chapters, IsClosed(c),
         \A w \in Cores : pc[w] \in OpenSteps => op[w].chapter # c
  PROVE  meta'[c] = meta[c]
<1>1. meta \in [Chapters -> MetaRow \cup {NoRow}]
  BY DEF TypeInv, TypeOK, StoreTypeOK
<1>2. ASSUME NEW w \in Cores, OpenMetaStep(w)
      PROVE  meta'[c] = meta[c]
  BY <1>1, <1>2 DEF OpenMetaStep, InsertMeta, IsClosed, Exists
<1>3. ASSUME NEW w \in Cores, AppendStateStep(w) \/ CloseStateStep(w)
      PROVE  meta'[c] = meta[c]
  <2>1. c # op[w].chapter
    BY <1>3 DEF AppendStateStep, CloseStateStep, Go, OpenSteps, SectionSteps,
                CloseSteps
  <2> QED BY <1>1, <1>3, <2>1
          DEF AppendStateStep, CloseStateStep, UpdateState, UpdateClosed
<1>4. ASSUME NEW w \in Cores, ImportCommit(w)
      PROVE  meta'[c] = meta[c]
  BY <1>4 DEF ImportCommit, InsertImport, BatchInsertable, IsClosed
<1> QED BY <1>2, <1>3, <1>4, MetaSteps

LEMMA ClosedRowKept ==
  ASSUME TypeInv, Next, ClosedInv, NEW c \in Chapters, IsClosed(c)
  PROVE  meta'[c] = meta[c]
BY RowLeftAlone DEF ClosedInv, WorksOnOpen, IsClosed

LEMMA ClosedInFinalStep ==
  ASSUME ClosesAreFinal, TypeInv, Next, ClosedInv
  PROVE  ClosedInFinal'
<1> SUFFICES ASSUME NEW c \in Chapters, IsClosed(c)'
             PROVE  meta'[c].state \in FinalStates
  BY DEF ClosedInFinal, FinalStates
<1>1. meta \in [Chapters -> MetaRow \cup {NoRow}]
  BY DEF TypeInv, TypeOK, StoreTypeOK
<1>2. CASE IsClosed(c)
  BY <1>2, ClosedRowKept DEF ClosedInv, ClosedInFinal
<1>3. ASSUME ~IsClosed(c), meta'[c] # meta[c]
      PROVE  meta'[c].state \in FinalStates
  <2>1. ASSUME NEW w \in Cores, OpenMetaStep(w)
        PROVE  FALSE
    BY <1>1, <1>3, <2>1 DEF OpenMetaStep, InsertMeta, IsClosed
  <2>2. ASSUME NEW w \in Cores, AppendStateStep(w)
        PROVE  FALSE
    BY <1>1, <1>3, <2>2 DEF AppendStateStep, UpdateState, IsClosed, Exists,
                            MetaRow
  <2>3. ASSUME NEW w \in Cores, CloseStateStep(w)
        PROVE  meta'[c].state \in FinalStates
    <3>1. op[w].state \in FinalStates
      BY <2>3 DEF CloseStateStep, CloseSteps, ClosedInv, ClosesToFinal
    <3>2. c = op[w].chapter /\ Exists(c)
      BY <1>1, <1>3, <2>3 DEF CloseStateStep, UpdateClosed
    <3>3. meta'[c].state = op[w].state
      BY <1>1, <2>3, <3>2 DEF CloseStateStep, UpdateClosed, Exists, MetaRow
    <3> QED BY <3>1, <3>3
  <2>4. ASSUME NEW w \in Cores, ImportCommit(w)
        PROVE  meta'[c].state \in FinalStates
    BY <1>3, <2>4 DEF ImportCommit, InsertImport, ClosesAreFinal
  <2> QED BY <1>3, <2>1, <2>2, <2>3, <2>4, MetaSteps
<1> QED BY <1>2, <1>3 DEF IsClosed, Exists

LEMMA ClosedInvariant ==
  ASSUME SingleCore, ClosesAreFinal
  PROVE  Spec => []ClosedInv
<1>1. Init => ClosedInv
  BY DEF Init, StoreInit, ClosedInv, WorksOnOpen, ClosedInFinal,
         ClosesToFinal, OpenSteps, SectionSteps, CloseSteps, IsClosed, Exists
<1>2. TypeInv /\ [Next]_vars /\ ClosedInv => ClosedInv'
  <2> SUFFICES ASSUME TypeInv, [Next]_vars, ClosedInv
               PROVE  ClosedInv'
    OBVIOUS
  <2>1. CASE Next
    BY <2>1, WorksOnOpenStep, ClosedInFinalStep, ClosesToFinalStep DEF ClosedInv
  <2>2. CASE UNCHANGED vars
    BY <2>2 DEF vars, ClosedInv, WorksOnOpen, ClosedInFinal, ClosesToFinal,
                IsClosed, Exists, FinalStates
  <2> QED BY <2>1, <2>2
<1> QED BY <1>1, <1>2, TypeInvariant, PTL DEF Spec

(* An event of another stream, or an open, is no content of a chapter.       *)
LEMMA ForeignEvent ==
  ASSUME TypeInv, NEW e \in Event, InsertEvent(e), NEW c,
         e.stream # c \/ e.type = "open"
  PROVE  OwnContent(c)' = OwnContent(c)
<1>1. log \in Seq(Event)
  BY DEF TypeInv, TypeOK, StoreTypeOK
<1> QED BY <1>1, InsertFacts DEF OwnContent, Direct

(* Only a chapter some core appends to or closes is given content.           *)
LEMMA ContentLeftAlone ==
  ASSUME TypeInv, Next, NEW c \in Chapters,
         \A w \in Cores : pc[w] \in OpenSteps => op[w].chapter # c
  PROVE  OwnContent(c)' = OwnContent(c)
<1>1. ASSUME NEW w \in Cores, NEW d \in Chapters, NEW k \in SchemaIds,
             OpenEventStep(w, d, k)
      PROVE  OwnContent(c)' = OwnContent(c)
  <2>1. OpenEvent(d) \in Event /\ OpenEvent(d).type = "open"
    BY DEF OpenEvent, Event
  <2> QED BY <1>1, <2>1, ForeignEvent DEF OpenEventStep, Insert
<1>2. ASSUME NEW w \in Cores, AppendEventStep(w)
      PROVE  OwnContent(c)' = OwnContent(c)
  <2> DEFINE e == SectionEvent(op[w].chapter, op[w].section, op[w].blank)
  <2>1. e \in Event /\ e.stream = op[w].chapter
    BY <1>2 DEF AppendEventStep, Go, TypeInv, TypeOK, OperationsBound,
                ChapterSteps, SectionSteps, Operation, SectionEvent, Event
  <2>2. op[w].chapter # c
    BY <1>2 DEF AppendEventStep, Go, OpenSteps, SectionSteps
  <2> QED BY <1>2, <2>1, <2>2, ForeignEvent DEF AppendEventStep, Insert
<1>3. ASSUME NEW w \in Cores, CloseEventStep(w)
      PROVE  OwnContent(c)' = OwnContent(c)
  <2>1. /\ CloseEvent(op[w].chapter) \in Event
        /\ CloseEvent(op[w].chapter).stream = op[w].chapter
    BY <1>3 DEF CloseEventStep, Go, TypeInv, OperationsBound, ChapterSteps,
                CloseEvent, Event
  <2>2. op[w].chapter # c
    BY <1>3 DEF CloseEventStep, Go, OpenSteps, CloseSteps
  <2> QED BY <1>3, <2>1, <2>2, ForeignEvent DEF CloseEventStep, Insert
<1>4. ASSUME NEW w \in Cores, ImportCommit(w)
      PROVE  OwnContent(c)' = OwnContent(c)
  <2>1. /\ ImportEvent(op[w].batch) \in Event
        /\ ImportEvent(op[w].batch).stream # c
    BY StoreAssumption DEF TypeInv, TypeOK, Operation, ImportEvent, Event
  <2> QED BY <1>4, <2>1, ForeignEvent DEF ImportCommit, InsertImport
<1>5. ASSUME log' = log
      PROVE  OwnContent(c)' = OwnContent(c)
  BY <1>5 DEF OwnContent, Direct
<1>6. \A w \in Cores : OpenMetaStep(w) \/ AppendStateStep(w)
                         \/ CloseStateStep(w) => log' = log
  BY DEF OpenMetaStep, AppendStateStep, CloseStateStep
<1> QED BY <1>1, <1>2, <1>3, <1>4, <1>5, <1>6, StoreSteps

LEMMA ContentKept ==
  ASSUME TypeInv, Next, ClosedInv, NEW c \in Chapters, IsClosed(c) \/ ~Exists(c)
  PROVE  OwnContent(c)' = OwnContent(c)
BY ContentLeftAlone DEF ClosedInv, WorksOnOpen, IsClosed

(* When no content is added, a replay shows the same rows, unless an open    *)
(* event is the first event of an imported chapter's own stream.             *)
LEMMA ReplayFrozen ==
  ASSUME TypeInv, Next, NEW c \in Chapters,
         OwnContent(c)' = OwnContent(c), Imports(c)' = Imports(c)
  PROVE  ContentFrozen(c)
<1>1. /\ DOMAIN log \subseteq DOMAIN log'
      /\ \A i \in DOMAIN log : log'[i] = log[i]
  BY LogGrows
<1>2. ContentEvents(c)' = ContentEvents(c)
  BY DEF ContentEvents
<1>3. /\ SectionRows(c) = {i \in OwnContent(c) : log[i].type = "section_append"}
      /\ SectionRows(c)' =
           {i \in OwnContent(c)' : log'[i].type = "section_append"}
      /\ OwnContent(c) \subseteq DOMAIN log
  BY DEF SectionRows, OwnContent, Direct
<1>4. SectionRows(c)' = SectionRows(c)
  BY <1>1, <1>3
<1>5. DirectRows(c)' = DirectRows(c)
  <2>1. SectionRows(c) \subseteq DOMAIN log
    BY <1>3
  <2> QED BY <1>1, <1>4, <2>1 DEF DirectRows
<1>6. Direct(c) # {} => Direct(c)' # {}
  BY StreamsGrow
<1>7. CASE Direct(c) # {}
  BY <1>2, <1>5, <1>6, <1>7 DEF ContentFrozen, ReplayRows
<1>8. CASE Direct(c) = {} /\ Direct(c)' = {}
  <2>1. ImportedRows(c)' = ImportedRows(c)
    <3>1. Imports(c) \subseteq DOMAIN log
      BY DEF Imports
    <3> QED BY <1>1, <3>1 DEF ImportedRows
  <2> QED BY <1>2, <1>8, <2>1 DEF ContentFrozen, ReplayRows
<1>9. CASE Direct(c) = {} /\ Direct(c)' # {}
  <2>1. OwnContent(c) = {}
    BY <1>9 DEF OwnContent
  <2>2. \A i \in Direct(c)' : log'[i].type = "open"
    BY <2>1 DEF OwnContent
  <2>3. CASE Imports(c) # {}
    BY <1>2, <1>9, <2>2, <2>3 DEF ContentFrozen, HiddenByOpen
  <2>4. CASE Imports(c) = {}
    <3>1. ImportedRows(c) = {}
      BY <2>4 DEF ImportedRows
    <3>2. DirectRows(c) = {}
      BY <1>9 DEF DirectRows, SectionRows
    <3> QED BY <1>2, <1>5, <1>9, <3>1, <3>2 DEF ContentFrozen, ReplayRows
  <2> QED BY <2>3, <2>4
<1> QED BY <1>7, <1>8, <1>9

(* Once closed_at is set, no call, failure or restart changes the row of a   *)
(* chapter, adds to its content, its own or imported, or changes what a      *)
(* replay shows of it, except that a refused open_chapter hides an import.   *)
(* Nothing in core.rs tests closed_at: it holds because the state the close  *)
(* stored admits nothing, and the primary key keeps other imports out.       *)
THEOREM ClosedFrozen ==
  ASSUME SingleCore, ClosesAreFinal
  PROVE  Spec => ClosedChaptersFrozen
<1> DEFINE Frozen ==
      \A c \in Chapters :
         IsClosed(c) => meta'[c] = meta[c] /\ ContentFrozen(c)
<1>1. TypeInv /\ ClosedInv /\ [Next]_vars => [Frozen]_vars
  <2> SUFFICES ASSUME TypeInv, ClosedInv, Next, NEW c \in Chapters, IsClosed(c)
               PROVE  meta'[c] = meta[c] /\ ContentFrozen(c)
    OBVIOUS
  <2>1. Imports(c)' = Imports(c)
    BY ImportsOfRowKept DEF IsClosed
  <2> QED BY <2>1, ClosedRowKept, ContentKept, ReplayFrozen
<1>2. Spec => [][Frozen]_vars
  <2> HIDE DEF Frozen
  <2> QED BY <1>1, TypeInvariant, ClosedInvariant, PTL DEF Spec
<1> QED BY <1>2 DEF ClosedChaptersFrozen

-----------------------------------------------------------------------------
(* Append-once. *)

(* A core about to insert a row of an append-once section has found none.    *)
OnceAdmitted ==
  \A w \in Cores :
     /\ pc[w] = "append_event"
     /\ op[w].rule # NoSchema
     /\ IsAppendOnce(op[w].rule, op[w].section)
     => ~HasSection(op[w].chapter, op[w].section)

LEMMA OnceAdmittedStep ==
  ASSUME SingleCore, TypeInv, Next, OnceAdmitted
  PROVE  OnceAdmitted'
<1> SUFFICES ASSUME NEW u \in Cores, pc'[u] = "append_event",
                    op'[u].rule # NoSchema,
                    IsAppendOnce(op'[u].rule, op'[u].section)
             PROVE  ~HasSection(op[u].chapter, op[u].section)'
  BY DEF OnceAdmitted, IsAppendOnce, Declares
<1>1. pc \in [Cores -> Steps] /\ op \in [Cores -> Operation]
  BY DEF TypeInv, TypeOK
<1>2. ASSUME NEW c \in Chapters, NEW s \in Sections, NEW b \in BOOLEAN,
             AppendValidate(u, c, s, b)
      PROVE  FALSE
  <2>1. PICK i \in DOMAIN SchemaOf(u, c).transitions :
          Start(u, IF IsAppendOnce(SchemaOf(u, c), s) THEN "append_admit"
                                                      ELSE "append_event",
                [Unbound EXCEPT !.chapter = c, !.section = s, !.blank = b,
                                !.rule = SchemaOf(u, c), !.row = i,
                                !.state = SchemaOf(u, c).transitions[i].to])
    BY <1>2 DEF AppendValidate
  <2>2. /\ op'[u].rule = SchemaOf(u, c)
        /\ op'[u].section = s
        /\ pc'[u] = IF IsAppendOnce(SchemaOf(u, c), s) THEN "append_admit"
                                                       ELSE "append_event"
    BY <1>1, <2>1 DEF Start, Unbound
  <2> QED BY <2>2
<1>3. CASE AppendAdmit(u)
  <2>1. /\ op'[u] = op[u] /\ log' = log
        /\ ~HasSection(op[u].chapter, op[u].section)
    BY <1>3 DEF AppendAdmit, Go
  <2> QED BY <2>1 DEF HasSection, SectionRows, Direct
<1>4. /\ pc'[u] # "idle"
      /\ \A c, k : ~OpenEventStep(u, c, k)
      /\ ~AppendEventStep(u) /\ ~AppendStateStep(u)
      /\ \A c : ~CloseValidate(u, c)
      /\ ~CloseCheck(u) /\ ~CloseEventStep(u)
      /\ \A batch : ~ImportCheck(u, batch)
  BY <1>1 DEF OpenEventStep, AppendEventStep, AppendStateStep, CloseValidate,
              CloseCheck, CloseEventStep, ImportCheck, Start, Go
<1> QED BY <1>2, <1>3, <1>4, SoloMoves DEF Forward

OnceInv == Recorded /\ OnceAdmitted /\ AppendOnceHonoured

(* An inserted row that follows no other row of its section is in order, and *)
(* so is any other event.                                                    *)
LEMMA OnceKept ==
  ASSUME TypeInv, OnceInv, NEW e \in Event,
         NEW v \in Versions \cup {NoSchema}, Insert(e, v),
         /\ e.type = "section_append"
         /\ v # NoSchema
         /\ IsAppendOnce(v, e.section)
         => ~HasSection(e.stream, e.section)
  PROVE  AppendOnceHonoured'
<1> DEFINE n == Len(log) + 1
<1>1. /\ log \in Seq(Event)
      /\ rules \in Seq(Versions \cup {NoSchema})
      /\ Len(rules) = Len(log)
  BY DEF TypeInv, TypeOK, StoreTypeOK, OnceInv, Recorded
<1>2. /\ DOMAIN log' = DOMAIN log \cup {n}
      /\ n \notin DOMAIN log
      /\ \A i \in DOMAIN log : log'[i] = log[i]
      /\ log'[n] = e
  BY <1>1, InsertFacts DEF Insert
<1>3. /\ \A i \in DOMAIN log : rules'[i] = rules[i]
      /\ rules'[n] = v
      /\ \A i \in DOMAIN log : i \in Nat /\ i < n
      /\ n \in Nat
  BY <1>1 DEF Insert
<1> HIDE DEF n
<1> SUFFICES ASSUME NEW i \in DOMAIN log', NEW j \in DOMAIN log',
                    log'[i].type = "section_append", rules'[i] # NoSchema,
                    IsAppendOnce(rules'[i], log'[i].section),
                    log'[j].stream = log'[i].stream,
                    log'[j].type = "section_append",
                    log'[j].section = log'[i].section
             PROVE  i <= j
  BY DEF AppendOnceHonoured, RowsOf, SectionRows, Direct, IsAppendOnce, Declares
<1>4. CASE i \in DOMAIN log /\ j \in DOMAIN log
  <2>1. /\ log[i].type = "section_append"
        /\ rules[i] # NoSchema
        /\ IsAppendOnce(rules[i], log[i].section)
        /\ j \in RowsOf(log[i].stream, log[i].section)
    BY <1>2, <1>3, <1>4 DEF RowsOf, SectionRows, Direct
  <2> QED BY <1>4, <2>1 DEF OnceInv, AppendOnceHonoured
<1>5. CASE j = n
  BY <1>2, <1>3, <1>5
<1>6. CASE i = n /\ j \in DOMAIN log
  <2>1. j \in SectionRows(e.stream) /\ log[j].section = e.section
    BY <1>2, <1>6 DEF SectionRows, Direct
  <2> QED BY <1>2, <1>3, <1>6, <2>1 DEF HasSection
<1> QED BY <1>2, <1>4, <1>5, <1>6

LEMMA AppendOnceHonouredStep ==
  ASSUME TypeInv, Next, OnceInv
  PROVE  AppendOnceHonoured'
<1>1. ASSUME NEW w \in Cores, NEW c \in Chapters, NEW k \in SchemaIds,
             OpenEventStep(w, c, k)
      PROVE  AppendOnceHonoured'
  <2>1. OpenEvent(c) \in Event /\ OpenEvent(c).type # "section_append"
    BY DEF OpenEvent, Event
  <2>2. Resolve(w, k) \in Versions
    BY <1>1, ResolveType DEF OpenEventStep, Openable, TypeInv, TypeOK
  <2> QED BY <1>1, <2>1, <2>2, OnceKept DEF OpenEventStep
<1>2. ASSUME NEW w \in Cores, AppendEventStep(w)
      PROVE  AppendOnceHonoured'
  <2> DEFINE e == SectionEvent(op[w].chapter, op[w].section, op[w].blank)
  <2>1. /\ e \in Event
        /\ e.stream = op[w].chapter
        /\ e.section = op[w].section
    BY <1>2 DEF AppendEventStep, Go, TypeInv, TypeOK, OperationsBound,
                ChapterSteps, SectionSteps, Operation, SectionEvent, Event
  <2>2. op[w].rule \in Versions \cup {NoSchema}
    BY DEF TypeInv, TypeOK, Operation
  <2>3. /\ Insert(e, op[w].rule)
        /\ /\ op[w].rule # NoSchema
           /\ IsAppendOnce(op[w].rule, e.section)
           => ~HasSection(e.stream, e.section)
    BY <1>2, <2>1 DEF AppendEventStep, Go, OnceInv, OnceAdmitted
  <2> HIDE DEF e
  <2> QED BY <2>1, <2>2, <2>3, OnceKept
<1>3. ASSUME NEW w \in Cores, CloseEventStep(w)
      PROVE  AppendOnceHonoured'
  <2>1. /\ CloseEvent(op[w].chapter) \in Event
        /\ CloseEvent(op[w].chapter).type # "section_append"
    BY <1>3 DEF CloseEventStep, Go, TypeInv, OperationsBound, ChapterSteps,
                CloseEvent, Event
  <2>2. op[w].rule \in Versions \cup {NoSchema}
    BY DEF TypeInv, TypeOK, Operation
  <2> QED BY <1>3, <2>1, <2>2, OnceKept DEF CloseEventStep
<1>4. ASSUME NEW w \in Cores, ImportCommit(w)
      PROVE  AppendOnceHonoured'
  <2>1. /\ ImportEvent(op[w].batch) \in Event
        /\ ImportEvent(op[w].batch).type # "section_append"
    BY DEF TypeInv, TypeOK, Operation, ImportEvent, Event
  <2>2. Insert(ImportEvent(op[w].batch), NoSchema)
    BY <1>4 DEF ImportCommit, InsertImport, Insert
  <2> QED BY <2>1, <2>2, OnceKept
<1>5. ASSUME log' = log, rules' = rules
      PROVE  AppendOnceHonoured'
  BY <1>5 DEF OnceInv, AppendOnceHonoured, RowsOf, SectionRows, Direct
<1>6. \A w \in Cores :
         OpenMetaStep(w) \/ AppendStateStep(w) \/ CloseStateStep(w)
           => log' = log /\ rules' = rules
  BY DEF OpenMetaStep, AppendStateStep, CloseStateStep
<1> QED BY <1>1, <1>2, <1>3, <1>4, <1>5, <1>6, StoreSteps

(* With one core, a row admitted under an append-once policy is the first of *)
(* its section: section_count, read before the INSERT, still holds at it,    *)
(* also after a crash or an error of an earlier call on the same section.    *)
THEOREM AppendOnceOnce ==
  ASSUME SingleCore
  PROVE  Spec => []AppendOnceHonoured
<1>1. Init => OnceInv
  BY DEF Init, StoreInit, OnceInv, Recorded, OnceAdmitted, AppendOnceHonoured
<1>2. TypeInv /\ [Next]_vars /\ OnceInv => OnceInv'
  <2> SUFFICES ASSUME TypeInv, [Next]_vars, OnceInv
               PROVE  OnceInv'
    OBVIOUS
  <2>1. CASE Next
    BY <2>1, RecordedStep, OnceAdmittedStep, AppendOnceHonouredStep DEF OnceInv
  <2>2. CASE UNCHANGED vars
    BY <2>2 DEF vars, OnceInv, Recorded, OnceAdmitted, AppendOnceHonoured,
                RowsOf, HasSection, SectionRows, Direct
  <2> QED BY <2>1, <2>2
<1>3. OnceInv => AppendOnceHonoured
  BY DEF OnceInv
<1> QED BY <1>1, <1>2, <1>3, TypeInvariant, PTL DEF Spec

-----------------------------------------------------------------------------
(* Chapter states. *)

(* A transition of v from one state to another that an append or a close     *)
(* would take.                                                               *)
Follows(v, from, to) ==
  \E on \in {"append_section", "close_chapter"} :
     \E i \in DOMAIN v.transitions :
        Fires(v, from, on, i) /\ v.transitions[i].to = to

BoundSteps ==
  {"append_admit", "append_event", "append_state"} \cup CloseSteps

(* The state a call will store follows the one its chapter is in now, in the *)
(* schema that is registered now: neither has changed since the lookup.      *)
Planned(w) ==
  /\ Bound(w, op[w].chapter)
  /\ Follows(SchemaOf(w, op[w].chapter), meta[op[w].chapter].state,
             op[w].state)

StatePlanned == \A w \in Cores : pc[w] \in BoundSteps => Planned(w)

LEMMA PlannedStart ==
  ASSUME TypeInv, NEW w \in Cores, NEW c \in Chapters,
         \/ CloseValidate(w, c)
         \/ \E s \in Sections, b \in BOOLEAN : AppendValidate(w, c, s, b)
  PROVE  /\ meta' = meta /\ l2' = l2 /\ op'[w].chapter = c
         /\ Bound(w, c)
         /\ Follows(SchemaOf(w, c), meta[c].state, op'[w].state)
<1>1. op \in [Cores -> Operation]
  BY DEF TypeInv, TypeOK
<1>2. CASE CloseValidate(w, c)
  <2>1. PICK i \in DOMAIN SchemaOf(w, c).transitions :
          /\ Fires(SchemaOf(w, c), meta[c].state, "close_chapter", i)
          /\ Start(w, "close_check",
                [Unbound EXCEPT !.chapter = c, !.rule = SchemaOf(w, c),
                                !.row = i,
                                !.state = SchemaOf(w, c).transitions[i].to])
    BY <1>2 DEF CloseValidate
  <2>2. /\ op'[w].chapter = c
        /\ op'[w].state = SchemaOf(w, c).transitions[i].to
    BY <1>1, <2>1 DEF Start, Unbound
  <2> QED BY <1>2, <2>1, <2>2 DEF Follows, CloseValidate, Closable
<1>3. ASSUME NEW s \in Sections, NEW b \in BOOLEAN, AppendValidate(w, c, s, b)
      PROVE  /\ meta' = meta /\ l2' = l2 /\ op'[w].chapter = c
             /\ Bound(w, c)
             /\ Follows(SchemaOf(w, c), meta[c].state, op'[w].state)
  <2> DEFINE v == SchemaOf(w, c)
  <2>1. PICK i \in DOMAIN v.transitions :
          /\ Fires(v, meta[c].state, "append_section", i)
          /\ Start(w, IF IsAppendOnce(v, s) THEN "append_admit"
                                            ELSE "append_event",
                [Unbound EXCEPT !.chapter = c, !.section = s, !.blank = b,
                                !.rule = v, !.row = i,
                                !.state = v.transitions[i].to])
    BY <1>3 DEF AppendValidate
  <2>2. /\ op'[w].chapter = c
        /\ op'[w].state = v.transitions[i].to
    BY <1>1, <2>1 DEF Start, Unbound
  <2> QED BY <1>3, <2>1, <2>2 DEF Follows, AppendValidate, Appendable
<1> QED BY <1>2, <1>3

LEMMA PlannedStep ==
  ASSUME SingleCore, TypeInv, Next, StatePlanned
  PROVE  StatePlanned'
<1> SUFFICES ASSUME NEW u \in Cores, pc'[u] \in BoundSteps
             PROVE  Planned(u)'
  BY DEF StatePlanned
<1>1. pc \in [Cores -> Steps] /\ op \in [Cores -> Operation]
  BY DEF TypeInv, TypeOK
<1>2. ASSUME NEW c \in Chapters,
             \/ \E s \in Sections, b \in BOOLEAN : AppendValidate(u, c, s, b)
             \/ CloseValidate(u, c)
      PROVE  Planned(u)'
  <2>1. /\ meta' = meta /\ l2' = l2 /\ op'[u].chapter = c
        /\ Bound(u, c)
        /\ Follows(SchemaOf(u, c), meta[c].state, op'[u].state)
    BY <1>2, PlannedStart
  <2> QED BY <2>1 DEF Planned, Bound, Exists, Known, SchemaOf, Resolve
<1>3. CASE \/ AppendAdmit(u) \/ AppendEventStep(u)
           \/ CloseCheck(u) \/ CloseEventStep(u)
  <2>1. /\ meta' = meta /\ l2' = l2 /\ op' = op /\ pc[u] \in BoundSteps
    BY <1>3 DEF AppendAdmit, AppendEventStep, CloseCheck, CloseEventStep, Go,
                BoundSteps, CloseSteps
  <2> QED BY <2>1 DEF StatePlanned, Planned, Bound, Exists, Known, SchemaOf,
                      Resolve
<1>4. /\ pc'[u] # "idle"
      /\ \A c, k : ~OpenEventStep(u, c, k)
      /\ ~AppendStateStep(u)
      /\ \A batch : ~ImportCheck(u, batch)
  BY <1>1 DEF OpenEventStep, AppendStateStep, ImportCheck, Start, Go,
              BoundSteps, CloseSteps
<1> QED BY <1>2, <1>3, <1>4, SoloMoves DEF Forward

LEMMA StateMoves ==
  ASSUME TypeInv, Next, StatePlanned,
         NEW c \in Chapters, Exists(c), meta'[c] # NoRow,
         meta'[c].state # meta[c].state
  PROVE  \E w \in Cores :
            /\ Bound(w, c)
            /\ Follows(SchemaOf(w, c), meta[c].state, meta'[c].state)
<1>1. meta \in [Chapters -> MetaRow \cup {NoRow}]
  BY DEF TypeInv, TypeOK, StoreTypeOK
<1>2. ASSUME NEW w \in Cores, OpenMetaStep(w) PROVE FALSE
  BY <1>1, <1>2 DEF OpenMetaStep, InsertMeta, Exists
<1>3. ASSUME NEW w \in Cores, ImportCommit(w) PROVE FALSE
  BY <1>3 DEF ImportCommit, InsertImport, BatchInsertable, Exists
<1>4. ASSUME NEW w \in Cores, AppendStateStep(w) \/ CloseStateStep(w)
      PROVE  /\ Bound(w, c)
             /\ Follows(SchemaOf(w, c), meta[c].state, meta'[c].state)
  <2>1. c = op[w].chapter
    BY <1>1, <1>4
    DEF AppendStateStep, CloseStateStep, UpdateState, UpdateClosed
  <2>2. meta'[c].state = op[w].state
    BY <1>1, <1>4, <2>1
    DEF AppendStateStep, CloseStateStep, UpdateState, UpdateClosed, Exists,
        MetaRow
  <2>3. pc[w] \in BoundSteps
    BY <1>4 DEF AppendStateStep, CloseStateStep, Go, BoundSteps, CloseSteps
  <2> QED BY <2>1, <2>2, <2>3 DEF StatePlanned, Planned
<1> QED BY <1>2, <1>3, <1>4, MetaSteps

(* With one core, a chapter's state moves only along a transition that fires *)
(* in the schema registered for its key at that moment: the state and the    *)
(* schema read by the lookup are still there when the UPDATE stores the      *)
(* successor, whatever failed before and whatever was loaded or forgotten    *)
(* between two calls.                                                        *)
THEOREM StatesFollow ==
  ASSUME SingleCore
  PROVE  Spec => StateFollowsSchema
<1> DEFINE Moved ==
      \A c \in Chapters :
         Exists(c) /\ meta'[c] # NoRow /\ meta'[c].state # meta[c].state =>
           \E w \in Cores, on \in {"append_section", "close_chapter"} :
              /\ Bound(w, c)
              /\ \E i \in DOMAIN SchemaOf(w, c).transitions :
                   /\ Fires(SchemaOf(w, c), meta[c].state, on, i)
                   /\ SchemaOf(w, c).transitions[i].to = meta'[c].state
<1>1. Init => StatePlanned
  BY DEF Init, StatePlanned, BoundSteps, CloseSteps
<1>2. TypeInv /\ StatePlanned /\ [Next]_vars => StatePlanned'
  <2>1. CASE UNCHANGED vars
    BY <2>1 DEF vars, StatePlanned, Planned, Bound, Exists, Known, SchemaOf,
                Resolve
  <2> QED BY <2>1, PlannedStep
<1>3. TypeInv /\ StatePlanned /\ [Next]_vars => [Moved]_vars
  BY StateMoves DEF Follows
<1>4. Spec => [][Moved]_vars
  <2> HIDE DEF Moved
  <2> QED BY <1>1, <1>2, <1>3, TypeInvariant, PTL DEF Spec
<1> QED BY <1>4 DEF StateFollowsSchema

-----------------------------------------------------------------------------
(* The refinement of Journal. *)

Status == [c \in Chapters |-> StatusOf(c)]

(* Rows are numbered within the bound of the abstract journal.               *)
Room ==
  \A w \in Cores :
     pc[w] \in {"append_admit", "append_event"} => Len(log) < MaxEvents

LEMMA RoomStep ==
  ASSUME SingleCore, TypeInv, Next, Room
  PROVE  Room'
<1> SUFFICES ASSUME NEW u \in Cores, pc'[u] \in {"append_admit", "append_event"}
             PROVE  Len(log') < MaxEvents
  BY DEF Room
<1>1. pc \in [Cores -> Steps]
  BY DEF TypeInv, TypeOK
<1>2. ASSUME NEW c \in Chapters, NEW s \in Sections, NEW b \in BOOLEAN,
             AppendValidate(u, c, s, b)
      PROVE  Len(log') < MaxEvents
  BY <1>2 DEF AppendValidate, Ready
<1>3. CASE AppendAdmit(u)
  BY <1>3 DEF AppendAdmit, Go, Room
<1>4. /\ pc'[u] # "idle"
      /\ \A c, k : ~OpenEventStep(u, c, k)
      /\ ~AppendEventStep(u) /\ ~AppendStateStep(u)
      /\ \A c : ~CloseValidate(u, c)
      /\ ~CloseCheck(u) /\ ~CloseEventStep(u)
      /\ \A batch : ~ImportCheck(u, batch)
  BY <1>1 DEF OpenEventStep, AppendEventStep, AppendStateStep, CloseValidate,
              CloseCheck, CloseEventStep, ImportCheck, Start, Go
<1> QED BY <1>2, <1>3, <1>4, SoloMoves DEF Forward

LEMMA NoRowAdded ==
  ASSUME TypeInv, NEW e \in Event, InsertEvent(e), e.type # "section_append"
  PROVE  AllRows' = AllRows
<1>1. log \in Seq(Event)
  BY DEF TypeInv, TypeOK, StoreTypeOK
<1> QED BY <1>1, InsertFacts DEF AllRows

LEMMA SameRows ==
  ASSUME log' = log
  PROVE  AllRows' = AllRows
BY DEF AllRows

LEMMA SameStatus ==
  ASSUME meta' = meta
  PROVE  Status' = Status
BY DEF Status, StatusOf, Exists

LEMMA RefinesOpen ==
  ASSUME TypeInv, NEW w \in Cores, OpenMetaStep(w)
  PROVE  \E c \in Chapters : Abstract!OpenNew(c)
<1> DEFINE c == op[w].chapter
<1>1. c \in Chapters
  BY DEF OpenMetaStep, TypeInv, OperationsBound, ChapterSteps
<1>2. meta \in [Chapters -> MetaRow \cup {NoRow}] /\ log' = log
  BY DEF TypeInv, TypeOK, StoreTypeOK, OpenMetaStep
<1>3. /\ ~Exists(c)
      /\ meta'[c].closed = FALSE
      /\ meta'[c] \in MetaRow
      /\ \A d \in Chapters : d # c => meta'[d] = meta[d]
  BY <1>1, <1>2
  DEF OpenMetaStep, InsertMeta, TypeInv, TypeOK, Operation, MetaRow
<1>4. meta'[c] # NoRow
  BY <1>3, StoreAssumption
<1> HIDE DEF c
<1>5. Status[c] = "absent"
  BY <1>1, <1>3 DEF Status, StatusOf
<1>6. Status' = [Status EXCEPT ![c] = "open"]
  <2>1. \A d \in Chapters :
           Status'[d] = IF d = c THEN "open" ELSE Status[d]
    BY <1>3, <1>4 DEF Status, StatusOf, Exists
  <2> QED BY <1>1, <2>1 DEF Status
<1>7. AllRows' = AllRows
  BY <1>2, SameRows
<1>8. Abstract!OpenNew(c)
  BY <1>5, <1>6, <1>7 DEF Abstract!OpenNew, Status
<1> QED BY <1>1, <1>8

(* An append adds its row after all others. *)
LEMMA RowAdded ==
  ASSUME TypeInv, NEW w \in Cores, AppendEventStep(w)
  PROVE  /\ op[w].chapter \in Chapters
         /\ op[w].section \in Sections
         /\ op[w].blank \in BOOLEAN
         /\ meta' = meta
         /\ \A r \in AllRows : r.event < Len(log) + 1
         /\ AllRows' = AllRows \cup
                         {[event |-> Len(log) + 1, chapter |-> op[w].chapter,
                           section |-> op[w].section, blank |-> op[w].blank]}
<1> DEFINE c == op[w].chapter
           s == op[w].section
           b == op[w].blank
           n == Len(log) + 1
           r == [event |-> n, chapter |-> c, section |-> s, blank |-> b]
<1>1. c \in Chapters /\ s \in Sections /\ b \in BOOLEAN
  BY DEF AppendEventStep, Go, TypeInv, TypeOK, OperationsBound, ChapterSteps,
         SectionSteps, Operation
<1>2. log \in Seq(Event) /\ SectionEvent(c, s, b) \in Event
  BY <1>1 DEF TypeInv, TypeOK, StoreTypeOK, SectionEvent, Event
<1>3. InsertEvent(SectionEvent(c, s, b)) /\ meta' = meta
  BY DEF AppendEventStep, Insert
<1>4. /\ DOMAIN log' = DOMAIN log \cup {n}
      /\ n \notin DOMAIN log
      /\ \A i \in DOMAIN log : log'[i] = log[i]
      /\ log'[n] = SectionEvent(c, s, b)
  BY <1>2, <1>3, InsertFacts
<1>5. \A i \in DOMAIN log : i < n
  BY <1>2
<1> HIDE DEF c, s, b, n
<1>6. AllRows' = AllRows \cup {r}
  <2>1. /\ log'[n].type = "section_append"
        /\ log'[n].stream = c
        /\ log'[n].section = s
        /\ log'[n].blank = b
    BY <1>4 DEF SectionEvent
  <2> QED BY <1>4, <2>1 DEF AllRows
<1>7. \A q \in AllRows : q.event < n
  BY <1>5 DEF AllRows
<1> QED BY <1>1, <1>3, <1>6, <1>7 DEF c, s, b, n

LEMMA RefinesAppend ==
  ASSUME TypeInv, ClosedInv, Room, NEW w \in Cores, AppendEventStep(w)
  PROVE  Abstract!JournalNext
<1> DEFINE c == op[w].chapter
           s == op[w].section
           b == op[w].blank
           n == Len(log) + 1
<1>1. Exists(c) /\ ~meta[c].closed
  BY DEF AppendEventStep, Go, ClosedInv, WorksOnOpen, OpenSteps, SectionSteps
<1>2. n \in 1 .. MaxEvents
  <2>1. Len(log) \in Nat
    BY DEF TypeInv, TypeOK, StoreTypeOK
  <2>2. Len(log) < MaxEvents
    BY DEF AppendEventStep, Go, Room
  <2> QED BY <2>1, <2>2, CoreAssumption
<1> HIDE DEF n
<1>3. /\ c \in Chapters /\ s \in Sections /\ b \in BOOLEAN
      /\ meta' = meta
      /\ \A q \in AllRows : q.event < n
      /\ AllRows' = AllRows \cup {[event |-> n, chapter |-> c, section |-> s,
                                   blank |-> b]}
  BY RowAdded DEF n
<1>4. Status[c] = "open" /\ Status' = Status
  BY <1>1, <1>3, SameStatus DEF Status, StatusOf
<1> HIDE DEF c, s, b
<1>5. Abstract!AddRow(c, s, b)
  BY <1>2, <1>3, <1>4 DEF Abstract!AddRow, Abstract!NewRow, Status
<1> QED BY <1>3, <1>5 DEF Abstract!JournalNext

(* What a close does to the abstract journal, and what it found.             *)
LEMMA CloseEffect ==
  ASSUME TypeInv, CloseAdmitted, NEW w \in Cores, CloseStateStep(w),
         Exists(op[w].chapter)
  PROVE  /\ op[w].chapter \in Chapters
         /\ \E q \in CloseDemands : Abstract!Satisfied(q, op[w].chapter)
         /\ Status' = [Status EXCEPT ![op[w].chapter] = "closed"]
         /\ AllRows' = AllRows
<1> DEFINE c == op[w].chapter
           t == op[w].rule.transitions[op[w].row]
           q == [present |-> t.present, nonEmpty |-> t.nonEmpty]
<1>1. c \in Chapters
  BY DEF CloseStateStep, TypeInv, OperationsBound, ChapterSteps
<1>2. /\ op[w].rule \in Versions
      /\ op[w].row \in DOMAIN op[w].rule.transitions
      /\ t.on = "close_chapter"
      /\ RowsSatisfy(t, DirectRows(c))
  BY DEF CloseAdmitted, CloseSteps, CloseStateStep
<1>3. meta \in [Chapters -> MetaRow \cup {NoRow}] /\ log' = log
  BY DEF TypeInv, TypeOK, StoreTypeOK, CloseStateStep
<1>4. /\ meta'[c] # NoRow
      /\ meta'[c].closed
      /\ \A d \in Chapters : d # c => meta'[d] = meta[d]
  <2>1. meta'[c] = [meta[c] EXCEPT !.state = op[w].state, !.closed = TRUE]
    BY <1>1, <1>3 DEF CloseStateStep, UpdateClosed
  <2>2. meta[c] \in MetaRow /\ op[w].state \in States
    BY <1>1, <1>3 DEF Exists, TypeInv, TypeOK, Operation
  <2>3. meta'[c] \in MetaRow /\ meta'[c].closed
    BY <2>1, <2>2 DEF MetaRow
  <2>4. meta'[c] # NoRow
    BY <2>3, StoreAssumption
  <2>5. \A d \in Chapters : d # c => meta'[d] = meta[d]
    BY <1>3 DEF CloseStateStep, UpdateClosed
  <2> QED BY <2>3, <2>4, <2>5
<1>5. q \in CloseDemands
  BY <1>2 DEF CloseDemands
<1>6. \A x \in DirectRows(c) :
         \E r \in AllRows : /\ r.chapter = c
                            /\ r.section = x.section
                            /\ r.blank = x.blank
  <2> SUFFICES ASSUME NEW i \in SectionRows(c)
               PROVE  \E r \in AllRows : /\ r.chapter = c
                                         /\ r.section = log[i].section
                                         /\ r.blank = log[i].blank
    BY DEF DirectRows
  <2> DEFINE r == [event |-> i, chapter |-> log[i].stream,
                   section |-> log[i].section, blank |-> log[i].blank]
  <2>1. r \in AllRows
    BY DEF SectionRows, Direct, AllRows
  <2>2. log[i].stream = c
    BY DEF SectionRows, Direct
  <2> QED BY <2>1, <2>2
<1>7. Abstract!Satisfied(q, c)
  BY <1>2, <1>6 DEF Abstract!Satisfied, RowsSatisfy
<1>8. Status' = [Status EXCEPT ![c] = "closed"]
  <2> HIDE DEF c
  <2>1. \A d \in Chapters :
           Status'[d] = IF d = c THEN "closed" ELSE Status[d]
    BY <1>4 DEF Status, StatusOf, Exists
  <2> QED BY <1>1, <2>1 DEF Status
<1>9. AllRows' = AllRows
  BY <1>3, SameRows
<1> QED BY <1>1, <1>5, <1>7, <1>8, <1>9

LEMMA RefinesClose ==
  ASSUME TypeInv, ClosedInv, CloseAdmitted, NEW w \in Cores, CloseStateStep(w)
  PROVE  Abstract!JournalNext
<1> DEFINE c == op[w].chapter
<1>1. Exists(c) /\ ~meta[c].closed
  BY DEF CloseStateStep, ClosedInv, WorksOnOpen, OpenSteps, CloseSteps
<1>2. /\ c \in Chapters
      /\ \E q \in CloseDemands : Abstract!Satisfied(q, c)
      /\ Status' = [Status EXCEPT ![c] = "closed"]
      /\ AllRows' = AllRows
  BY <1>1, CloseEffect
<1>3. Status[c] = "open"
  BY <1>1, <1>2 DEF Status, StatusOf
<1> HIDE DEF c
<1>4. Abstract!CloseComplete(c)
  BY <1>2, <1>3 DEF Abstract!CloseComplete, Status
<1> QED BY <1>2, <1>4 DEF Abstract!JournalNext

LEMMA RefinesImport ==
  ASSUME TypeInv, NEW w \in Cores, ImportCommit(w)
  PROVE  \E C \in SUBSET Chapters : Abstract!ImportAll(C)
<1> DEFINE C == BatchIds(op[w].batch)
<1>1. C \in SUBSET Chapters /\ \A c \in C : ~Exists(c)
  BY DEF BatchIds, ImportCommit, InsertImport, BatchInsertable
<1>2. AllRows' = AllRows
  <2>1. /\ ImportEvent(op[w].batch) \in Event
        /\ ImportEvent(op[w].batch).type # "section_append"
    BY DEF TypeInv, TypeOK, Operation, ImportEvent, Event
  <2> QED BY <2>1, NoRowAdded DEF ImportCommit, InsertImport
<1>3. \A c \in Chapters :
         Status'[c] = IF c \in C THEN "closed" ELSE Status[c]
  <2>1. \A c \in C : meta'[c] \in MetaRow /\ meta'[c].closed
    BY <1>1, StoreAssumption DEF ImportCommit, InsertImport, MetaRow
  <2>2. \A c \in C : meta'[c] # NoRow
    BY <2>1, StoreAssumption
  <2>3. \A c \in Chapters : c \notin C => meta'[c] = meta[c]
    BY DEF ImportCommit, InsertImport
  <2> HIDE DEF C
  <2> QED BY <1>1, <2>1, <2>2, <2>3 DEF Status, StatusOf, Exists
<1>4. \A c \in C : Status[c] = "absent"
  BY <1>1 DEF Status, StatusOf
<1> HIDE DEF C
<1>5. Abstract!ImportAll(C)
  <2>1. Status' = [c \in Chapters |-> IF c \in C THEN "closed" ELSE Status[c]]
    BY <1>3 DEF Status
  <2> QED BY <1>2, <1>4, <2>1 DEF Abstract!ImportAll, Status
<1> QED BY <1>1, <1>5

(* All the other steps are stutters of the abstract journal.                 *)
LEMMA Stutters ==
  ASSUME TypeInv, [Next]_vars
  PROVE  \/ UNCHANGED <<Status, AllRows>>
         \/ \E w \in Cores : \/ OpenMetaStep(w) \/ AppendEventStep(w)
                              \/ CloseStateStep(w) \/ ImportCommit(w)
<1>1. ASSUME meta' = meta, AllRows' = AllRows
      PROVE  UNCHANGED <<Status, AllRows>>
  BY <1>1, SameStatus
<1>2. ASSUME NEW w \in Cores, NEW c \in Chapters, NEW k \in SchemaIds,
             OpenEventStep(w, c, k)
      PROVE  UNCHANGED <<Status, AllRows>>
  <2>1. OpenEvent(c) \in Event /\ OpenEvent(c).type # "section_append"
    BY DEF OpenEvent, Event
  <2> QED BY <1>1, <1>2, <2>1, NoRowAdded DEF OpenEventStep, Insert
<1>3. ASSUME NEW w \in Cores, CloseEventStep(w)
      PROVE  UNCHANGED <<Status, AllRows>>
  <2>1. /\ CloseEvent(op[w].chapter) \in Event
        /\ CloseEvent(op[w].chapter).type # "section_append"
    BY <1>3 DEF CloseEventStep, Go, TypeInv, OperationsBound, ChapterSteps,
                CloseEvent, Event
  <2> QED BY <1>1, <1>3, <2>1, NoRowAdded DEF CloseEventStep, Insert
<1>4. ASSUME NEW w \in Cores, AppendStateStep(w)
      PROVE  UNCHANGED <<Status, AllRows>>
  <2>1. AllRows' = AllRows
    BY <1>4, SameRows DEF AppendStateStep
  <2>2. \A d \in Chapters : meta[d] # NoRow =>
           meta'[d] # NoRow /\ meta'[d].closed = meta[d].closed
    <3>1. meta \in [Chapters -> MetaRow \cup {NoRow}]
      BY DEF TypeInv, TypeOK, StoreTypeOK
    <3>2. meta' \in [Chapters -> MetaRow \cup {NoRow}]
      BY <1>4, TypeStep DEF TypeInv, TypeOK, StoreTypeOK, Next, AppendSection
    <3>3. \A d \in Chapters : meta[d] # NoRow =>
             meta[d] \in MetaRow /\ meta'[d].closed = meta[d].closed
      BY <1>4, <3>1 DEF AppendStateStep, UpdateState, MetaRow
    <3>4. op[w].state \in States
      BY DEF TypeInv, TypeOK, Operation
    <3>5. \A d \in Chapters : meta[d] # NoRow => meta'[d] \in MetaRow
      BY <1>4, <3>1, <3>4 DEF AppendStateStep, UpdateState, MetaRow
    <3> QED BY <3>3, <3>5, StoreAssumption
  <2>3. \A d \in Chapters : meta[d] = NoRow => meta'[d] = NoRow
    BY <1>4 DEF AppendStateStep, UpdateState, Exists, TypeInv, TypeOK,
                StoreTypeOK
  <2>4. Status' = Status
    BY <2>2, <2>3 DEF Status, StatusOf, Exists
  <2> QED BY <2>1, <2>4
<1>5. CASE Next
  <2>1. ASSUME log' = log, meta' = meta
        PROVE  UNCHANGED <<Status, AllRows>>
    BY <1>1, <2>1, SameRows
  <2> QED BY <1>2, <1>3, <1>4, <1>5, <2>1, StoreSteps
<1>6. CASE UNCHANGED vars
  BY <1>1, <1>6, SameRows DEF vars
<1> QED BY <1>5, <1>6

LEMMA RefinesStep ==
  ASSUME TypeInv, ClosedInv, CloseAdmitted, Room, [Next]_vars
  PROVE  Abstract!JournalNext \/ UNCHANGED <<Status, AllRows>>
BY Stutters, RefinesOpen, RefinesAppend, RefinesClose, RefinesImport
DEF Abstract!JournalNext

(* One core implements the abstract journal: a chapter is opened once, takes *)
(* rows only while it is open, is closed only when its rows satisfy a close  *)
(* transition, is then frozen, and an import creates all its chapters or     *)
(* none - every intermediate commit, crash and error is a stutter.           *)
THEOREM JournalImplemented ==
  ASSUME SingleCore, ClosesAreFinal
  PROVE  Spec => ImplementsJournal
<1>1. ImportsAreFinal
  BY DEF ClosesAreFinal, FinalStates, ImportsAreFinal
<1> DEFINE Inv == Recorded /\ StreamsOpened /\ CloseAdmitted /\ Room
<1>2. Init => Inv
  BY DEF Init, StoreInit, Recorded, StreamsOpened, CloseAdmitted, Room,
         Exists, StreamSteps, CloseSteps
<1>3. TypeInv /\ [Next]_vars /\ Inv => Inv'
  <2> SUFFICES ASSUME TypeInv, [Next]_vars, Inv
               PROVE  Inv'
    OBVIOUS
  <2>1. CASE Next
    BY <1>1, <2>1, RecordedStep, StreamsOpenedStep, CloseAdmittedStep, RoomStep
  <2>2. CASE UNCHANGED vars
    <3>1. log' = log /\ meta' = meta /\ rules' = rules /\ pc' = pc /\ op' = op
      BY <2>2 DEF vars
    <3>2. /\ \A c : Direct(c)' = Direct(c)
          /\ \A c : DirectRows(c)' = DirectRows(c)
      BY <3>1 DEF DirectRows, SectionRows, Direct
    <3> QED BY <3>1, <3>2
            DEF Recorded, StreamsOpened, CloseAdmitted, Room, Exists
  <2> QED BY <2>1, <2>2
<1>4. Init => Abstract!JournalInit
  BY DEF Init, StoreInit, Abstract!JournalInit, StatusOf, Exists, AllRows
<1>5. TypeInv /\ ClosedInv /\ Inv /\ [Next]_vars
        => [Abstract!JournalNext]_(Abstract!jvars)
  BY RefinesStep DEF Abstract!jvars, Status
<1> HIDE DEF Inv
<1>6. Spec => Abstract!JournalSpec
  BY <1>2, <1>3, <1>4, <1>5, TypeInvariant, ClosedInvariant, PTL
  DEF Spec, Abstract!JournalSpec
<1> QED BY <1>6 DEF ImplementsJournal
=============================================================================
