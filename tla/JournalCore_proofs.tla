-------------------------- MODULE JournalCore_proofs --------------------------
(* Theorems about JournalCore, for every value of its constants.             *)
EXTENDS JournalCore, TLAPS

(* The steps that act on a chapter, and the steps that act on a section.     *)
SectionSteps == {"append_admit", "append_event", "append_state", "dispatch"}
ChapterSteps ==
  SectionSteps \cup {"open_meta", "close_check", "close_event", "close_state"}

(* An operation past its first step names the chapter and the section it     *)
(* acts on.                                                                  *)
OperationsBound ==
  \A w \in Cores :
     /\ pc[w] \in ChapterSteps => op[w].chapter \in Chapters
     /\ pc[w] \in SectionSteps => op[w].section \in Sections

TypeInv == TypeOK /\ OperationsBound

-----------------------------------------------------------------------------
(* What the constants give. *)

LEMMA UnboundType == Unbound \in Operation
BY StoreAssumption DEF Unbound, Operation

LEMMA ResolveType ==
  ASSUME RegistryTypeOK, NEW w \in Cores, NEW k \in SchemaIds, Known(w, k)
  PROVE  Resolve(w, k) \in Versions /\ IsSchema(Resolve(w, k))
BY RegistryAssumption DEF RegistryTypeOK, Known, Resolve

LEMMA EventTypes ==
  ASSUME NEW c \in Chapters, NEW s \in Sections, NEW b \in BOOLEAN,
         NEW batch \in Seq(ImportEntry)
  PROVE  /\ OpenEvent(c) \in Event
         /\ CloseEvent(c) \in Event
         /\ SectionEvent(c, s, b) \in Event
         /\ ImportEvent(batch) \in Event
BY DEF OpenEvent, CloseEvent, SectionEvent, ImportEvent, Event

LEMMA TransitionType ==
  ASSUME NEW v, IsSchema(v), NEW i \in DOMAIN v.transitions
  PROVE  i \in Nat /\ v.transitions[i] \in Transition
BY DEF IsSchema
-----------------------------------------------------------------------------
(* Type correctness. *)

LEMMA TypeInit == Init => TypeInv
BY UnboundType, RegistryAssumption
DEF Init, StoreInit, RegistryInit, TypeInv, TypeOK, StoreTypeOK,
    RegistryTypeOK, OperationsBound, ChapterSteps, SectionSteps, Steps

(* Returning to idle forgets the operation. *)
LEMMA ReturnTypes ==
  ASSUME TypeInv, NEW w \in Cores, Return(w)
  PROVE  /\ pc' \in [Cores -> Steps]
         /\ op' \in [Cores -> Operation]
         /\ OperationsBound'
BY UnboundType
DEF TypeInv, TypeOK, Return, OperationsBound, ChapterSteps, SectionSteps, Steps

(* Going on keeps the operation, within the same kind of step. *)
LEMMA GoTypes ==
  ASSUME TypeInv, NEW w \in Cores, NEW from \in ChapterSteps,
         NEW to \in ChapterSteps,
         to \in SectionSteps => from \in SectionSteps, Go(w, from, to)
  PROVE  /\ pc' \in [Cores -> Steps]
         /\ op' \in [Cores -> Operation]
         /\ OperationsBound'
BY DEF TypeInv, TypeOK, Go, OperationsBound, ChapterSteps, SectionSteps, Steps

(* A first step stores an operation that names what it acts on. *)
LEMMA StartTypes ==
  ASSUME TypeInv, NEW w \in Cores, NEW step \in Steps, NEW o \in Operation,
         step \in ChapterSteps => o.chapter \in Chapters,
         step \in SectionSteps => o.section \in Sections,
         Start(w, step, o)
  PROVE  /\ pc' \in [Cores -> Steps]
         /\ op' \in [Cores -> Operation]
         /\ OperationsBound'
BY DEF TypeInv, TypeOK, Start, OperationsBound, ChapterSteps, SectionSteps

LEMMA UpdateTypes ==
  ASSUME StoreTypeOK, NEW c \in Chapters, NEW k \in SchemaIds,
         NEW state \in States,
         \/ UpdateState(c, state)
         \/ UpdateClosed(c, state)
         \/ InsertMeta(c, k, state)
  PROVE  meta' \in [Chapters -> MetaRow \cup {NoRow}]
<1> USE DEF StoreTypeOK, Exists
<1>1. CASE UpdateState(c, state)
  <2>1. Exists(c) => [meta[c] EXCEPT !.state = state] \in MetaRow
    BY DEF MetaRow
  <2> QED BY <1>1, <2>1 DEF UpdateState
<1>2. CASE UpdateClosed(c, state)
  <2>1. Exists(c) =>
          [meta[c] EXCEPT !.state = state, !.closed = TRUE] \in MetaRow
    BY DEF MetaRow
  <2> QED BY <1>2, <2>1 DEF UpdateClosed
<1>3. CASE InsertMeta(c, k, state)
  BY <1>3 DEF InsertMeta, MetaRow
<1> QED BY <1>1, <1>2, <1>3

LEMMA InsertTypes ==
  ASSUME TypeInv, NEW e \in Event, NEW v \in Versions \cup {NoSchema},
         Insert(e, v)
  PROVE  /\ log' \in Seq(Event)
         /\ rules' \in Seq(Versions \cup {NoSchema})
BY DEF TypeInv, TypeOK, StoreTypeOK, Insert, InsertEvent

LEMMA TypeOpenChapter ==
  ASSUME TypeInv, NEW w \in Cores, OpenChapter(w)
  PROVE  TypeInv'
<1>1. ASSUME NEW c \in Chapters, NEW k \in SchemaIds, OpenEventStep(w, c, k)
      PROVE  TypeInv'
  <2> DEFINE o == [Unbound EXCEPT !.chapter = c, !.schema = k,
                                  !.rule = Resolve(w, k),
                                  !.state = Resolve(w, k).initial]
  <2>1. Resolve(w, k) \in Versions /\ Resolve(w, k).initial \in States
    BY <1>1, ResolveType DEF TypeInv, TypeOK, OpenEventStep, Openable, IsSchema
  <2>2. o \in Operation /\ o.chapter = c
    BY <2>1, UnboundType DEF Operation, Unbound
  <2>3. Start(w, "open_meta", o)
    BY <1>1 DEF OpenEventStep
  <2>4. /\ log' \in Seq(Event)
        /\ rules' \in Seq(Versions \cup {NoSchema})
    <3>1. OpenEvent(c) \in Event
      BY DEF OpenEvent, Event
    <3> QED BY <1>1, <2>1, <3>1, InsertTypes DEF OpenEventStep
  <2>5. /\ pc' \in [Cores -> Steps]
        /\ op' \in [Cores -> Operation]
        /\ OperationsBound'
    <3> HIDE DEF o
    <3> QED BY <2>2, <2>3, StartTypes DEF Steps, ChapterSteps, SectionSteps
  <2> QED BY <1>1, <2>4, <2>5
          DEF TypeInv, TypeOK, StoreTypeOK, RegistryTypeOK, OpenEventStep
<1>2. CASE OpenMetaStep(w)
  <2>1. /\ op[w].chapter \in Chapters
        /\ op[w].schema \in SchemaIds
        /\ op[w].state \in States
    BY <1>2 DEF OpenMetaStep, TypeInv, TypeOK, OperationsBound, ChapterSteps,
                Operation
  <2>2. meta' \in [Chapters -> MetaRow \cup {NoRow}]
    BY <1>2, <2>1, UpdateTypes DEF OpenMetaStep, TypeInv, TypeOK
  <2> QED BY <1>2, <2>2, ReturnTypes
          DEF OpenMetaStep, TypeInv, TypeOK, StoreTypeOK, RegistryTypeOK
<1>3. CASE OpenConflict(w)
  BY <1>3, ReturnTypes
  DEF OpenConflict, TypeInv, TypeOK, StoreTypeOK, RegistryTypeOK
<1> QED BY <1>1, <1>2, <1>3 DEF OpenChapter

LEMMA TypeAppendSection ==
  ASSUME TypeInv, NEW w \in Cores, AppendSection(w)
  PROVE  TypeInv'
<1>1. ASSUME NEW c \in Chapters, NEW s \in Sections, NEW b \in BOOLEAN,
             AppendValidate(w, c, s, b)
      PROVE  TypeInv'
  <2>1. PICK i \in DOMAIN SchemaOf(w, c).transitions :
          Start(w, IF IsAppendOnce(SchemaOf(w, c), s) THEN "append_admit"
                                                      ELSE "append_event",
                [Unbound EXCEPT !.chapter = c, !.section = s, !.blank = b,
                                !.rule = SchemaOf(w, c), !.row = i,
                                !.state = SchemaOf(w, c).transitions[i].to])
    BY <1>1 DEF AppendValidate
  <2> DEFINE v == SchemaOf(w, c)
             o == [Unbound EXCEPT !.chapter = c, !.section = s, !.blank = b,
                                  !.rule = v, !.row = i,
                                  !.state = v.transitions[i].to]
             step == IF IsAppendOnce(v, s) THEN "append_admit"
                                           ELSE "append_event"
  <2>2. v \in Versions /\ IsSchema(v)
    <3>1. meta[c].schema \in SchemaIds
      BY <1>1 DEF AppendValidate, Appendable, Bound, Exists, TypeInv, TypeOK,
                  StoreTypeOK, MetaRow
    <3> QED BY <1>1, <3>1, ResolveType
            DEF AppendValidate, Appendable, Bound, SchemaOf, TypeInv, TypeOK
  <2>3. i \in Nat /\ v.transitions[i].to \in States
    <3> HIDE DEF v
    <3>1. i \in DOMAIN v.transitions
      BY <2>1 DEF v
    <3> QED BY <2>2, <3>1, TransitionType DEF Transition
  <2>4. o \in Operation /\ o.chapter = c /\ o.section = s
    <3> HIDE DEF v
    <3> QED BY <2>2, <2>3, UnboundType DEF Operation, Unbound
  <2>5. /\ pc' \in [Cores -> Steps]
        /\ op' \in [Cores -> Operation]
        /\ OperationsBound'
    <3>1. Start(w, step, o) /\ step \in Steps
      BY <2>1 DEF Steps
    <3> HIDE DEF o, step
    <3> QED BY <2>4, <3>1, StartTypes
  <2> QED BY <1>1, <2>5
          DEF AppendValidate, TypeInv, TypeOK, StoreTypeOK, RegistryTypeOK
<1>2. CASE AppendAdmit(w)
  BY <1>2, GoTypes
  DEF AppendAdmit, TypeInv, TypeOK, StoreTypeOK, RegistryTypeOK,
      ChapterSteps, SectionSteps
<1>3. CASE AppendOnceRefused(w)
  BY <1>3, ReturnTypes
  DEF AppendOnceRefused, Reject, TypeInv, TypeOK, StoreTypeOK, RegistryTypeOK
<1>4. CASE AppendEventStep(w)
  <2>1. /\ pc' \in [Cores -> Steps]
        /\ op' \in [Cores -> Operation]
        /\ OperationsBound'
    BY <1>4, GoTypes DEF AppendEventStep, ChapterSteps, SectionSteps
  <2>2. /\ op[w].chapter \in Chapters
        /\ op[w].section \in Sections
        /\ op[w].blank \in BOOLEAN
        /\ op[w].rule \in Versions \cup {NoSchema}
    BY <1>4 DEF AppendEventStep, Go, TypeInv, TypeOK, OperationsBound,
                ChapterSteps, SectionSteps, Operation
  <2>3. SectionEvent(op[w].chapter, op[w].section, op[w].blank) \in Event
    BY <2>2 DEF SectionEvent, Event
  <2>4. /\ log' \in Seq(Event)
        /\ rules' \in Seq(Versions \cup {NoSchema})
    BY <1>4, <2>2, <2>3, InsertTypes DEF AppendEventStep
  <2> QED BY <1>4, <2>1, <2>4
          DEF AppendEventStep, TypeInv, TypeOK, StoreTypeOK, RegistryTypeOK
<1>5. CASE AppendStateStep(w)
  <2>1. /\ pc' \in [Cores -> Steps]
        /\ op' \in [Cores -> Operation]
        /\ OperationsBound'
    BY <1>5, GoTypes DEF AppendStateStep, ChapterSteps, SectionSteps
  <2>2. /\ op[w].chapter \in Chapters
        /\ op[w].schema \in SchemaIds
        /\ op[w].state \in States
    BY <1>5 DEF AppendStateStep, Go, TypeInv, TypeOK, OperationsBound,
                ChapterSteps, SectionSteps, Operation
  <2>3. meta' \in [Chapters -> MetaRow \cup {NoRow}]
    BY <1>5, <2>2, UpdateTypes DEF AppendStateStep, TypeInv, TypeOK
  <2> QED BY <1>5, <2>1, <2>3
          DEF AppendStateStep, TypeInv, TypeOK, StoreTypeOK, RegistryTypeOK
<1>6. CASE Dispatch(w)
  <2>1. acked' \in [Chapters -> [Sections -> Nat]]
    <3>1. op[w].chapter \in Chapters /\ op[w].section \in Sections
      BY <1>6 DEF Dispatch, TypeInv, OperationsBound, ChapterSteps, SectionSteps
    <3>2. acked \in [Chapters -> [Sections -> Nat]]
      BY DEF TypeInv, TypeOK
    <3> DEFINE f == acked[op[w].chapter]
               g == [f EXCEPT ![op[w].section] = @ + 1]
    <3>3. f \in [Sections -> Nat] /\ f[op[w].section] \in Nat
      BY <3>1, <3>2
    <3>4. g \in [Sections -> Nat]
      BY <3>1, <3>3
    <3>5. acked' = [acked EXCEPT ![op[w].chapter] = g]
      BY <1>6 DEF Dispatch
    <3> QED BY <3>1, <3>2, <3>4, <3>5
  <2> QED BY <1>6, <2>1, ReturnTypes
          DEF Dispatch, TypeInv, TypeOK, StoreTypeOK, RegistryTypeOK
<1>7. CASE DispatchFails(w)
  BY <1>7, ReturnTypes
  DEF DispatchFails, TypeInv, TypeOK, StoreTypeOK, RegistryTypeOK
<1> QED BY <1>1, <1>2, <1>3, <1>4, <1>5, <1>6, <1>7 DEF AppendSection

LEMMA TypeCloseChapter ==
  ASSUME TypeInv, NEW w \in Cores, CloseChapter(w)
  PROVE  TypeInv'
<1>1. ASSUME NEW c \in Chapters, CloseValidate(w, c)
      PROVE  TypeInv'
  <2>1. PICK i \in DOMAIN SchemaOf(w, c).transitions :
          Start(w, "close_check",
                [Unbound EXCEPT !.chapter = c, !.rule = SchemaOf(w, c),
                                !.row = i,
                                !.state = SchemaOf(w, c).transitions[i].to])
    BY <1>1 DEF CloseValidate
  <2> DEFINE v == SchemaOf(w, c)
             o == [Unbound EXCEPT !.chapter = c, !.rule = v, !.row = i,
                                  !.state = v.transitions[i].to]
  <2>2. v \in Versions /\ IsSchema(v)
    <3>1. meta[c].schema \in SchemaIds
      BY <1>1 DEF CloseValidate, Closable, Bound, Exists, TypeInv, TypeOK,
                  StoreTypeOK, MetaRow
    <3> QED BY <1>1, <3>1, ResolveType
            DEF CloseValidate, Closable, Bound, SchemaOf, TypeInv, TypeOK
  <2>3. i \in Nat /\ v.transitions[i].to \in States
    <3> HIDE DEF v
    <3>1. i \in DOMAIN v.transitions
      BY <2>1 DEF v
    <3> QED BY <2>2, <3>1, TransitionType DEF Transition
  <2>4. o \in Operation /\ o.chapter = c
    <3> HIDE DEF v
    <3> QED BY <2>2, <2>3, UnboundType DEF Operation, Unbound
  <2>5. /\ pc' \in [Cores -> Steps]
        /\ op' \in [Cores -> Operation]
        /\ OperationsBound'
    <3>1. Start(w, "close_check", o)
      BY <2>1
    <3> HIDE DEF o
    <3> QED BY <2>4, <3>1, StartTypes DEF Steps, SectionSteps
  <2> QED BY <1>1, <2>5
          DEF CloseValidate, TypeInv, TypeOK, StoreTypeOK, RegistryTypeOK
<1>2. CASE CloseCheck(w)
  BY <1>2, GoTypes
  DEF CloseCheck, TypeInv, TypeOK, StoreTypeOK, RegistryTypeOK,
      ChapterSteps, SectionSteps
<1>3. CASE CloseRefused(w)
  BY <1>3, ReturnTypes
  DEF CloseRefused, Reject, TypeInv, TypeOK, StoreTypeOK, RegistryTypeOK
<1>4. CASE CloseEventStep(w)
  <2>1. /\ pc' \in [Cores -> Steps]
        /\ op' \in [Cores -> Operation]
        /\ OperationsBound'
    BY <1>4, GoTypes DEF CloseEventStep, ChapterSteps, SectionSteps
  <2>2. /\ op[w].chapter \in Chapters
        /\ op[w].rule \in Versions \cup {NoSchema}
    BY <1>4 DEF CloseEventStep, Go, TypeInv, TypeOK, OperationsBound,
                ChapterSteps, Operation
  <2>3. CloseEvent(op[w].chapter) \in Event
    BY <2>2 DEF CloseEvent, Event
  <2>4. /\ log' \in Seq(Event)
        /\ rules' \in Seq(Versions \cup {NoSchema})
    BY <1>4, <2>2, <2>3, InsertTypes DEF CloseEventStep
  <2> QED BY <1>4, <2>1, <2>4
          DEF CloseEventStep, TypeInv, TypeOK, StoreTypeOK, RegistryTypeOK
<1>5. CASE CloseStateStep(w)
  <2>1. /\ op[w].chapter \in Chapters
        /\ op[w].schema \in SchemaIds
        /\ op[w].state \in States
    BY <1>5 DEF CloseStateStep, TypeInv, TypeOK, OperationsBound,
                ChapterSteps, Operation
  <2>2. meta' \in [Chapters -> MetaRow \cup {NoRow}]
    BY <1>5, <2>1, UpdateTypes DEF CloseStateStep, TypeInv, TypeOK
  <2> QED BY <1>5, <2>2, ReturnTypes
          DEF CloseStateStep, TypeInv, TypeOK, StoreTypeOK, RegistryTypeOK
<1> QED BY <1>1, <1>2, <1>3, <1>4, <1>5 DEF CloseChapter

LEMMA TypeImportChapter ==
  ASSUME TypeInv, NEW w \in Cores, ImportChapter(w)
  PROVE  TypeInv'
<1>1. ASSUME NEW batch \in ImportFiles, ImportCheck(w, batch)
      PROVE  TypeInv'
  <2> DEFINE o == [Unbound EXCEPT !.batch = batch]
  <2>1. o \in Operation
    BY UnboundType, CoreAssumption DEF Operation, Unbound
  <2>2. Start(w, "import_tx", o)
    BY <1>1 DEF ImportCheck
  <2>3. /\ pc' \in [Cores -> Steps]
        /\ op' \in [Cores -> Operation]
        /\ OperationsBound'
    <3> HIDE DEF o
    <3> QED BY <2>1, <2>2, StartTypes DEF Steps, ChapterSteps, SectionSteps
  <2> QED BY <1>1, <2>3
          DEF ImportCheck, TypeInv, TypeOK, StoreTypeOK, RegistryTypeOK
<1>2. CASE ImportCommit(w)
  <2>1. op[w].batch \in Seq(ImportEntry)
    BY DEF TypeInv, TypeOK, Operation
  <2>2. ImportEvent(op[w].batch) \in Event
    BY <2>1 DEF ImportEvent, Event
  <2>3. /\ log' \in Seq(Event)
        /\ rules' \in Seq(Versions \cup {NoSchema})
    BY <1>2, <2>2, InsertTypes DEF ImportCommit, InsertImport, Insert
  <2>4. meta' \in [Chapters -> MetaRow \cup {NoRow}]
    BY <1>2, StoreAssumption
    DEF ImportCommit, InsertImport, MetaRow, TypeInv, TypeOK, StoreTypeOK
  <2> QED BY <1>2, <2>3, <2>4, ReturnTypes
          DEF ImportCommit, TypeInv, TypeOK, StoreTypeOK, RegistryTypeOK
<1>3. CASE ImportRollback(w)
  BY <1>3, ReturnTypes
  DEF ImportRollback, TypeInv, TypeOK, StoreTypeOK, RegistryTypeOK
<1> QED BY <1>1, <1>2, <1>3 DEF ImportChapter

LEMMA TypeEnvironment ==
  ASSUME TypeInv, NEW w \in Cores, Environment(w)
  PROVE  TypeInv'
<1>1. ASSUME NEW u \in Uploads, LoadSchema(w, u[1], u[2])
      PROVE  TypeInv'
  <2>1. u[1] \in SchemaIds /\ u[2] \in Versions
    BY RegistryAssumption
  <2>2. RegistryTypeOK'
    BY <1>1, <2>1 DEF LoadSchema, RegisterSchema, RegistryTypeOK, TypeInv, TypeOK
  <2> QED BY <1>1, <2>2
          DEF LoadSchema, TypeInv, TypeOK, StoreTypeOK, OperationsBound
<1>2. CASE StatementFails(w)
  BY <1>2, ReturnTypes
  DEF StatementFails, TypeInv, TypeOK, StoreTypeOK, RegistryTypeOK
<1>3. CASE Crash(w)
  <2>1. RegistryTypeOK'
    BY <1>3, RegistryAssumption
    DEF Crash, ReloadRegistry, RegistryTypeOK, TypeInv, TypeOK
  <2> QED BY <1>3, <2>1, ReturnTypes DEF Crash, TypeInv, TypeOK, StoreTypeOK
<1> QED BY <1>1, <1>2, <1>3 DEF Environment

LEMMA TypeStep == TypeInv /\ [Next]_vars => TypeInv'
<1> SUFFICES ASSUME TypeInv, [Next]_vars PROVE TypeInv'
  OBVIOUS
<1>1. CASE Next
  BY <1>1, TypeOpenChapter, TypeAppendSection, TypeCloseChapter,
     TypeImportChapter, TypeEnvironment DEF Next
<1>2. CASE UNCHANGED vars
  BY <1>2 DEF vars, TypeInv, TypeOK, StoreTypeOK, RegistryTypeOK,
              OperationsBound
<1> QED BY <1>1, <1>2

LEMMA TypeInvariant == Spec => []TypeInv
BY TypeInit, TypeStep, PTL DEF Spec

(* Every variable keeps its type, and an operation under way names what it   *)
(* acts on: no step of any core, failure or restart included, leaves the     *)
(* store or a core in a shape the next step cannot read.                     *)
THEOREM TypeCorrect == Spec => []TypeOK
<1>1. TypeInv => TypeOK
  BY DEF TypeInv
<1> QED BY <1>1, TypeInvariant, PTL

-----------------------------------------------------------------------------
(* The store under a step. *)

(* The actions that write the store; all the others leave it alone.          *)
LEMMA StoreSteps ==
  ASSUME Next
  PROVE  \/ UNCHANGED <<log, meta, rules>>
         \/ \E w \in Cores, c \in Chapters, k \in SchemaIds :
               OpenEventStep(w, c, k)
         \/ \E w \in Cores :
               \/ OpenMetaStep(w)
               \/ AppendEventStep(w)
               \/ AppendStateStep(w)
               \/ CloseEventStep(w)
               \/ CloseStateStep(w)
               \/ ImportCommit(w)
<1>1. PICK w \in Cores : \/ OpenChapter(w) \/ AppendSection(w)
                         \/ CloseChapter(w) \/ ImportChapter(w)
                         \/ Environment(w)
  BY DEF Next
<1>2. CASE OpenChapter(w)
  BY <1>2 DEF OpenChapter, OpenConflict
<1>3. CASE AppendSection(w)
  BY <1>3 DEF AppendSection, AppendValidate, AppendAdmit, AppendOnceRefused,
              Reject, Dispatch, DispatchFails
<1>4. CASE CloseChapter(w)
  BY <1>4 DEF CloseChapter, CloseValidate, CloseCheck, CloseRefused, Reject
<1>5. CASE ImportChapter(w)
  BY <1>5 DEF ImportChapter, ImportCheck, ImportRollback
<1>6. CASE Environment(w)
  BY <1>6 DEF Environment, LoadSchema, StatementFails, Crash
<1> QED BY <1>1, <1>2, <1>3, <1>4, <1>5, <1>6

LEMMA MetaSteps ==
  ASSUME Next
  PROVE  \/ meta' = meta
         \/ \E w \in Cores : OpenMetaStep(w) \/ AppendStateStep(w)
                              \/ CloseStateStep(w) \/ ImportCommit(w)
<1>1. \A w \in Cores, c \in Chapters, k \in SchemaIds :
         OpenEventStep(w, c, k) => meta' = meta
  BY DEF OpenEventStep
<1>2. \A w \in Cores :
         AppendEventStep(w) \/ CloseEventStep(w) => meta' = meta
  BY DEF AppendEventStep, CloseEventStep
<1> QED BY <1>1, <1>2, StoreSteps

LEMMA InsertFacts ==
  ASSUME log \in Seq(Event), NEW e \in Event, InsertEvent(e)
  PROVE  /\ Len(log') = Len(log) + 1
         /\ DOMAIN log' = DOMAIN log \cup {Len(log) + 1}
         /\ Len(log) + 1 \notin DOMAIN log
         /\ \A i \in DOMAIN log : log'[i] = log[i]
         /\ log'[Len(log) + 1] = e
BY DEF InsertEvent

(* Every insert appends an event to the log and a version to the history.    *)
LEMMA LogSteps ==
  ASSUME TypeInv, Next
  PROVE  \/ UNCHANGED <<log, rules>>
         \/ \E e \in Event, v \in Versions \cup {NoSchema} : Insert(e, v)
<1>1. CASE UNCHANGED <<log, meta, rules>>
  BY <1>1
<1>2. ASSUME NEW w \in Cores, NEW c \in Chapters, NEW k \in SchemaIds,
             OpenEventStep(w, c, k)
      PROVE  \E e \in Event, v \in Versions \cup {NoSchema} : Insert(e, v)
  <2>1. OpenEvent(c) \in Event
    BY DEF OpenEvent, Event
  <2>2. Resolve(w, k) \in Versions
    BY <1>2, ResolveType DEF OpenEventStep, Openable, TypeInv, TypeOK
  <2> QED BY <1>2, <2>1, <2>2 DEF OpenEventStep
<1>3. ASSUME NEW w \in Cores, AppendEventStep(w)
      PROVE  \E e \in Event, v \in Versions \cup {NoSchema} : Insert(e, v)
  <2>1. SectionEvent(op[w].chapter, op[w].section, op[w].blank) \in Event
    BY <1>3 DEF AppendEventStep, Go, TypeInv, TypeOK, OperationsBound,
                ChapterSteps, SectionSteps, Operation, SectionEvent, Event
  <2>2. op[w].rule \in Versions \cup {NoSchema}
    BY DEF TypeInv, TypeOK, Operation
  <2> QED BY <1>3, <2>1, <2>2 DEF AppendEventStep
<1>4. ASSUME NEW w \in Cores, CloseEventStep(w)
      PROVE  \E e \in Event, v \in Versions \cup {NoSchema} : Insert(e, v)
  <2>1. CloseEvent(op[w].chapter) \in Event
    BY <1>4 DEF CloseEventStep, Go, TypeInv, OperationsBound, ChapterSteps,
                CloseEvent, Event
  <2>2. op[w].rule \in Versions \cup {NoSchema}
    BY DEF TypeInv, TypeOK, Operation
  <2> QED BY <1>4, <2>1, <2>2 DEF CloseEventStep
<1>5. ASSUME NEW w \in Cores, ImportCommit(w)
      PROVE  \E e \in Event, v \in Versions \cup {NoSchema} : Insert(e, v)
  <2>1. ImportEvent(op[w].batch) \in Event
    BY DEF TypeInv, TypeOK, Operation, ImportEvent, Event
  <2> QED BY <1>5, <2>1 DEF ImportCommit, InsertImport, Insert
<1>6. CASE \E w \in Cores :
              OpenMetaStep(w) \/ AppendStateStep(w) \/ CloseStateStep(w)
  BY <1>6 DEF OpenMetaStep, AppendStateStep, CloseStateStep
<1> QED BY <1>1, <1>2, <1>3, <1>4, <1>5, <1>6, StoreSteps

(* The log only grows: no step changes or removes a committed event.         *)
LEMMA LogGrows ==
  ASSUME TypeInv, Next
  PROVE  /\ DOMAIN log \subseteq DOMAIN log'
         /\ \A i \in DOMAIN log : log'[i] = log[i]
<1>1. ASSUME NEW e \in Event, NEW v \in Versions \cup {NoSchema}, Insert(e, v)
      PROVE  /\ DOMAIN log \subseteq DOMAIN log'
             /\ \A i \in DOMAIN log : log'[i] = log[i]
  <2>1. log \in Seq(Event) /\ InsertEvent(e)
    BY <1>1 DEF TypeInv, TypeOK, StoreTypeOK, Insert
  <2> QED BY <2>1, InsertFacts
<1> QED BY <1>1, LogSteps

LEMMA StreamsGrow ==
  ASSUME TypeInv, Next, NEW c
  PROVE  /\ Direct(c) \subseteq Direct(c)'
         /\ SectionRows(c) \subseteq SectionRows(c)'
         /\ Imports(c) \subseteq Imports(c)'
BY LogGrows DEF Direct, SectionRows, Imports, ListedIn

(* A closed chapter stays closed and keeps its schema, and a row of          *)
(* chapter_meta is never deleted.                                            *)
LEMMA ClosedStays ==
  ASSUME TypeInv, Next, NEW c \in Chapters
  PROVE  /\ Exists(c) => Exists(c)' /\ meta'[c].schema = meta[c].schema
         /\ IsClosed(c) => IsClosed(c)'
<1> DEFINE Kept ==
      /\ Exists(c) => Exists(c)' /\ meta'[c].schema = meta[c].schema
      /\ IsClosed(c) => IsClosed(c)'
<1>1. meta \in [Chapters -> MetaRow \cup {NoRow}] /\ NoRow \notin MetaRow
  BY StoreAssumption DEF TypeInv, TypeOK, StoreTypeOK
<1>2. \A d \in Chapters, k \in SchemaIds, state \in States :
         InsertMeta(d, k, state) => Kept
  BY <1>1 DEF InsertMeta, Exists, IsClosed
<1>3. meta' \in [Chapters -> MetaRow \cup {NoRow}]
  BY TypeStep DEF TypeInv, TypeOK, StoreTypeOK
<1>4. \A d \in Chapters, state \in States :
         UpdateState(d, state) \/ UpdateClosed(d, state) => Kept
  BY <1>1, <1>3 DEF UpdateState, UpdateClosed, Exists, IsClosed, MetaRow
<1>5. \A w \in Cores : op[w].schema \in SchemaIds /\ op[w].state \in States
  BY DEF TypeInv, TypeOK, Operation
<1>6. \A w \in Cores : pc[w] \in ChapterSteps => op[w].chapter \in Chapters
  BY DEF TypeInv, OperationsBound
<1>7. ASSUME NEW w \in Cores,
             OpenMetaStep(w) \/ AppendStateStep(w) \/ CloseStateStep(w)
      PROVE  Kept
  <2>1. op[w].chapter \in Chapters
    BY <1>6, <1>7 DEF OpenMetaStep, AppendStateStep, CloseStateStep, Go,
                      ChapterSteps, SectionSteps
  <2>2. \/ InsertMeta(op[w].chapter, op[w].schema, op[w].state)
        \/ UpdateState(op[w].chapter, op[w].state)
        \/ UpdateClosed(op[w].chapter, op[w].state)
    BY <1>7 DEF OpenMetaStep, AppendStateStep, CloseStateStep
  <2> HIDE DEF Kept
  <2> QED BY <1>2, <1>4, <1>5, <2>1, <2>2
<1>8. ASSUME NEW w \in Cores, ImportCommit(w)
      PROVE  Kept
  BY <1>8, <1>3, StoreAssumption
  DEF ImportCommit, InsertImport, BatchInsertable, Exists, IsClosed
<1>9. ASSUME meta' = meta
      PROVE  Kept
  BY <1>9 DEF Exists, IsClosed
<1> HIDE DEF Kept
<1>10. Kept
  BY <1>7, <1>8, <1>9, MetaSteps
<1> QED BY <1>10 DEF Kept

-----------------------------------------------------------------------------
(* Imports, for any number of cores. *)

LEMMA ImportsKept ==
  ASSUME TypeInv, NEW e \in Event, InsertEvent(e), e.type # "import", NEW c
  PROVE  /\ Imports(c)' = Imports(c)
         /\ \A i \in Imports(c) : log'[i] = log[i]
BY InsertFacts DEF TypeInv, TypeOK, StoreTypeOK, Imports, ListedIn

(* The imports that list a chapter with a row are there for good: the        *)
(* primary key keeps another one out.                                        *)
LEMMA ImportsOfRowKept ==
  ASSUME TypeInv, Next, NEW c \in Chapters, Exists(c)
  PROVE  Imports(c)' = Imports(c)
<1>1. ASSUME NEW e \in Event, InsertEvent(e), e.type # "import"
      PROVE  Imports(c)' = Imports(c)
  BY <1>1, ImportsKept
<1>2. ASSUME NEW w \in Cores, NEW d \in Chapters, NEW k \in SchemaIds,
             OpenEventStep(w, d, k)
      PROVE  Imports(c)' = Imports(c)
  <2>1. OpenEvent(d) \in Event /\ OpenEvent(d).type # "import"
    BY DEF OpenEvent, Event
  <2> QED BY <1>1, <1>2, <2>1 DEF OpenEventStep, Insert
<1>3. ASSUME NEW w \in Cores, AppendEventStep(w)
      PROVE  Imports(c)' = Imports(c)
  <2> DEFINE e == SectionEvent(op[w].chapter, op[w].section, op[w].blank)
  <2>1. e \in Event /\ e.type # "import"
    BY <1>3 DEF AppendEventStep, Go, TypeInv, TypeOK, OperationsBound,
                ChapterSteps, SectionSteps, Operation, SectionEvent, Event
  <2> QED BY <1>1, <1>3, <2>1 DEF AppendEventStep, Insert
<1>4. ASSUME NEW w \in Cores, CloseEventStep(w)
      PROVE  Imports(c)' = Imports(c)
  <2>1. /\ CloseEvent(op[w].chapter) \in Event
        /\ CloseEvent(op[w].chapter).type # "import"
    BY <1>4 DEF CloseEventStep, Go, TypeInv, OperationsBound, ChapterSteps,
                CloseEvent, Event
  <2> QED BY <1>1, <1>4, <2>1 DEF CloseEventStep, Insert
<1>5. ASSUME NEW w \in Cores, ImportCommit(w)
      PROVE  Imports(c)' = Imports(c)
  <2> DEFINE e == ImportEvent(op[w].batch)
  <2>1. /\ e \in Event /\ e.batch = op[w].batch /\ InsertEvent(e)
        /\ log \in Seq(Event)
    BY <1>5 DEF ImportCommit, InsertImport, TypeInv, TypeOK, StoreTypeOK,
                Operation, ImportEvent, Event
  <2>2. \A k \in DOMAIN op[w].batch : op[w].batch[k].id # c
    BY <1>5 DEF ImportCommit, InsertImport, BatchInsertable, BatchIds
  <2> HIDE DEF e
  <2> QED BY <2>1, <2>2, InsertFacts DEF Imports, ListedIn
<1>6. ASSUME log' = log
      PROVE  Imports(c)' = Imports(c)
  BY <1>6 DEF Imports, ListedIn
<1>7. \A w \in Cores : OpenMetaStep(w) \/ AppendStateStep(w)
                         \/ CloseStateStep(w) => log' = log
  BY DEF OpenMetaStep, AppendStateStep, CloseStateStep
<1> QED BY <1>2, <1>3, <1>4, <1>5, <1>6, <1>7, StoreSteps

LEMMA ImportedOnceKept ==
  ASSUME TypeInv, Next, ImportedOnce,
         \A c \in Chapters : /\ Imports(c)' = Imports(c)
                             /\ \A i \in Imports(c) : log'[i] = log[i]
  PROVE  ImportedOnce'
<1> SUFFICES ASSUME NEW c \in Chapters
             PROVE  /\ Imports(c)' # {} =>
                         IsClosed(c)' /\ meta'[c].schema = ImportSchema
                    /\ \A i, j \in Imports(c)' :
                         \A k \in DOMAIN log'[i].batch,
                            m \in DOMAIN log'[j].batch :
                            /\ log'[i].batch[k].id = c
                            /\ log'[j].batch[m].id = c
                            => i = j /\ k = m
  BY DEF ImportedOnce
<1>1. Imports(c)' # {} => IsClosed(c)' /\ meta'[c].schema = ImportSchema
  BY ClosedStays DEF ImportedOnce, IsClosed
<1> QED BY <1>1 DEF ImportedOnce

LEMMA ImportedOnceCommit ==
  ASSUME TypeInv, ImportedOnce, NEW w \in Cores, ImportCommit(w)
  PROVE  ImportedOnce'
<1> DEFINE b == op[w].batch
           n == Len(log) + 1
<1>1. /\ b \in Seq(ImportEntry)
      /\ ImportEvent(b) \in Event
      /\ log \in Seq(Event)
  BY DEF TypeInv, TypeOK, StoreTypeOK, Operation, ImportEvent, Event
<1>2. /\ DOMAIN log' = DOMAIN log \cup {n}
      /\ n \notin DOMAIN log
      /\ \A i \in DOMAIN log : log'[i] = log[i]
      /\ log'[n] = ImportEvent(b)
  BY <1>1, InsertFacts DEF ImportCommit, InsertImport
<1>3. /\ log'[n].type = "import"
      /\ log'[n].batch = b
  BY <1>2 DEF ImportEvent
<1>4. BatchInsertable(b)
  BY DEF ImportCommit, InsertImport
<1> HIDE DEF b, n
<1> SUFFICES ASSUME NEW c \in Chapters
             PROVE  /\ Imports(c)' # {} =>
                         IsClosed(c)' /\ meta'[c].schema = ImportSchema
                    /\ \A i, j \in Imports(c)' :
                         \A k \in DOMAIN log'[i].batch,
                            m \in DOMAIN log'[j].batch :
                            /\ log'[i].batch[k].id = c
                            /\ log'[j].batch[m].id = c
                            => i = j /\ k = m
  BY DEF ImportedOnce
<1>5. c # NoChapter /\ c \in Chapters
  BY StoreAssumption
<1>6. CASE c \in BatchIds(b)
  <2>1. Imports(c) = {}
    BY <1>4, <1>6 DEF ImportedOnce, BatchInsertable, IsClosed
  <2>2. Imports(c)' = {n}
    <3>1. \E k \in DOMAIN b : b[k].id = c
      BY <1>6 DEF BatchIds
    <3> QED BY <1>2, <1>3, <2>1, <3>1 DEF Imports, ListedIn
  <2>3. meta'[c] = [schema |-> ImportSchema, state |-> ImportState,
                    closed |-> TRUE]
    BY <1>6 DEF ImportCommit, InsertImport, b
  <2>4. IsClosed(c)' /\ meta'[c].schema = ImportSchema
    <3>1. meta'[c] \in MetaRow
      BY <2>3, StoreAssumption DEF MetaRow
    <3>2. meta'[c] # NoRow
      BY <3>1, StoreAssumption
    <3>3. meta'[c].closed /\ meta'[c].schema = ImportSchema
      BY <2>3
    <3> QED BY <3>2, <3>3 DEF IsClosed, Exists
  <2>5. \A k, m \in DOMAIN b : b[k].id = c /\ b[m].id = c => k = m
    BY <1>4, <1>5 DEF BatchInsertable
  <2> QED BY <1>3, <2>2, <2>4, <2>5
<1>7. CASE c \notin BatchIds(b)
  <2>1. \A k \in DOMAIN b : b[k].id # c
    BY <1>7 DEF BatchIds
  <2>2. /\ Imports(c)' = Imports(c)
        /\ \A i \in Imports(c) : log'[i] = log[i]
    BY <1>2, <1>3, <2>1 DEF Imports, ListedIn
  <2>3. meta'[c] = meta[c]
    BY <1>7 DEF ImportCommit, InsertImport, b
  <2> QED BY <2>2, <2>3 DEF ImportedOnce, IsClosed, Exists
<1> QED BY <1>6, <1>7

LEMMA ImportedOnceStep ==
  ASSUME TypeInv, [Next]_vars, ImportedOnce
  PROVE  ImportedOnce'
<1>1. CASE UNCHANGED vars
  BY <1>1 DEF vars, ImportedOnce, Imports, ListedIn, IsClosed, Exists
<1>2. ASSUME Next, NEW e \in Event, InsertEvent(e), e.type # "import"
      PROVE  ImportedOnce'
  BY <1>2, ImportsKept, ImportedOnceKept
<1>3. ASSUME Next, log' = log
      PROVE  ImportedOnce'
  BY <1>3, ImportedOnceKept DEF Imports, ListedIn
<1>4. ASSUME Next, NEW w \in Cores, NEW c \in Chapters, NEW k \in SchemaIds,
             OpenEventStep(w, c, k)
      PROVE  ImportedOnce'
  <2>1. OpenEvent(c) \in Event /\ OpenEvent(c).type # "import"
    BY DEF OpenEvent, Event
  <2> QED BY <1>2, <1>4, <2>1 DEF OpenEventStep, Insert
<1>5. ASSUME Next, NEW w \in Cores, AppendEventStep(w)
      PROVE  ImportedOnce'
  <2> DEFINE e == SectionEvent(op[w].chapter, op[w].section, op[w].blank)
  <2>1. e \in Event /\ e.type # "import"
    BY <1>5 DEF AppendEventStep, Go, TypeInv, TypeOK, OperationsBound,
                ChapterSteps, SectionSteps, Operation, SectionEvent, Event
  <2> QED BY <1>2, <1>5, <2>1 DEF AppendEventStep, Insert
<1>6. ASSUME Next, NEW w \in Cores, CloseEventStep(w)
      PROVE  ImportedOnce'
  <2>1. /\ CloseEvent(op[w].chapter) \in Event
        /\ CloseEvent(op[w].chapter).type # "import"
    BY <1>6 DEF CloseEventStep, Go, TypeInv, OperationsBound, ChapterSteps,
                CloseEvent, Event
  <2> QED BY <1>2, <1>6, <2>1 DEF CloseEventStep, Insert
<1>7. ASSUME Next, NEW w \in Cores,
             OpenMetaStep(w) \/ AppendStateStep(w) \/ CloseStateStep(w)
      PROVE  ImportedOnce'
  BY <1>3, <1>7 DEF OpenMetaStep, AppendStateStep, CloseStateStep
<1>8. CASE Next
  BY <1>3, <1>4, <1>5, <1>6, <1>7, <1>8, ImportedOnceCommit, StoreSteps
<1> QED BY <1>1, <1>8

(* However many cores write to one database file, and whatever fails, an     *)
(* import is all or nothing and a chapter comes from at most one import      *)
(* entry: the collision check may be stale, the transaction decides.         *)
THEOREM ImportsAtomic == Spec => []ImportedOnce
<1>1. Init => ImportedOnce
  BY DEF Init, StoreInit, ImportedOnce, Imports
<1>2. TypeInv /\ [Next]_vars /\ ImportedOnce => ImportedOnce'
  BY ImportedOnceStep
<1> QED BY <1>1, <1>2, TypeInvariant, PTL DEF Spec

-----------------------------------------------------------------------------
(* The steps of one core. *)

(* A core moves by its own action only: it stays where it is, returns, or    *)
(* takes one of the steps that go on.                                        *)
LEMMA Moves ==
  ASSUME TypeInv, Next, NEW u \in Cores
  PROVE  \/ pc'[u] = pc[u] /\ op'[u] = op[u]
         \/ pc'[u] = "idle" /\ op'[u] = Unbound
         \/ \E c \in Chapters, k \in SchemaIds : OpenEventStep(u, c, k)
         \/ \E c \in Chapters, s \in Sections, b \in BOOLEAN :
               AppendValidate(u, c, s, b)
         \/ AppendAdmit(u) \/ AppendEventStep(u) \/ AppendStateStep(u)
         \/ \E c \in Chapters : CloseValidate(u, c)
         \/ CloseCheck(u) \/ CloseEventStep(u)
         \/ \E batch \in ImportFiles : ImportCheck(u, batch)
<1> DEFINE Moved ==
         \/ pc'[u] = pc[u] /\ op'[u] = op[u]
         \/ pc'[u] = "idle" /\ op'[u] = Unbound
         \/ \E c \in Chapters, k \in SchemaIds : OpenEventStep(u, c, k)
         \/ \E c \in Chapters, s \in Sections, b \in BOOLEAN :
               AppendValidate(u, c, s, b)
         \/ AppendAdmit(u) \/ AppendEventStep(u) \/ AppendStateStep(u)
         \/ \E c \in Chapters : CloseValidate(u, c)
         \/ CloseCheck(u) \/ CloseEventStep(u)
         \/ \E batch \in ImportFiles : ImportCheck(u, batch)
<1>1. PICK w \in Cores : \/ OpenChapter(w) \/ AppendSection(w)
                         \/ CloseChapter(w) \/ ImportChapter(w)
                         \/ Environment(w)
  BY DEF Next
<1>2. pc \in [Cores -> Steps] /\ op \in [Cores -> Operation]
  BY DEF TypeInv, TypeOK
<1>3. ASSUME Return(w) PROVE Moved
  BY <1>2, <1>3 DEF Return
<1>4. ASSUME NEW step, NEW o, Start(w, step, o), u # w PROVE Moved
  BY <1>2, <1>4 DEF Start
<1>5. ASSUME NEW from, NEW to, Go(w, from, to), u # w PROVE Moved
  BY <1>2, <1>5 DEF Go
<1>6. CASE OpenChapter(w)
  <2>1. ASSUME NEW c \in Chapters, NEW k \in SchemaIds, OpenEventStep(w, c, k)
        PROVE  Moved
    BY <1>4, <2>1 DEF OpenEventStep
  <2>2. CASE OpenMetaStep(w) \/ OpenConflict(w)
    BY <1>3, <2>2 DEF OpenMetaStep, OpenConflict
  <2> QED BY <1>6, <2>1, <2>2 DEF OpenChapter
<1>7. CASE AppendSection(w)
  <2>1. ASSUME NEW c \in Chapters, NEW s \in Sections, NEW b \in BOOLEAN,
               AppendValidate(w, c, s, b)
        PROVE  Moved
    BY <1>4, <2>1 DEF AppendValidate
  <2>2. CASE AppendAdmit(w) \/ AppendEventStep(w) \/ AppendStateStep(w)
    BY <1>5, <2>2 DEF AppendAdmit, AppendEventStep, AppendStateStep
  <2>3. CASE AppendOnceRefused(w) \/ Dispatch(w) \/ DispatchFails(w)
    BY <1>3, <2>3 DEF AppendOnceRefused, Reject, Dispatch, DispatchFails
  <2> QED BY <1>7, <2>1, <2>2, <2>3 DEF AppendSection
<1>8. CASE CloseChapter(w)
  <2>1. ASSUME NEW c \in Chapters, CloseValidate(w, c)
        PROVE  Moved
    BY <1>4, <2>1 DEF CloseValidate
  <2>2. CASE CloseCheck(w) \/ CloseEventStep(w)
    BY <1>5, <2>2 DEF CloseCheck, CloseEventStep
  <2>3. CASE CloseRefused(w) \/ CloseStateStep(w)
    BY <1>3, <2>3 DEF CloseRefused, Reject, CloseStateStep
  <2> QED BY <1>8, <2>1, <2>2, <2>3 DEF CloseChapter
<1>9. CASE ImportChapter(w)
  <2>1. ASSUME NEW batch \in ImportFiles, ImportCheck(w, batch)
        PROVE  Moved
    BY <1>4, <2>1 DEF ImportCheck
  <2>2. CASE ImportCommit(w) \/ ImportRollback(w)
    BY <1>3, <2>2 DEF ImportCommit, ImportRollback
  <2> QED BY <1>9, <2>1, <2>2 DEF ImportChapter
<1>10. CASE Environment(w)
  BY <1>3, <1>10 DEF Environment, LoadSchema, StatementFails, Crash
<1> QED BY <1>1, <1>6, <1>7, <1>8, <1>9, <1>10

-----------------------------------------------------------------------------
(* Closes, for any number of cores. *)

(* A core about to set closed_at has its close event in the log.             *)
CloseEventFirst ==
  \A w \in Cores :
     pc[w] = "close_state" =>
       \E i \in Direct(op[w].chapter) : log[i].type = "close"

LEMMA CloseEventFirstStep ==
  ASSUME TypeInv, Next, CloseEventFirst
  PROVE  CloseEventFirst'
<1> SUFFICES ASSUME NEW u \in Cores, pc'[u] = "close_state"
             PROVE  \E i \in Direct(op[u].chapter)' : log'[i].type = "close"
  BY DEF CloseEventFirst
<1>1. pc \in [Cores -> Steps] /\ op \in [Cores -> Operation]
  BY DEF TypeInv, TypeOK
<1>2. CASE pc'[u] = pc[u] /\ op'[u] = op[u]
  <2>1. PICK i \in Direct(op[u].chapter) : log[i].type = "close"
    BY <1>2 DEF CloseEventFirst
  <2> QED BY <1>2, <2>1, LogGrows DEF Direct
<1>3. CASE CloseEventStep(u)
  <2>1. CloseEvent(op[u].chapter) \in Event /\ op'[u] = op[u]
    BY <1>3 DEF CloseEventStep, Go, TypeInv, OperationsBound, ChapterSteps,
                CloseEvent, Event
  <2>2. /\ Len(log) + 1 \in DOMAIN log'
        /\ log'[Len(log) + 1] = CloseEvent(op[u].chapter)
    BY <1>3, <2>1, InsertFacts
    DEF CloseEventStep, Insert, TypeInv, TypeOK, StoreTypeOK
  <2> QED BY <2>1, <2>2 DEF Direct, CloseEvent
<1>4. /\ \A c, k : ~OpenEventStep(u, c, k)
      /\ \A c, s, b : ~AppendValidate(u, c, s, b)
      /\ ~AppendAdmit(u) /\ ~AppendEventStep(u) /\ ~AppendStateStep(u)
      /\ \A c : ~CloseValidate(u, c)
      /\ ~CloseCheck(u)
      /\ \A batch : ~ImportCheck(u, batch)
  BY <1>1 DEF OpenEventStep, AppendValidate, AppendAdmit, AppendEventStep,
              AppendStateStep, CloseValidate, CloseCheck, ImportCheck, Start, Go
<1> QED BY <1>2, <1>3, <1>4, Moves

LEMMA ClosedHasCloseEventStep ==
  ASSUME TypeInv, Next, CloseEventFirst, ClosedHasCloseEvent
  PROVE  ClosedHasCloseEvent'
<1> SUFFICES ASSUME NEW c \in Chapters, IsClosed(c)'
             PROVE  \/ Imports(c)' # {}
                    \/ \E i \in Direct(c)' : log'[i].type = "close"
  BY DEF ClosedHasCloseEvent
<1> DEFINE Sealed == \/ Imports(c)' # {}
                     \/ \E i \in Direct(c)' : log'[i].type = "close"
<1>1. ASSUME IsClosed(c)
      PROVE  Sealed
  BY <1>1, StreamsGrow, LogGrows DEF ClosedHasCloseEvent, Direct
<1>2. meta \in [Chapters -> MetaRow \cup {NoRow}]
  BY DEF TypeInv, TypeOK, StoreTypeOK
<1>3. ASSUME meta' = meta
      PROVE  Sealed
  BY <1>1, <1>3 DEF IsClosed, Exists
<1>4. ASSUME NEW w \in Cores, OpenMetaStep(w)
      PROVE  Sealed
  BY <1>1, <1>2, <1>4 DEF OpenMetaStep, InsertMeta, IsClosed, Exists
<1>5. ASSUME NEW w \in Cores, AppendStateStep(w)
      PROVE  Sealed
  BY <1>1, <1>2, <1>5 DEF AppendStateStep, UpdateState, IsClosed, Exists, MetaRow
<1>6. ASSUME NEW w \in Cores, CloseStateStep(w)
      PROVE  Sealed
  <2>1. CASE c = op[w].chapter
    <3>1. \E i \in Direct(c) : log[i].type = "close"
      BY <1>6, <2>1 DEF CloseEventFirst, CloseStateStep
    <3> QED BY <3>1, LogGrows DEF Direct
  <2>2. CASE c # op[w].chapter
    <3>1. meta'[c] = meta[c]
      BY <1>2, <1>6, <2>2 DEF CloseStateStep, UpdateClosed
    <3> QED BY <1>1, <3>1 DEF IsClosed, Exists
  <2> QED BY <2>1, <2>2
<1>7. ASSUME NEW w \in Cores, ImportCommit(w)
      PROVE  Sealed
  <2>1. CASE c \in BatchIds(op[w].batch)
    <3>1. ImportEvent(op[w].batch) \in Event
      BY DEF TypeInv, TypeOK, Operation, ImportEvent, Event
    <3>2. PICK n \in DOMAIN log' : log'[n] = ImportEvent(op[w].batch)
      BY <1>7, <3>1, InsertFacts
      DEF ImportCommit, InsertImport, TypeInv, TypeOK, StoreTypeOK
    <3>3. ListedIn(n, c)'
      BY <2>1, <3>2 DEF ListedIn, ImportEvent, BatchIds
    <3> QED BY <3>2, <3>3 DEF Imports
  <2>2. CASE c \notin BatchIds(op[w].batch)
    <3>1. meta'[c] = meta[c]
      BY <1>7, <2>2 DEF ImportCommit, InsertImport
    <3> QED BY <1>1, <3>1 DEF IsClosed, Exists
  <2> QED BY <2>1, <2>2
<1> HIDE DEF Sealed
<1>8. Sealed
  BY <1>3, <1>4, <1>5, <1>6, <1>7, MetaSteps
<1> QED BY <1>8 DEF Sealed

(* chapter_meta never runs ahead of the log: whatever fails between the two  *)
(* statements of close_chapter, and whatever other cores do, a chapter that  *)
(* is closed has the event that closed it.                                   *)
THEOREM RowFollowsLog == Spec => []ClosedHasCloseEvent
<1> DEFINE Inv == CloseEventFirst /\ ClosedHasCloseEvent
<1>1. Init => Inv
  BY DEF Init, StoreInit, CloseEventFirst, ClosedHasCloseEvent, IsClosed, Exists
<1>2. TypeInv /\ [Next]_vars /\ Inv => Inv'
  <2>1. CASE Next
    BY <2>1, CloseEventFirstStep, ClosedHasCloseEventStep
  <2>2. CASE UNCHANGED vars
    BY <2>2 DEF vars, CloseEventFirst, ClosedHasCloseEvent, IsClosed, Exists,
                Imports, ListedIn, Direct
  <2> QED BY <2>1, <2>2
<1>3. Inv => ClosedHasCloseEvent
  OBVIOUS
<1> HIDE DEF Inv
<1> QED BY <1>1, <1>2, <1>3, TypeInvariant, PTL DEF Spec

(* The streams: a chapter with a row and no event of its own was imported,   *)
(* and a core past the INSERT of an open or an append, or past the lookup of *)
(* a close, works on a chapter that has a stream.                            *)
StreamSteps ==
  {"open_meta", "append_state", "close_check", "close_event", "close_state"}

StreamsOpened ==
  /\ \A c \in Chapters :
        Exists(c) /\ Direct(c) = {} => meta[c].state = ImportState
  /\ \A w \in Cores : pc[w] \in StreamSteps => Direct(op[w].chapter) # {}

LEMMA StreamStepsGrow ==
  ASSUME ImportsAreFinal, TypeInv, Next, StreamsOpened, NEW u \in Cores,
         pc'[u] \in StreamSteps
  PROVE  Direct(op[u].chapter)' # {}
<1>1. pc \in [Cores -> Steps] /\ op \in [Cores -> Operation]
  BY DEF TypeInv, TypeOK
<1>2. ASSUME pc[u] \in StreamSteps, op'[u] = op[u]
      PROVE  Direct(op[u].chapter)' # {}
  <2>1. PICK i \in DOMAIN log : log[i].stream = op[u].chapter
    BY <1>2 DEF StreamsOpened, Direct
  <2> QED BY <1>2, <2>1, LogGrows DEF Direct
<1>3. ASSUME NEW e \in Event, InsertEvent(e), e.stream = op'[u].chapter
      PROVE  Direct(op[u].chapter)' # {}
  <2>1. PICK n \in DOMAIN log' : log'[n] = e
    BY <1>3, InsertFacts DEF TypeInv, TypeOK, StoreTypeOK
  <2> QED BY <1>3, <2>1 DEF Direct
<1>4. ASSUME NEW c \in Chapters, NEW k \in SchemaIds, OpenEventStep(u, c, k)
      PROVE  Direct(op[u].chapter)' # {}
  <2>1. OpenEvent(c) \in Event /\ OpenEvent(c).stream = c
    BY DEF OpenEvent, Event
  <2>2. op'[u].chapter = c
    BY <1>1, <1>4 DEF OpenEventStep, Start, Unbound
  <2> QED BY <1>3, <1>4, <2>1, <2>2 DEF OpenEventStep, Insert
<1>5. ASSUME AppendEventStep(u)
      PROVE  Direct(op[u].chapter)' # {}
  <2> DEFINE e == SectionEvent(op[u].chapter, op[u].section, op[u].blank)
  <2>1. e \in Event /\ e.stream = op[u].chapter
    BY <1>5 DEF AppendEventStep, Go, TypeInv, TypeOK, OperationsBound,
                ChapterSteps, SectionSteps, Operation, SectionEvent, Event
  <2> QED BY <1>3, <1>5, <2>1 DEF AppendEventStep, Insert, Go
<1>6. ASSUME NEW c \in Chapters, CloseValidate(u, c)
      PROVE  Direct(op[u].chapter)' # {}
  <2>1. op'[u].chapter = c /\ log' = log
    BY <1>1, <1>6 DEF CloseValidate, Start, Unbound
  <2>2. Exists(c) /\ meta[c].state # ImportState
    <3>1. meta[c].schema \in SchemaIds
      BY <1>6 DEF CloseValidate, Closable, Bound, Exists, TypeInv, TypeOK,
                  StoreTypeOK, MetaRow
    <3>2. SchemaOf(u, c) \in Versions
      BY <1>6, <3>1, ResolveType
      DEF CloseValidate, Closable, Bound, SchemaOf, TypeInv, TypeOK
    <3> QED BY <1>6, <3>2
            DEF CloseValidate, Closable, Bound, ImportsAreFinal
  <2> QED BY <2>1, <2>2 DEF StreamsOpened, Direct
<1>7. CASE CloseCheck(u) \/ CloseEventStep(u)
  BY <1>2, <1>7 DEF CloseCheck, CloseEventStep, Go, StreamSteps
<1>8. CASE pc'[u] = pc[u] /\ op'[u] = op[u]
  BY <1>2, <1>8
<1>9. /\ pc'[u] # "idle"
      /\ \A c, s, b : ~AppendValidate(u, c, s, b)
      /\ ~AppendAdmit(u) /\ ~AppendStateStep(u)
      /\ \A batch : ~ImportCheck(u, batch)
  BY <1>1 DEF AppendValidate, AppendAdmit, AppendStateStep, ImportCheck,
              Start, Go, StreamSteps
<1> QED BY <1>4, <1>5, <1>6, <1>7, <1>8, <1>9, Moves

LEMMA StreamsOpenedStep ==
  ASSUME ImportsAreFinal, TypeInv, Next, StreamsOpened
  PROVE  StreamsOpened'
<1>1. ASSUME NEW c \in Chapters, Exists(c)', Direct(c)' = {}
      PROVE  meta'[c].state = ImportState
  <2>1. Direct(c) = {}
    BY <1>1, StreamsGrow
  <2>2. meta \in [Chapters -> MetaRow \cup {NoRow}]
    BY DEF TypeInv, TypeOK, StoreTypeOK
  <2>3. CASE meta' = meta
    BY <1>1, <2>1, <2>3 DEF StreamsOpened, Exists
  <2>4. ASSUME NEW w \in Cores,
               OpenMetaStep(w) \/ AppendStateStep(w) \/ CloseStateStep(w)
        PROVE  meta'[c].state = ImportState
    <3>1. c # op[w].chapter
      BY <2>1, <2>4 DEF StreamsOpened, StreamSteps, OpenMetaStep,
                        AppendStateStep, CloseStateStep, Go
    <3>2. meta'[c] = meta[c]
      BY <2>2, <2>4, <3>1 DEF OpenMetaStep, AppendStateStep, CloseStateStep,
                              InsertMeta, UpdateState, UpdateClosed
    <3> QED BY <1>1, <2>1, <3>2 DEF StreamsOpened, Exists
  <2>5. ASSUME NEW w \in Cores, ImportCommit(w)
        PROVE  meta'[c].state = ImportState
    BY <1>1, <2>1, <2>5 DEF ImportCommit, InsertImport, StreamsOpened, Exists
  <2> QED BY <2>3, <2>4, <2>5, MetaSteps
<1> QED BY <1>1, StreamStepsGrow DEF StreamsOpened

(* What a core closing a chapter has checked still holds: its transition is  *)
(* a close, and the rows in the log satisfy it until it returns.             *)
CloseSteps == {"close_check", "close_event", "close_state"}

CloseAdmitted ==
  \A w \in Cores :
     pc[w] \in CloseSteps =>
       /\ op[w].rule \in Versions
       /\ op[w].row \in DOMAIN op[w].rule.transitions
       /\ op[w].rule.transitions[op[w].row].on = "close_chapter"
       /\ pc[w] # "close_check" =>
            RowsSatisfy(op[w].rule.transitions[op[w].row],
                        DirectRows(op[w].chapter))

LEMMA RowsSatisfyMore ==
  ASSUME NEW t, NEW rows, NEW more, rows \subseteq more, RowsSatisfy(t, rows)
  PROVE  RowsSatisfy(t, more)
BY DEF RowsSatisfy

LEMMA RowsGrow ==
  ASSUME TypeInv, Next, NEW c
  PROVE  /\ DirectRows(c) \subseteq DirectRows(c)'
         /\ \A i \in DOMAIN log : RowsBefore(c, i) \subseteq RowsBefore(c, i)'
<1>1. \A i \in SectionRows(c) : i \in DOMAIN log
  BY DEF SectionRows, Direct
<1>2. DirectRows(c) \subseteq DirectRows(c)'
  BY <1>1, StreamsGrow, LogGrows DEF DirectRows
<1> QED BY <1>2 DEF RowsBefore

LEMMA CloseAdmittedStep ==
  ASSUME TypeInv, Next, StreamsOpened, CloseAdmitted
  PROVE  CloseAdmitted'
<1> DEFINE Admitted(u) ==
      /\ op'[u].rule \in Versions
      /\ op'[u].row \in DOMAIN op'[u].rule.transitions
      /\ op'[u].rule.transitions[op'[u].row].on = "close_chapter"
      /\ pc'[u] # "close_check" =>
           RowsSatisfy(op'[u].rule.transitions[op'[u].row],
                       DirectRows(op[u].chapter)')
<1> SUFFICES ASSUME NEW u \in Cores, pc'[u] \in CloseSteps
             PROVE  Admitted(u)
  BY DEF CloseAdmitted
<1>1. pc \in [Cores -> Steps] /\ op \in [Cores -> Operation]
  BY DEF TypeInv, TypeOK
<1>2. ASSUME pc[u] \in CloseSteps, op'[u] = op[u],
             pc[u] = "close_check" => pc'[u] = "close_check"
      PROVE  Admitted(u)
  <2> DEFINE c == op[u].chapter
  <2>1. DirectRows(c) \subseteq DirectRows(op[u].chapter)'
    <3>1. \A d : DirectRows(d) \subseteq DirectRows(d)'
      BY RowsGrow
    <3> QED BY <1>2, <3>1 DEF DirectRows, SectionRows, Direct
  <2> QED BY <1>2, <2>1, RowsSatisfyMore DEF CloseAdmitted
<1>3. ASSUME NEW c \in Chapters, CloseValidate(u, c)
      PROVE  Admitted(u)
  <2>1. PICK i \in DOMAIN SchemaOf(u, c).transitions :
          /\ Fires(SchemaOf(u, c), meta[c].state, "close_chapter", i)
          /\ Start(u, "close_check",
                [Unbound EXCEPT !.chapter = c, !.rule = SchemaOf(u, c),
                                !.row = i,
                                !.state = SchemaOf(u, c).transitions[i].to])
    BY <1>3 DEF CloseValidate
  <2>2. /\ pc'[u] = "close_check"
        /\ op'[u].rule = SchemaOf(u, c)
        /\ op'[u].row = i
    BY <1>1, <2>1 DEF Start, Unbound
  <2>3. SchemaOf(u, c) \in Versions
    <3>1. meta[c].schema \in SchemaIds
      BY <1>3 DEF CloseValidate, Closable, Bound, Exists, TypeInv, TypeOK,
                  StoreTypeOK, MetaRow
    <3> QED BY <1>3, <3>1, ResolveType
            DEF CloseValidate, Closable, Bound, SchemaOf, TypeInv, TypeOK
  <2> QED BY <2>1, <2>2, <2>3 DEF Fires
<1>4. ASSUME CloseCheck(u)
      PROVE  Admitted(u)
  <2>1. /\ pc[u] = "close_check" /\ op'[u] = op[u] /\ log' = log
        /\ RequirementsMet(u)
    BY <1>4 DEF CloseCheck, Go
  <2>2. Direct(op[u].chapter) # {}
    BY <2>1 DEF StreamsOpened, StreamSteps
  <2>3. RowsSatisfy(op[u].rule.transitions[op[u].row],
                    DirectRows(op[u].chapter))
    BY <2>1, <2>2 DEF RequirementsMet, ReplayRows
  <2>4. DirectRows(op[u].chapter)' = DirectRows(op[u].chapter)
    BY <2>1 DEF DirectRows, SectionRows, Direct
  <2> QED BY <2>1, <2>3, <2>4 DEF CloseAdmitted, CloseSteps
<1>5. CASE CloseEventStep(u)
  BY <1>2, <1>5 DEF CloseEventStep, Go, CloseSteps
<1>6. CASE pc'[u] = pc[u] /\ op'[u] = op[u]
  BY <1>2, <1>6
<1>7. /\ pc'[u] # "idle"
      /\ \A c, k : ~OpenEventStep(u, c, k)
      /\ \A c, s, b : ~AppendValidate(u, c, s, b)
      /\ ~AppendAdmit(u) /\ ~AppendEventStep(u) /\ ~AppendStateStep(u)
      /\ \A batch : ~ImportCheck(u, batch)
  BY <1>1 DEF OpenEventStep, AppendValidate, AppendAdmit, AppendEventStep,
              AppendStateStep, ImportCheck, Start, Go, CloseSteps
<1> HIDE DEF Admitted
<1> QED BY <1>3, <1>4, <1>5, <1>6, <1>7, Moves

(* The history has one entry per event. *)
Recorded == Len(rules) = Len(log)

LEMMA RecordedStep ==
  ASSUME TypeInv, Next, Recorded
  PROVE  /\ Recorded'
         /\ \A i \in DOMAIN log : rules'[i] = rules[i]
<1>1. ASSUME NEW e \in Event, NEW v \in Versions \cup {NoSchema}, Insert(e, v)
      PROVE  /\ Recorded'
             /\ \A i \in DOMAIN log : rules'[i] = rules[i]
  BY <1>1 DEF Insert, InsertEvent, Recorded, TypeInv, TypeOK, StoreTypeOK
<1> QED BY <1>1, LogSteps DEF Recorded

CloseInv == Recorded /\ StreamsOpened /\ CloseAdmitted /\ CloseMeetsRequires

(* The close event at position n was admitted by its rule.                   *)
MeetsRequires(n) ==
  \E k \in DOMAIN rules[n].transitions :
     /\ rules[n].transitions[k].on = "close_chapter"
     /\ RowsSatisfy(rules[n].transitions[k], RowsBefore(log[n].stream, n))

LEMMA EarlierCloses ==
  ASSUME TypeInv, Next, CloseInv, NEW n \in DOMAIN log, log[n].type = "close"
  PROVE  MeetsRequires(n)'
<1>1. PICK k \in DOMAIN rules[n].transitions :
         /\ rules[n].transitions[k].on = "close_chapter"
         /\ RowsSatisfy(rules[n].transitions[k], RowsBefore(log[n].stream, n))
  BY DEF CloseInv, CloseMeetsRequires
<1>2. log'[n] = log[n] /\ rules'[n] = rules[n]
  BY LogGrows, RecordedStep DEF CloseInv
<1>3. RowsBefore(log[n].stream, n) \subseteq RowsBefore(log[n].stream, n)'
  <2>1. \A c : RowsBefore(c, n) \subseteq RowsBefore(c, n)'
    BY RowsGrow
  <2> QED BY <1>2, <2>1 DEF RowsBefore, DirectRows, SectionRows, Direct
<1> QED BY <1>1, <1>2, <1>3, RowsSatisfyMore DEF MeetsRequires

LEMMA NewClose ==
  ASSUME TypeInv, CloseInv, NEW w \in Cores, CloseEventStep(w),
         NEW n, n = Len(log) + 1
  PROVE  MeetsRequires(n)'
<1> DEFINE c == op[w].chapter
           t == op[w].rule.transitions[op[w].row]
<1>1. /\ op[w].row \in DOMAIN op[w].rule.transitions
      /\ t.on = "close_chapter"
      /\ RowsSatisfy(t, DirectRows(c))
  BY DEF CloseInv, CloseAdmitted, CloseSteps, CloseEventStep, Go
<1>2. /\ CloseEvent(c) \in Event
      /\ InsertEvent(CloseEvent(c))
      /\ log \in Seq(Event)
  BY DEF CloseEventStep, Go, Insert, TypeInv, TypeOK, StoreTypeOK,
         OperationsBound, ChapterSteps, CloseEvent, Event
<1>3. /\ DOMAIN log' = DOMAIN log \cup {n}
      /\ \A i \in DOMAIN log : log'[i] = log[i]
      /\ \A i \in DOMAIN log : i < n
      /\ log'[n].stream = c
  <2>1. \A i \in DOMAIN log : i < n
    <3>1. DOMAIN log = 1 .. Len(log) /\ Len(log) \in Nat
      BY <1>2
    <3> QED BY <3>1
  <2>2. CloseEvent(c).stream = c
    BY DEF CloseEvent
  <2> QED BY <1>2, <2>1, <2>2, InsertFacts
<1>4. rules'[n] = op[w].rule
  BY DEF CloseEventStep, Insert, CloseInv, Recorded, TypeInv, TypeOK
<1>5. DirectRows(c) \subseteq RowsBefore(log[n].stream, n)'
  BY <1>3 DEF RowsBefore, DirectRows, SectionRows, Direct
<1> HIDE DEF c, t
<1>6. RowsSatisfy(t, RowsBefore(log[n].stream, n)')
  BY <1>1, <1>5, RowsSatisfyMore
<1> QED BY <1>1, <1>4, <1>6 DEF MeetsRequires, t, RowsSatisfy

LEMMA CloseMeetsRequiresStep ==
  ASSUME TypeInv, Next, CloseInv
  PROVE  CloseMeetsRequires'
<1> SUFFICES ASSUME NEW n \in DOMAIN log', log'[n].type = "close"
             PROVE  MeetsRequires(n)'
  BY DEF CloseMeetsRequires, MeetsRequires
<1>1. CASE n \in DOMAIN log
  BY <1>1, EarlierCloses, LogGrows
<1>2. CASE n \notin DOMAIN log
  <2>1. ASSUME NEW e \in Event, InsertEvent(e)
        PROVE  n = Len(log) + 1 /\ log'[n] = e
    BY <1>2, <2>1, InsertFacts DEF TypeInv, TypeOK, StoreTypeOK
  <2>2. ASSUME NEW w \in Cores, NEW c \in Chapters, NEW k \in SchemaIds,
               OpenEventStep(w, c, k)
        PROVE  FALSE
    <3>1. OpenEvent(c) \in Event /\ OpenEvent(c).type = "open"
      BY DEF OpenEvent, Event
    <3> QED BY <2>1, <2>2, <3>1 DEF OpenEventStep, Insert
  <2>3. ASSUME NEW w \in Cores, AppendEventStep(w)
        PROVE  FALSE
    <3> DEFINE e == SectionEvent(op[w].chapter, op[w].section, op[w].blank)
    <3>1. e \in Event /\ e.type = "section_append"
      BY <2>3 DEF AppendEventStep, Go, TypeInv, TypeOK, OperationsBound,
                  ChapterSteps, SectionSteps, Operation, SectionEvent, Event
    <3> QED BY <2>1, <2>3, <3>1 DEF AppendEventStep, Insert
  <2>4. ASSUME NEW w \in Cores, CloseEventStep(w)
        PROVE  MeetsRequires(n)'
    <3>1. CloseEvent(op[w].chapter) \in Event
      BY <2>4 DEF CloseEventStep, Go, TypeInv, OperationsBound, ChapterSteps,
                  CloseEvent, Event
    <3>2. n = Len(log) + 1
      BY <2>1, <2>4, <3>1 DEF CloseEventStep, Insert
    <3> QED BY <2>4, <3>2, NewClose
  <2>5. ASSUME NEW w \in Cores, ImportCommit(w)
        PROVE  FALSE
    <3>1. /\ ImportEvent(op[w].batch) \in Event
          /\ ImportEvent(op[w].batch).type = "import"
      BY DEF TypeInv, TypeOK, Operation, ImportEvent, Event
    <3> QED BY <2>1, <2>5, <3>1 DEF ImportCommit, InsertImport
  <2>6. log' # log
    BY <1>2
  <2>7. \A w \in Cores : OpenMetaStep(w) \/ AppendStateStep(w)
                           \/ CloseStateStep(w) => log' = log
    BY DEF OpenMetaStep, AppendStateStep, CloseStateStep
  <2> QED BY <2>2, <2>3, <2>4, <2>5, <2>6, <2>7, StoreSteps
<1> QED BY <1>1, <1>2

(* A close event is in the log only if the rows before it satisfied the      *)
(* transition it was validated with: what close_chapter checked before its   *)
(* INSERT is still true at the INSERT, for any number of cores, because rows *)
(* are only added.  ImportsAreFinal is needed: the check of a chapter        *)
(* without a stream reads the import payload instead.                        *)
THEOREM ClosesMeetRequires ==
  ASSUME ImportsAreFinal
  PROVE  Spec => []CloseMeetsRequires
<1>1. Init => CloseInv
  BY DEF Init, StoreInit, CloseInv, Recorded, StreamsOpened, CloseAdmitted,
         CloseMeetsRequires, Exists, StreamSteps, CloseSteps
<1>2. TypeInv /\ [Next]_vars /\ CloseInv => CloseInv'
  <2> SUFFICES ASSUME TypeInv, [Next]_vars, CloseInv
               PROVE  CloseInv'
    OBVIOUS
  <2>1. CASE Next
    BY <2>1, RecordedStep, StreamsOpenedStep, CloseAdmittedStep,
       CloseMeetsRequiresStep DEF CloseInv
  <2>2. CASE UNCHANGED vars
    <3>1. /\ log' = log /\ meta' = meta /\ rules' = rules
          /\ pc' = pc /\ op' = op
      BY <2>2 DEF vars
    <3>2. /\ \A c : Direct(c)' = Direct(c)
          /\ \A c : DirectRows(c)' = DirectRows(c)
      BY <3>1 DEF DirectRows, SectionRows, Direct
    <3>3. Recorded' /\ StreamsOpened'
      BY <3>1, <3>2 DEF CloseInv, Recorded, StreamsOpened, Exists
    <3>4. CloseAdmitted'
      BY <3>1, <3>2 DEF CloseInv, CloseAdmitted
    <3>5. CloseMeetsRequires'
      BY <3>1, <3>2 DEF CloseInv, CloseMeetsRequires, RowsBefore
    <3> QED BY <3>3, <3>4, <3>5 DEF CloseInv
  <2> QED BY <2>1, <2>2
<1>3. CloseInv => CloseMeetsRequires
  BY DEF CloseInv
<1> QED BY <1>1, <1>2, <1>3, TypeInvariant, PTL DEF Spec
=============================================================================
