------------------------- MODULE SharedStore_proofs -------------------------
(***************************************************************************)
(* Theorems about JournalCore for any number of cores on one store: what   *)
(* counts the rows of a section (acknowledgements, running calls and       *)
(* failures; writers, under append-once), what a close settles, and the    *)
(* refinement of SharedSpec.                                               *)
(***************************************************************************)
EXTENDS SingleCore_proofs, FiniteSetTheorems

(* The core is past the INSERT of an append. *)
Flying(w) == pc[w] \in {"append_state", "dispatch"}

OthersStay(w) ==
  \A u \in Cores \ {w} : pc'[u] = pc[u] /\ op'[u] = op[u]

RowsStay == \A c \in Chapters, s \in Sections : RowsOf(c, s)' = RowsOf(c, s)

(* A step that counts nothing, and a step that ends a call by a failure.     *)
Neutral(w) ==
  /\ Flying(w)' <=> Flying(w)
  /\ Flying(w) => op'[w] = op[w]
  /\ RowsStay
  /\ UNCHANGED <<faults, acked>>

Fails(w) ==
  /\ pc'[w] = "idle"
  /\ faults' = faults + 1
  /\ RowsStay
  /\ UNCHANGED acked

CountedStep(w) ==
  /\ OthersStay(w)
  /\ AppendEventStep(w) \/ Dispatch(w) \/ Neutral(w) \/ Fails(w)

-----------------------------------------------------------------------------
(* Every step is one of the four. *)

LEMMA SameLogSameRows ==
  ASSUME log' = log
  PROVE  RowsStay
BY DEF RowsStay, RowsOf, SectionRows, Direct

LEMMA OtherEventsAreNoRows ==
  ASSUME TypeInv, NEW e \in Event, InsertEvent(e), e.type # "section_append"
  PROVE  RowsStay
<1>1. log \in Seq(Event)
  BY DEF TypeInv, TypeOK, StoreTypeOK
<1> QED BY <1>1, InsertFacts DEF RowsStay, RowsOf, SectionRows, Direct

LEMMA Staying ==
  ASSUME TypeInv, NEW w \in Cores
  PROVE  /\ \A step, o : Start(w, step, o) =>
              OthersStay(w) /\ pc'[w] = step /\ op'[w] = o
         /\ \A from, to : Go(w, from, to) =>
              /\ OthersStay(w)
              /\ pc[w] = from /\ pc'[w] = to /\ op'[w] = op[w]
         /\ Return(w) => OthersStay(w) /\ pc'[w] = "idle"
BY DEF TypeInv, TypeOK, Start, Go, Return, OthersStay

LEMMA OpenCounted ==
  ASSUME TypeInv, NEW w \in Cores, OpenChapter(w)
  PROVE  CountedStep(w)
<1>1. ASSUME NEW c \in Chapters, NEW k \in SchemaIds, OpenEventStep(w, c, k)
      PROVE  CountedStep(w)
  <2>1. OpenEvent(c) \in Event /\ OpenEvent(c).type # "section_append"
    BY DEF OpenEvent, Event
  <2>2. RowsStay
    BY <1>1, <2>1, OtherEventsAreNoRows DEF OpenEventStep, Insert
  <2>3. OthersStay(w) /\ pc[w] = "idle" /\ pc'[w] = "open_meta"
    BY <1>1, Staying DEF OpenEventStep, Ready, Idle
  <2> QED BY <1>1, <2>2, <2>3 DEF OpenEventStep, CountedStep, Neutral, Flying
<1>2. CASE OpenMetaStep(w) \/ OpenConflict(w)
  <2>1. OthersStay(w) /\ pc[w] = "open_meta" /\ pc'[w] = "idle" /\ RowsStay
    BY <1>2, Staying, SameLogSameRows DEF OpenMetaStep, OpenConflict
  <2> QED
    BY <1>2, <2>1 DEF OpenMetaStep, OpenConflict, CountedStep, Neutral, Flying
<1> QED BY <1>1, <1>2 DEF OpenChapter

LEMMA AppendCounted ==
  ASSUME TypeInv, NEW w \in Cores, AppendSection(w)
  PROVE  CountedStep(w)
<1>1. ASSUME NEW c \in Chapters, NEW s \in Sections, NEW b \in BOOLEAN,
             AppendValidate(w, c, s, b)
      PROVE  CountedStep(w)
  <2>1. /\ OthersStay(w) /\ RowsStay
        /\ pc[w] = "idle" /\ pc'[w] \in {"append_admit", "append_event"}
    BY <1>1, Staying, SameLogSameRows DEF AppendValidate, Ready, Idle
  <2> QED BY <1>1, <2>1 DEF AppendValidate, CountedStep, Neutral, Flying
<1>2. CASE AppendAdmit(w)
  <2>1. /\ OthersStay(w) /\ RowsStay
        /\ pc[w] = "append_admit" /\ pc'[w] = "append_event"
    BY <1>2, Staying, SameLogSameRows DEF AppendAdmit
  <2> QED BY <1>2, <2>1 DEF AppendAdmit, CountedStep, Neutral, Flying
<1>3. CASE AppendOnceRefused(w)
  <2>1. /\ OthersStay(w) /\ RowsStay
        /\ pc[w] = "append_admit" /\ pc'[w] = "idle"
    BY <1>3, Staying, SameLogSameRows DEF AppendOnceRefused, Reject
  <2> QED BY <1>3, <2>1
          DEF AppendOnceRefused, Reject, CountedStep, Neutral, Flying
<1>4. CASE AppendEventStep(w)
  BY <1>4, Staying DEF AppendEventStep, CountedStep
<1>5. CASE AppendStateStep(w)
  <2>1. /\ OthersStay(w) /\ RowsStay
        /\ pc[w] = "append_state" /\ pc'[w] = "dispatch" /\ op'[w] = op[w]
    BY <1>5, Staying, SameLogSameRows DEF AppendStateStep
  <2> QED BY <1>5, <2>1 DEF AppendStateStep, CountedStep, Neutral, Flying
<1>6. CASE Dispatch(w)
  BY <1>6, Staying DEF Dispatch, CountedStep
<1>7. CASE DispatchFails(w)
  <2>1. OthersStay(w) /\ RowsStay /\ pc'[w] = "idle"
    BY <1>7, Staying, SameLogSameRows DEF DispatchFails
  <2> QED BY <1>7, <2>1 DEF DispatchFails, CountedStep, Fails
<1> QED
  BY <1>1, <1>2, <1>3, <1>4, <1>5, <1>6, <1>7 DEF AppendSection

LEMMA CloseCounted ==
  ASSUME TypeInv, NEW w \in Cores, CloseChapter(w)
  PROVE  CountedStep(w)
<1>1. ASSUME NEW c \in Chapters, CloseValidate(w, c)
      PROVE  CountedStep(w)
  <2>1. /\ OthersStay(w) /\ RowsStay
        /\ pc[w] = "idle" /\ pc'[w] = "close_check"
    BY <1>1, Staying, SameLogSameRows DEF CloseValidate, Ready, Idle
  <2> QED BY <1>1, <2>1 DEF CloseValidate, CountedStep, Neutral, Flying
<1>2. CASE CloseCheck(w)
  <2>1. /\ OthersStay(w) /\ RowsStay
        /\ pc[w] = "close_check" /\ pc'[w] = "close_event"
    BY <1>2, Staying, SameLogSameRows DEF CloseCheck
  <2> QED BY <1>2, <2>1 DEF CloseCheck, CountedStep, Neutral, Flying
<1>3. CASE CloseRefused(w) \/ CloseStateStep(w)
  <2>1. /\ OthersStay(w) /\ RowsStay
        /\ pc[w] \in {"close_check", "close_state"} /\ pc'[w] = "idle"
    BY <1>3, Staying, SameLogSameRows
    DEF CloseRefused, Reject, CloseStateStep
  <2> QED BY <1>3, <2>1
          DEF CloseRefused, Reject, CloseStateStep, CountedStep, Neutral, Flying
<1>4. CASE CloseEventStep(w)
  <2>1. /\ CloseEvent(op[w].chapter) \in Event
        /\ CloseEvent(op[w].chapter).type # "section_append"
    BY <1>4 DEF CloseEventStep, Go, TypeInv, OperationsBound, ChapterSteps,
                CloseEvent, Event
  <2>2. RowsStay
    BY <1>4, <2>1, OtherEventsAreNoRows DEF CloseEventStep, Insert
  <2>3. /\ OthersStay(w)
        /\ pc[w] = "close_event" /\ pc'[w] = "close_state"
    BY <1>4, Staying DEF CloseEventStep
  <2> QED BY <1>4, <2>2, <2>3 DEF CloseEventStep, CountedStep, Neutral, Flying
<1> QED BY <1>1, <1>2, <1>3, <1>4 DEF CloseChapter

LEMMA ImportCounted ==
  ASSUME TypeInv, NEW w \in Cores, ImportChapter(w)
  PROVE  CountedStep(w)
<1>1. ASSUME NEW batch \in ImportFiles, ImportCheck(w, batch)
      PROVE  CountedStep(w)
  <2>1. /\ OthersStay(w) /\ RowsStay
        /\ pc[w] = "idle" /\ pc'[w] = "import_tx"
    BY <1>1, Staying, SameLogSameRows DEF ImportCheck, Ready, Idle
  <2> QED BY <1>1, <2>1 DEF ImportCheck, CountedStep, Neutral, Flying
<1>2. CASE ImportCommit(w)
  <2>1. /\ ImportEvent(op[w].batch) \in Event
        /\ ImportEvent(op[w].batch).type # "section_append"
    BY DEF TypeInv, TypeOK, Operation, ImportEvent, Event
  <2>2. RowsStay
    BY <1>2, <2>1, OtherEventsAreNoRows DEF ImportCommit, InsertImport
  <2>3. OthersStay(w) /\ pc[w] = "import_tx" /\ pc'[w] = "idle"
    BY <1>2, Staying DEF ImportCommit
  <2> QED BY <1>2, <2>2, <2>3 DEF ImportCommit, CountedStep, Neutral, Flying
<1>3. CASE ImportRollback(w)
  <2>1. /\ OthersStay(w) /\ RowsStay
        /\ pc[w] = "import_tx" /\ pc'[w] = "idle"
    BY <1>3, Staying, SameLogSameRows DEF ImportRollback
  <2> QED BY <1>3, <2>1 DEF ImportRollback, CountedStep, Neutral, Flying
<1> QED BY <1>1, <1>2, <1>3 DEF ImportChapter

LEMMA EnvironmentCounted ==
  ASSUME TypeInv, NEW w \in Cores, Environment(w)
  PROVE  CountedStep(w)
<1>1. RowsStay
  BY SameLogSameRows DEF Environment, LoadSchema, StatementFails, Crash
<1>2. ASSUME NEW k, NEW v, LoadSchema(w, k, v)
      PROVE  CountedStep(w)
  BY <1>1, <1>2 DEF LoadSchema, CountedStep, OthersStay, Neutral, Flying
<1>3. CASE StatementFails(w) \/ Crash(w)
  <2>1. OthersStay(w) /\ pc'[w] = "idle"
    BY <1>3, Staying DEF StatementFails, Crash
  <2> QED BY <1>1, <1>3, <2>1 DEF StatementFails, Crash, CountedStep, Fails
<1> QED BY <1>2, <1>3 DEF Environment

-----------------------------------------------------------------------------
(* The count of one section. *)

Count(c, s) ==
  /\ IsFiniteSet(InFlight(c, s))
  /\ acked[c][s] + Cardinality(InFlight(c, s)) <= Cardinality(RowsOf(c, s))
  /\ Cardinality(RowsOf(c, s))
       <= acked[c][s] + Cardinality(InFlight(c, s)) + faults

CountInv == \A c \in Chapters, s \in Sections : Count(c, s)

LEMMA RowsFinite ==
  ASSUME TypeInv, NEW c, NEW s
  PROVE  /\ IsFiniteSet(RowsOf(c, s))
         /\ Cardinality(RowsOf(c, s)) \in Nat
<1>1. RowsOf(c, s) \in SUBSET (1 .. Len(log)) /\ Len(log) \in Nat
  BY DEF RowsOf, SectionRows, Direct, TypeInv, TypeOK, StoreTypeOK
<1>2. IsFiniteSet(1 .. Len(log))
  BY <1>1, FS_Interval
<1>3. IsFiniteSet(RowsOf(c, s))
  BY <1>1, <1>2, FS_Subset
<1> QED BY <1>3, FS_CardinalityType

LEMMA CountAppend ==
  ASSUME TypeInv, NEW w \in Cores, AppendEventStep(w), OthersStay(w),
         NEW c \in Chapters, NEW s \in Sections, Count(c, s)
  PROVE  Count(c, s)'
<1> DEFINE e == SectionEvent(op[w].chapter, op[w].section, op[w].blank)
           n == Len(log) + 1
           mine == op[w].chapter = c /\ op[w].section = s
<1>1. /\ pc[w] = "append_event" /\ pc'[w] = "append_state" /\ op'[w] = op[w]
      /\ UNCHANGED <<faults, acked>>
  BY Staying DEF AppendEventStep
<1>2. /\ e \in Event /\ e.type = "section_append"
      /\ e.stream = op[w].chapter /\ e.section = op[w].section
      /\ InsertEvent(e) /\ log \in Seq(Event)
  BY DEF AppendEventStep, Go, Insert, TypeInv, TypeOK, StoreTypeOK,
         OperationsBound, ChapterSteps, SectionSteps, Operation, SectionEvent,
         Event
<1>3. /\ DOMAIN log' = DOMAIN log \cup {n} /\ n \notin DOMAIN log
      /\ log'[n] = e /\ \A i \in DOMAIN log : log'[i] = log[i]
  BY <1>2, InsertFacts
<1>4. w \notin InFlight(c, s) /\ n \notin RowsOf(c, s)
  BY <1>1, <1>3 DEF InFlight, RowsOf, SectionRows, Direct
<1>5. acked[c][s] \in Nat /\ faults \in Nat
  BY DEF TypeInv, TypeOK
<1>6. Cardinality(InFlight(c, s)) \in Nat /\ Cardinality(RowsOf(c, s)) \in Nat
  BY RowsFinite, FS_CardinalityType DEF Count
<1>7. CASE mine
  <2>1. RowsOf(c, s)' = RowsOf(c, s) \cup {n}
    <3> HIDE DEF e, n
    <3>1. \A i : i \in RowsOf(c, s)' <=> i \in RowsOf(c, s) \/ i = n
      BY <1>2, <1>3, <1>7 DEF RowsOf, SectionRows, Direct
    <3> QED BY <3>1
  <2>2. InFlight(c, s)' = InFlight(c, s) \cup {w}
    BY <1>1, <1>7 DEF InFlight, OthersStay
  <2>3. /\ IsFiniteSet(InFlight(c, s)')
        /\ Cardinality(InFlight(c, s)') = Cardinality(InFlight(c, s)) + 1
    BY <1>4, <2>2, FS_AddElement DEF Count
  <2>4. Cardinality(RowsOf(c, s)') = Cardinality(RowsOf(c, s)) + 1
    <3> HIDE DEF n
    <3> QED BY <1>4, <2>1, RowsFinite, FS_AddElement
  <2> QED BY <1>1, <1>5, <1>6, <2>3, <2>4 DEF Count
<1>8. CASE ~mine
  <2>1. RowsOf(c, s)' = RowsOf(c, s)
    BY <1>2, <1>3, <1>8 DEF RowsOf, SectionRows, Direct
  <2>2. InFlight(c, s)' = InFlight(c, s)
    BY <1>1, <1>8 DEF InFlight, OthersStay
  <2> QED BY <1>1, <2>1, <2>2 DEF Count
<1> QED BY <1>7, <1>8

LEMMA CountDispatch ==
  ASSUME TypeInv, NEW w \in Cores, Dispatch(w), OthersStay(w),
         NEW c \in Chapters, NEW s \in Sections, Count(c, s)
  PROVE  Count(c, s)'
<1> DEFINE mine == op[w].chapter = c /\ op[w].section = s
<1>1. /\ pc[w] = "dispatch" /\ pc'[w] = "idle" /\ faults' = faults
      /\ acked' = [acked EXCEPT ![op[w].chapter][op[w].section] = @ + 1]
  BY Staying DEF Dispatch
<1>2. RowsOf(c, s)' = RowsOf(c, s)
  BY SameLogSameRows DEF Dispatch, RowsStay
<1>3. InFlight(c, s)' = InFlight(c, s) \ {w}
  BY <1>1 DEF InFlight, OthersStay
<1>4. acked[c][s] \in Nat /\ faults \in Nat
  BY DEF TypeInv, TypeOK
<1>5. Cardinality(InFlight(c, s)) \in Nat /\ Cardinality(RowsOf(c, s)) \in Nat
  BY RowsFinite, FS_CardinalityType DEF Count
<1>6. /\ op[w].chapter \in Chapters /\ op[w].section \in Sections
      /\ acked \in [Chapters -> [Sections -> Nat]]
  BY <1>1 DEF TypeInv, TypeOK, OperationsBound, ChapterSteps, SectionSteps
<1>7. CASE mine
  <2>1. w \in InFlight(c, s)
    BY <1>1, <1>7 DEF InFlight
  <2>2. /\ IsFiniteSet(InFlight(c, s)')
        /\ Cardinality(InFlight(c, s)') = Cardinality(InFlight(c, s)) - 1
    BY <1>3, <2>1, FS_RemoveElement DEF Count
  <2>3. acked'[c][s] = acked[c][s] + 1
    BY <1>1, <1>6, <1>7
  <2> QED BY <1>1, <1>2, <1>4, <1>5, <2>2, <2>3 DEF Count
<1>8. CASE ~mine
  <2>1. InFlight(c, s)' = InFlight(c, s)
    BY <1>3, <1>8 DEF InFlight
  <2>2. acked'[c][s] = acked[c][s]
    BY <1>1, <1>6, <1>8
  <2> QED BY <1>1, <1>2, <2>1, <2>2 DEF Count
<1> QED BY <1>7, <1>8

LEMMA CountFails ==
  ASSUME TypeInv, NEW w \in Cores, Fails(w), OthersStay(w),
         NEW c \in Chapters, NEW s \in Sections, Count(c, s)
  PROVE  Count(c, s)'
<1>1. InFlight(c, s)' = InFlight(c, s) \ {w}
  BY DEF Fails, InFlight, OthersStay
<1>2. /\ IsFiniteSet(InFlight(c, s)')
      /\ Cardinality(InFlight(c, s)') \in
           {Cardinality(InFlight(c, s)), Cardinality(InFlight(c, s)) - 1}
  BY <1>1, FS_RemoveElement DEF Count
<1>3. Cardinality(InFlight(c, s)) \in Nat /\ Cardinality(RowsOf(c, s)) \in Nat
  BY RowsFinite, FS_CardinalityType DEF Count
<1>4. RowsOf(c, s)' = RowsOf(c, s) /\ acked' = acked /\ faults' = faults + 1
  BY DEF Fails, RowsStay
<1>5. acked[c][s] \in Nat /\ faults \in Nat
  BY DEF TypeInv, TypeOK
<1> QED BY <1>2, <1>3, <1>4, <1>5 DEF Count

LEMMA CountNeutral ==
  ASSUME NEW w \in Cores, Neutral(w), OthersStay(w),
         NEW c \in Chapters, NEW s \in Sections, Count(c, s)
  PROVE  Count(c, s)'
<1>1. InFlight(c, s)' = InFlight(c, s)
  BY DEF Neutral, Flying, InFlight, OthersStay
<1> QED BY <1>1 DEF Neutral, RowsStay, Count

LEMMA CountNext == TypeInv /\ CountInv /\ [Next]_vars => CountInv'
<1> SUFFICES ASSUME TypeInv, CountInv, [Next]_vars,
                    NEW c \in Chapters, NEW s \in Sections
             PROVE  Count(c, s)'
  BY DEF CountInv
<1>1. Count(c, s)
  BY DEF CountInv
<1>2. ASSUME NEW w \in Cores, CountedStep(w) PROVE Count(c, s)'
  BY <1>1, <1>2, CountAppend, CountDispatch, CountFails, CountNeutral
  DEF CountedStep
<1>3. CASE Next
  BY <1>2, <1>3, OpenCounted, AppendCounted, CloseCounted, ImportCounted,
     EnvironmentCounted DEF Next
<1>4. CASE UNCHANGED vars
  BY <1>1, <1>4 DEF vars, Count, InFlight, RowsOf, SectionRows, Direct
<1> QED BY <1>3, <1>4

LEMMA CountInit == Init => CountInv
<1> SUFFICES ASSUME Init, NEW c \in Chapters, NEW s \in Sections
             PROVE  Count(c, s)
  BY DEF CountInv
<1>1. InFlight(c, s) = {} /\ RowsOf(c, s) = {}
  BY DEF Init, StoreInit, InFlight, RowsOf, SectionRows, Direct
<1>2. acked[c][s] = 0 /\ faults = 0
  BY DEF Init
<1> QED BY <1>1, <1>2, FS_EmptySet DEF Count

(* However many cores write and whatever fails: no acknowledged append is    *)
(* lost, and every row that nobody was told of belongs to a call that is     *)
(* running or to a failure (core.rs append_section: the row is committed     *)
(* before the UPDATE and the callbacks that can fail).                       *)
THEOREM RowsExplained == Spec => []FailuresExplainRows
<1>1. CountInv => FailuresExplainRows
  BY DEF CountInv, Count, FailuresExplainRows
<1> QED BY <1>1, CountInit, CountNext, TypeInvariant, PTL DEF Spec

-----------------------------------------------------------------------------
(* The rows of an append-once section. *)

(* The cores that have found no row in an append-once section and will       *)
(* insert one.                                                               *)
Admitted(c, s) ==
  {w \in Cores : /\ pc[w] = "append_event"
                 /\ op[w].chapter = c
                 /\ op[w].section = s
                 /\ op[w].rule # NoSchema
                 /\ IsAppendOnce(op[w].rule, s)}

OnceBound(c, s) ==
  Cardinality(OnceRows(c, s)) + Cardinality(Admitted(c, s))
    <= Cardinality(Cores)

RaceInv == \A c \in Chapters, s \in Sections : OnceBound(c, s)

LEMMA OnceFinite ==
  ASSUME IsFiniteSet(Cores), TypeInv, NEW c, NEW s
  PROVE  /\ IsFiniteSet(OnceRows(c, s))
         /\ IsFiniteSet(Admitted(c, s))
         /\ Cardinality(OnceRows(c, s)) \in Nat
         /\ Cardinality(Admitted(c, s)) \in Nat
         /\ Cardinality(Cores) \in Nat
<1>1. IsFiniteSet(OnceRows(c, s))
  BY RowsFinite, FS_Subset DEF OnceRows
<1>2. IsFiniteSet(Admitted(c, s))
  BY FS_Subset DEF Admitted
<1> QED BY <1>1, <1>2, FS_CardinalityType

(* Only AppendAdmit lets a core in, and it has found no row.                 *)
LEMMA OnceLetIn ==
  ASSUME TypeInv, Next, NEW c, NEW s, NEW u \in Admitted(c, s)',
         u \notin Admitted(c, s)
  PROVE  log' = log /\ OnceRows(c, s) = {}
<1>1. /\ u \in Cores /\ pc'[u] = "append_event"
      /\ op'[u].chapter = c /\ op'[u].section = s
      /\ op'[u].rule # NoSchema /\ IsAppendOnce(op'[u].rule, s)
  BY DEF Admitted, IsAppendOnce, Declares
<1>2. pc \in [Cores -> Steps] /\ op \in [Cores -> Operation]
  BY DEF TypeInv, TypeOK
<1>3. ASSUME NEW d \in Chapters, NEW z \in Sections, NEW b \in BOOLEAN,
             AppendValidate(u, d, z, b)
      PROVE  FALSE
  <2>1. ~IsAppendOnce(SchemaOf(u, d), z)
    BY <1>1, <1>2, <1>3 DEF AppendValidate, Start
  <2>2. op'[u].section = z /\ op'[u].rule = SchemaOf(u, d)
    BY <1>1, <1>2, <1>3 DEF AppendValidate, Start, Unbound
  <2> QED BY <1>1, <2>1, <2>2
<1>4. ~(pc'[u] = pc[u] /\ op'[u] = op[u])
  BY <1>1 DEF Admitted
<1>5. /\ pc'[u] # "idle"
      /\ \A d, k : ~OpenEventStep(u, d, k)
      /\ ~AppendEventStep(u) /\ ~AppendStateStep(u)
      /\ \A d : ~CloseValidate(u, d)
      /\ ~CloseCheck(u) /\ ~CloseEventStep(u)
      /\ \A batch : ~ImportCheck(u, batch)
  BY <1>1, <1>2 DEF OpenEventStep, AppendEventStep, AppendStateStep,
                    CloseValidate, CloseCheck, CloseEventStep, ImportCheck,
                    Start, Go
<1>6. AppendAdmit(u)
  BY <1>1, <1>3, <1>4, <1>5, Moves
<1>7. op'[u] = op[u] /\ log' = log /\ ~HasSection(c, s)
  BY <1>1, <1>6 DEF AppendAdmit, Go
<1> QED BY <1>7 DEF HasSection, OnceRows, RowsOf

(* A row comes from the core that inserts it.                                *)
LEMMA OnceInserted ==
  ASSUME TypeInv, Recorded, NEW w \in Cores, AppendEventStep(w), Next,
         NEW c, NEW s
  PROVE  \/ OnceRows(c, s)' \subseteq OnceRows(c, s)
         \/ /\ w \in Admitted(c, s)
            /\ OnceRows(c, s)' \subseteq OnceRows(c, s) \cup {Len(log) + 1}
<1> DEFINE e == SectionEvent(op[w].chapter, op[w].section, op[w].blank)
           n == Len(log) + 1
<1>1. /\ e \in Event /\ e.stream = op[w].chapter /\ e.section = op[w].section
      /\ InsertEvent(e) /\ log \in Seq(Event)
  BY DEF AppendEventStep, Go, Insert, TypeInv, TypeOK, StoreTypeOK,
         OperationsBound, ChapterSteps, SectionSteps, Operation, SectionEvent,
         Event
<1>2. /\ DOMAIN log' = DOMAIN log \cup {n} /\ n \notin DOMAIN log
      /\ log'[n] = e /\ \A i \in DOMAIN log : log'[i] = log[i]
  BY <1>1, InsertFacts
<1>3. /\ rules'[n] = op[w].rule
      /\ \A i \in DOMAIN log : rules'[i] = rules[i]
  <2>1. rules' = Append(rules, op[w].rule) /\ n = Len(rules) + 1
    BY DEF AppendEventStep, Insert, Recorded
  <2>2. rules \in Seq(Versions \cup {NoSchema})
    BY DEF TypeInv, TypeOK
  <2> QED BY <2>1, <2>2, RecordedStep
<1>4. pc[w] = "append_event"
  BY DEF AppendEventStep, Go
<1> HIDE DEF n
<1>5. \A i \in OnceRows(c, s)' : i \in OnceRows(c, s) \/ i = n
  BY <1>2, <1>3 DEF OnceRows, RowsOf, SectionRows, Direct, IsAppendOnce,
                    Declares
<1>6. ASSUME n \in OnceRows(c, s)'
      PROVE  w \in Admitted(c, s)
  <2>1. /\ log'[n].stream = c /\ log'[n].section = s
        /\ rules'[n] # NoSchema /\ IsAppendOnce(rules'[n], s)
    BY <1>6 DEF OnceRows, RowsOf, SectionRows, Direct, IsAppendOnce, Declares
  <2> QED BY <1>1, <1>2, <1>3, <1>4, <2>1 DEF Admitted
<1>7. CASE n \in OnceRows(c, s)'
  BY <1>5, <1>6, <1>7 DEF n
<1>8. CASE n \notin OnceRows(c, s)'
  BY <1>5, <1>8
<1> QED BY <1>7, <1>8

LEMMA OnceOthers ==
  ASSUME TypeInv, Recorded, Next, \A w \in Cores : ~AppendEventStep(w),
         NEW c \in Chapters, NEW s \in Sections
  PROVE  OnceRows(c, s)' = OnceRows(c, s)
<1>1. RowsStay
  <2>1. PICK w \in Cores : CountedStep(w)
    BY OpenCounted, AppendCounted, CloseCounted, ImportCounted,
       EnvironmentCounted DEF Next
  <2> QED BY <2>1, SameLogSameRows
          DEF CountedStep, Neutral, Fails, Dispatch
<1>2. RowsOf(c, s)' = RowsOf(c, s)
  BY <1>1 DEF RowsStay
<1>3. \A i \in RowsOf(c, s) : rules'[i] = rules[i]
  BY RecordedStep DEF RowsOf, SectionRows, Direct
<1> QED BY <1>2, <1>3 DEF OnceRows, IsAppendOnce, Declares

LEMMA OnceNext ==
  ASSUME IsFiniteSet(Cores), TypeInv, TypeInv', Recorded, Next,
         NEW c \in Chapters, NEW s \in Sections, OnceBound(c, s)
  PROVE  OnceBound(c, s)'
<1> DEFINE R == Cardinality(OnceRows(c, s))
           A == Cardinality(Admitted(c, s))
           N == Cardinality(Cores)
<1>1. /\ IsFiniteSet(OnceRows(c, s)) /\ IsFiniteSet(Admitted(c, s))
      /\ R \in Nat /\ A \in Nat /\ N \in Nat
  BY OnceFinite
<1>2. Admitted(c, s)' \subseteq Cores
  BY DEF Admitted
<1>3. CASE \E u \in Admitted(c, s)' : u \notin Admitted(c, s)
  <2>1. log' = log /\ OnceRows(c, s) = {}
    BY <1>3, OnceLetIn
  <2>2. OnceRows(c, s)' = {}
    <3>1. RowsOf(c, s)' = RowsOf(c, s)
      BY <2>1, SameLogSameRows DEF RowsStay
    <3>2. \A i \in RowsOf(c, s) : rules'[i] = rules[i]
      BY RecordedStep DEF RowsOf, SectionRows, Direct
    <3> QED BY <2>1, <3>1, <3>2 DEF OnceRows, IsAppendOnce, Declares
  <2>3. /\ Cardinality(OnceRows(c, s)') = 0
        /\ Cardinality(Admitted(c, s)') <= N
        /\ Cardinality(Admitted(c, s)') \in Nat
    BY <1>2, <2>2, FS_EmptySet, FS_Subset, FS_CardinalityType
  <2> QED BY <1>1, <2>3 DEF OnceBound
<1>4. CASE Admitted(c, s)' \subseteq Admitted(c, s)
           /\ OnceRows(c, s)' \subseteq OnceRows(c, s)
  <2>1. /\ Cardinality(OnceRows(c, s)') <= R
        /\ Cardinality(Admitted(c, s)') <= A
        /\ Cardinality(OnceRows(c, s)') \in Nat
        /\ Cardinality(Admitted(c, s)') \in Nat
    BY <1>1, <1>4, FS_Subset, FS_CardinalityType
  <2> QED BY <1>1, <2>1 DEF OnceBound
<1>5. ASSUME NEW w \in Cores, AppendEventStep(w), w \in Admitted(c, s),
             OnceRows(c, s)' \subseteq OnceRows(c, s) \cup {Len(log) + 1},
             Admitted(c, s)' \subseteq Admitted(c, s)
      PROVE  OnceBound(c, s)'
  <2>1. pc'[w] = "append_state"
    BY <1>5, Staying DEF AppendEventStep
  <2>2. Admitted(c, s)' \subseteq Admitted(c, s) \ {w}
    BY <1>5, <2>1 DEF Admitted
  <2>3. /\ IsFiniteSet(Admitted(c, s) \ {w})
        /\ Cardinality(Admitted(c, s) \ {w}) = A - 1
    BY <1>1, <1>5, FS_RemoveElement
  <2>4. /\ Cardinality(Admitted(c, s)') <= A - 1
        /\ Cardinality(Admitted(c, s)') \in Nat
    BY <2>2, <2>3, FS_Subset, FS_CardinalityType
  <2>5. /\ IsFiniteSet(OnceRows(c, s) \cup {Len(log) + 1})
        /\ Cardinality(OnceRows(c, s) \cup {Len(log) + 1}) \in {R, R + 1}
    BY <1>1, FS_AddElement
  <2>6. /\ Cardinality(OnceRows(c, s)') <= R + 1
        /\ Cardinality(OnceRows(c, s)') \in Nat
    BY <1>1, <1>5, <2>5, FS_Subset, FS_CardinalityType
  <2> QED BY <1>1, <2>4, <2>6 DEF OnceBound
<1>6. CASE Admitted(c, s)' \subseteq Admitted(c, s)
  BY <1>4, <1>5, <1>6, OnceInserted, OnceOthers
<1> QED BY <1>3, <1>6

(* Several writers can each find an append-once section empty before any of  *)
(* them inserts (core.rs:349, section_count and the INSERT are two           *)
(* statements), but not more than once each: the section never has more      *)
(* rows than there are writers.                                              *)
THEOREM OnceRowsBounded ==
  ASSUME IsFiniteSet(Cores)
  PROVE  Spec => []AppendOnceRaceBounded
<1>1. Init => RaceInv
  <2> SUFFICES ASSUME Init, NEW c \in Chapters, NEW s \in Sections
               PROVE  OnceBound(c, s)
    BY DEF RaceInv
  <2>1. OnceRows(c, s) = {} /\ Admitted(c, s) = {}
    BY DEF Init, StoreInit, OnceRows, RowsOf, SectionRows, Direct, Admitted
  <2>2. Cardinality(Cores) \in Nat
    BY FS_CardinalityType
  <2> QED BY <2>1, <2>2, FS_EmptySet DEF OnceBound
<1>2. Init => Recorded
  BY DEF Init, StoreInit, Recorded
<1>3. TypeInv /\ Recorded /\ [Next]_vars => Recorded'
  BY RecordedStep DEF Recorded, vars
<1>4. TypeInv /\ Recorded /\ RaceInv /\ [Next]_vars => RaceInv'
  <2> SUFFICES ASSUME TypeInv, Recorded, RaceInv, [Next]_vars,
                      NEW c \in Chapters, NEW s \in Sections
               PROVE  OnceBound(c, s)'
    BY DEF RaceInv
  <2>1. OnceBound(c, s)
    BY DEF RaceInv
  <2>2. CASE Next
    BY <2>1, <2>2, OnceNext, TypeStep
  <2>3. CASE UNCHANGED vars
    BY <2>1, <2>3 DEF vars, OnceBound, OnceRows, RowsOf, SectionRows, Direct,
                      Admitted, IsAppendOnce, Declares
  <2> QED BY <2>2, <2>3
<1>5. TypeInv /\ RaceInv => AppendOnceRaceBounded
  BY OnceFinite DEF RaceInv, OnceBound, AppendOnceRaceBounded
<1> QED BY <1>1, <1>2, <1>3, <1>4, <1>5, TypeInvariant, PTL DEF Spec

-----------------------------------------------------------------------------
(* The refinement of SharedSpec. *)

WorkingSteps == SectionSteps \cup CloseSteps

(* An append or a close works on a chapter that exists: rows of chapter_meta *)
(* are never deleted.                                                        *)
WorksOnExisting ==
  \A w \in Cores : pc[w] \in WorkingSteps => Exists(op[w].chapter)

LEMMA WorksOnExistingStep ==
  ASSUME TypeInv, Next, WorksOnExisting
  PROVE  WorksOnExisting'
<1> SUFFICES ASSUME NEW u \in Cores, pc'[u] \in WorkingSteps
             PROVE  meta'[op'[u].chapter] # NoRow
  BY DEF WorksOnExisting, Exists, WorkingSteps, SectionSteps, CloseSteps
<1>1. pc \in [Cores -> Steps] /\ op \in [Cores -> Operation]
  BY DEF TypeInv, TypeOK
<1>2. ASSUME op'[u] = op[u], pc[u] \in WorkingSteps
      PROVE  meta'[op'[u].chapter] # NoRow
  <2>1. op[u].chapter \in Chapters /\ Exists(op[u].chapter)
    BY <1>2 DEF WorksOnExisting, TypeInv, OperationsBound, WorkingSteps,
                CloseSteps, SectionSteps, ChapterSteps
  <2>2. \A c \in Chapters : meta[c] # NoRow => meta'[c] # NoRow
    BY ClosedStays DEF Exists
  <2> QED BY <1>2, <2>1, <2>2 DEF Exists
<1>3. ASSUME NEW c \in Chapters, NEW s \in Sections, NEW b \in BOOLEAN,
             AppendValidate(u, c, s, b)
      PROVE  meta'[op'[u].chapter] # NoRow
  <2>1. op'[u].chapter = c /\ meta' = meta
    BY <1>1, <1>3 DEF AppendValidate, Start, Unbound
  <2> QED BY <1>3, <2>1 DEF AppendValidate, Appendable, Bound, Exists
<1>4. ASSUME NEW c \in Chapters, CloseValidate(u, c)
      PROVE  meta'[op'[u].chapter] # NoRow
  <2>1. op'[u].chapter = c /\ meta' = meta
    BY <1>1, <1>4 DEF CloseValidate, Start, Unbound
  <2> QED BY <1>4, <2>1 DEF CloseValidate, Closable, Bound, Exists
<1>5. CASE \/ AppendAdmit(u) \/ AppendEventStep(u) \/ AppendStateStep(u)
           \/ CloseCheck(u) \/ CloseEventStep(u)
  <2>1. op'[u] = op[u] /\ pc[u] \in WorkingSteps
    BY <1>5 DEF AppendAdmit, AppendEventStep, AppendStateStep, CloseCheck,
                CloseEventStep, Go, WorkingSteps, SectionSteps, CloseSteps
  <2> QED BY <1>2, <2>1
<1>6. CASE pc'[u] = pc[u] /\ op'[u] = op[u]
  BY <1>2, <1>6
<1>7. /\ pc'[u] # "idle"
      /\ \A c, k : ~OpenEventStep(u, c, k)
      /\ \A batch : ~ImportCheck(u, batch)
  BY <1>1 DEF OpenEventStep, ImportCheck, Start, WorkingSteps, SectionSteps,
              CloseSteps
<1> QED BY <1>3, <1>4, <1>5, <1>6, <1>7, Moves

(* The cores that still have an event to insert.                             *)
InsertSteps == {"append_admit", "append_event", "close_check", "close_event",
                "import_tx"}

Inserters == {w \in Cores : pc[w] \in InsertSteps}

SharedRoom ==
  Len(log) + Cardinality(Inserters) <= MaxEvents + Cardinality(Cores)

LEMMA InsertersFinite ==
  ASSUME IsFiniteSet(Cores), TypeInv
  PROVE  /\ IsFiniteSet(Inserters)
         /\ Cardinality(Inserters) \in Nat
         /\ Cardinality(Inserters) <= Cardinality(Cores)
         /\ Cardinality(Cores) \in Nat
         /\ Len(log) \in Nat
<1>1. Inserters \subseteq Cores
  BY DEF Inserters
<1> QED BY <1>1, FS_Subset, FS_CardinalityType
        DEF TypeInv, TypeOK, StoreTypeOK

(* A core becomes an inserter while the log is short.                        *)
LEMMA InsertersJoin ==
  ASSUME TypeInv, Next, NEW u \in Inserters', u \notin Inserters
  PROVE  Len(log) < MaxEvents /\ log' = log
<1>1. u \in Cores /\ pc'[u] \in InsertSteps /\ pc[u] \notin InsertSteps
  BY DEF Inserters, InsertSteps
<1>2. pc \in [Cores -> Steps]
  BY DEF TypeInv, TypeOK
<1>3. /\ pc'[u] # "idle" /\ pc'[u] # pc[u]
      /\ ~AppendAdmit(u) /\ ~AppendEventStep(u) /\ ~AppendStateStep(u)
      /\ ~CloseCheck(u) /\ ~CloseEventStep(u)
      /\ \A d, k : ~OpenEventStep(u, d, k)
  BY <1>1, <1>2 DEF InsertSteps, AppendAdmit, AppendEventStep,
                    AppendStateStep, CloseCheck, CloseEventStep,
                    OpenEventStep, Go, Start
<1>4. \/ \E c \in Chapters, s \in Sections, b \in BOOLEAN :
            AppendValidate(u, c, s, b)
      \/ \E c \in Chapters : CloseValidate(u, c)
      \/ \E batch \in ImportFiles : ImportCheck(u, batch)
  BY <1>1, <1>3, Moves
<1> QED BY <1>4 DEF AppendValidate, CloseValidate, ImportCheck, Ready

(* What makes the log longer is an open, on a short log, or an inserter,     *)
(* which is none afterwards.                                                 *)
LEMMA InsertersInsert ==
  ASSUME TypeInv, Next
  PROVE  \/ log' = log
         \/ Len(log') = Len(log) + 1 /\ Len(log) < MaxEvents
         \/ /\ Len(log') = Len(log) + 1
            /\ \E w \in Inserters : w \notin Inserters'
<1>1. log \in Seq(Event)
  BY DEF TypeInv, TypeOK, StoreTypeOK
<1>2. \A e : InsertEvent(e) => Len(log') = Len(log) + 1
  BY <1>1 DEF InsertEvent
<1>3. ASSUME NEW w \in Cores, NEW c \in Chapters, NEW k \in SchemaIds,
             OpenEventStep(w, c, k)
      PROVE  Len(log') = Len(log) + 1 /\ Len(log) < MaxEvents
  BY <1>2, <1>3 DEF OpenEventStep, Insert, Ready
<1>4. ASSUME NEW w \in Cores, AppendEventStep(w) \/ CloseEventStep(w)
      PROVE  /\ Len(log') = Len(log) + 1
             /\ w \in Inserters /\ w \notin Inserters'
  <2>1. Len(log') = Len(log) + 1
    BY <1>2, <1>4 DEF AppendEventStep, CloseEventStep, Insert
  <2>2. /\ pc[w] \in {"append_event", "close_event"}
        /\ pc'[w] \in {"append_state", "close_state"}
    BY <1>4, Staying DEF AppendEventStep, CloseEventStep
  <2> QED BY <2>1, <2>2 DEF Inserters, InsertSteps
<1>5. ASSUME NEW w \in Cores, ImportCommit(w)
      PROVE  /\ Len(log') = Len(log) + 1
             /\ w \in Inserters /\ w \notin Inserters'
  <2>1. Len(log') = Len(log) + 1
    BY <1>2, <1>5 DEF ImportCommit, InsertImport
  <2>2. pc[w] = "import_tx" /\ pc'[w] = "idle"
    BY <1>5, Staying DEF ImportCommit
  <2> QED BY <2>1, <2>2 DEF Inserters, InsertSteps
<1>6. \A w \in Cores : OpenMetaStep(w) \/ AppendStateStep(w)
                         \/ CloseStateStep(w) => log' = log
  BY DEF OpenMetaStep, AppendStateStep, CloseStateStep
<1> QED BY <1>3, <1>4, <1>5, <1>6, StoreSteps

LEMMA SharedRoomStep ==
  ASSUME IsFiniteSet(Cores), TypeInv, TypeInv', Next, SharedRoom
  PROVE  SharedRoom'
<1> DEFINE I == Cardinality(Inserters)
           J == Cardinality(Inserters')
           N == Cardinality(Cores)
<1>1. /\ IsFiniteSet(Inserters) /\ I \in Nat /\ I <= N /\ N \in Nat
      /\ Len(log) \in Nat
  BY InsertersFinite
<1>2. Inserters' \subseteq Cores /\ Len(log') \in Nat
  BY DEF Inserters, TypeInv, TypeOK, StoreTypeOK
<1>3. J \in Nat /\ J <= N
  BY <1>2, FS_Subset, FS_CardinalityType
<1>4. MaxEvents \in Nat
  BY CoreAssumption
<1>5. CASE \E u \in Inserters' : u \notin Inserters
  <2>1. Len(log) < MaxEvents /\ log' = log
    BY <1>5, InsertersJoin
  <2> QED BY <1>1, <1>3, <1>4, <2>1 DEF SharedRoom
<1>6. CASE Inserters' \subseteq Inserters
  <2>1. J <= I
    BY <1>1, <1>6, FS_Subset
  <2>2. ASSUME NEW w \in Inserters, w \notin Inserters'
        PROVE  J <= I - 1
    <3>1. Inserters' \subseteq Inserters \ {w}
      BY <1>6, <2>2
    <3>2. /\ IsFiniteSet(Inserters \ {w})
          /\ Cardinality(Inserters \ {w}) = I - 1
      BY <1>1, <2>2, FS_RemoveElement
    <3> QED BY <3>1, <3>2, FS_Subset
  <2>3. CASE log' = log
    BY <1>1, <1>3, <1>4, <2>1, <2>3 DEF SharedRoom
  <2>4. CASE Len(log') = Len(log) + 1 /\ Len(log) < MaxEvents
    BY <1>1, <1>3, <1>4, <2>4 DEF SharedRoom
  <2>5. CASE Len(log') = Len(log) + 1 /\ J <= I - 1
    BY <1>1, <1>3, <1>4, <2>5 DEF SharedRoom
  <2> QED BY <2>2, <2>3, <2>4, <2>5, InsertersInsert
<1> QED BY <1>5, <1>6

LEMMA SharesAppend ==
  ASSUME IsFiniteSet(Cores), TypeInv, WorksOnExisting, SharedRoom,
         NEW w \in Cores, AppendEventStep(w)
  PROVE  AbstractShared!SharedNext
<1> DEFINE c == op[w].chapter
           s == op[w].section
           b == op[w].blank
           n == Len(log) + 1
<1>1. pc[w] = "append_event"
  BY DEF AppendEventStep, Go
<1>2. Exists(c)
  BY <1>1 DEF WorksOnExisting, WorkingSteps, SectionSteps
<1>3. n \in 1 .. MaxEvents + Cardinality(Cores)
  <2>1. w \in Inserters
    BY <1>1 DEF Inserters, InsertSteps
  <2>2. Cardinality(Inserters) # 0
    BY <2>1, InsertersFinite, FS_EmptySet
  <2> QED BY <2>2, InsertersFinite, CoreAssumption DEF SharedRoom
<1> HIDE DEF n
<1>4. /\ c \in Chapters /\ s \in Sections /\ b \in BOOLEAN
      /\ meta' = meta
      /\ \A q \in AllRows : q.event < n
      /\ AllRows' = AllRows \cup {[event |-> n, chapter |-> c, section |-> s,
                                   blank |-> b]}
  BY RowAdded DEF n
<1>5. Status[c] \in {"open", "closed"} /\ Status' = Status
  BY <1>2, <1>4, SameStatus DEF Status, StatusOf
<1> HIDE DEF c, s, b
<1>6. AbstractShared!NewRow(c, s, b)
  BY <1>3, <1>4, <1>5 DEF AbstractShared!NewRow, Status
<1>7. AbstractShared!AddRow(c, s, b) \/ AbstractShared!AddLateRow(c, s, b)
  BY <1>5, <1>6
  DEF AbstractShared!AddRow, AbstractShared!AddLateRow, Status
<1> QED BY <1>4, <1>7 DEF AbstractShared!SharedNext, AbstractShared!JournalNext

LEMMA SharesClose ==
  ASSUME TypeInv, WorksOnExisting, CloseAdmitted,
         NEW w \in Cores, CloseStateStep(w)
  PROVE  AbstractShared!SharedNext \/ UNCHANGED <<Status, AllRows>>
<1> DEFINE c == op[w].chapter
<1>1. Exists(c)
  BY DEF CloseStateStep, WorksOnExisting, WorkingSteps, CloseSteps
<1>2. /\ c \in Chapters
      /\ \E q \in CloseDemands : Abstract!Satisfied(q, c)
      /\ Status' = [Status EXCEPT ![c] = "closed"]
      /\ AllRows' = AllRows
  BY <1>1, CloseEffect
<1>3. Status[c] \in {"open", "closed"}
  BY <1>1, <1>2 DEF Status, StatusOf
<1> HIDE DEF c
<1>4. CASE Status[c] = "closed"
  <2>1. Status' = Status
    <3>1. \A d \in Chapters : Status'[d] = Status[d]
      BY <1>2, <1>4 DEF Status
    <3> QED BY <3>1 DEF Status
  <2> QED BY <1>2, <2>1
<1>5. CASE Status[c] = "open"
  <2>1. \E q \in CloseDemands : AbstractShared!Satisfied(q, c)
    BY <1>2 DEF Abstract!Satisfied, AbstractShared!Satisfied
  <2>2. AbstractShared!CloseComplete(c)
    BY <1>2, <1>5, <2>1 DEF AbstractShared!CloseComplete, Status
  <2> QED BY <1>2, <2>2
          DEF AbstractShared!SharedNext, AbstractShared!JournalNext
<1> QED BY <1>3, <1>4, <1>5

LEMMA SharesStep ==
  ASSUME IsFiniteSet(Cores), TypeInv, WorksOnExisting, CloseAdmitted,
         SharedRoom, [Next]_vars
  PROVE  AbstractShared!SharedNext \/ UNCHANGED <<Status, AllRows>>
<1>1. ASSUME NEW w \in Cores, OpenMetaStep(w)
      PROVE  AbstractShared!SharedNext
  <2>1. PICK c \in Chapters : Abstract!OpenNew(c)
    BY <1>1, RefinesOpen
  <2>2. AbstractShared!OpenNew(c)
    BY <2>1 DEF Abstract!OpenNew, AbstractShared!OpenNew
  <2> QED BY <2>2 DEF AbstractShared!SharedNext, AbstractShared!JournalNext
<1>2. ASSUME NEW w \in Cores, ImportCommit(w)
      PROVE  AbstractShared!SharedNext
  <2>1. PICK C \in SUBSET Chapters : Abstract!ImportAll(C)
    BY <1>2, RefinesImport
  <2>2. AbstractShared!ImportAll(C)
    BY <2>1 DEF Abstract!ImportAll, AbstractShared!ImportAll
  <2> QED BY <2>2 DEF AbstractShared!SharedNext, AbstractShared!JournalNext
<1> QED BY <1>1, <1>2, SharesAppend, SharesClose, Stutters

(* However many cores write one store, and whatever fails in between: a      *)
(* chapter is opened by one of them, is closed only when its rows satisfy a  *)
(* close transition, is never open again, and is imported only when nobody   *)
(* has created it.  What several writers lose is that a closed chapter takes *)
(* no more rows: a row checked before a close may be inserted after it       *)
(* (core.rs append_section reads chapter_meta in a statement of its own).    *)
THEOREM SharedJournalImplemented ==
  ASSUME IsFiniteSet(Cores), ImportsAreFinal
  PROVE  Spec => ImplementsSharedJournal
<1> DEFINE Inv == /\ StreamsOpened /\ CloseAdmitted
                  /\ WorksOnExisting /\ SharedRoom
<1>1. Init => Inv
  <2> SUFFICES ASSUME Init
               PROVE  Inv
    OBVIOUS
  <2>1. StreamsOpened /\ CloseAdmitted /\ WorksOnExisting
    BY DEF Init, StoreInit, StreamsOpened, CloseAdmitted, WorksOnExisting,
           Exists, StreamSteps, CloseSteps, WorkingSteps, SectionSteps
  <2>2. Inserters = {} /\ Len(log) = 0
    BY DEF Init, StoreInit, Inserters, InsertSteps
  <2>3. SharedRoom
    BY <2>2, FS_EmptySet, FS_CardinalityType, CoreAssumption DEF SharedRoom
  <2> QED BY <2>1, <2>3
<1>2. TypeInv /\ [Next]_vars /\ Inv => Inv'
  <2> SUFFICES ASSUME TypeInv, [Next]_vars, Inv
               PROVE  Inv'
    OBVIOUS
  <2>1. CASE Next
    BY <2>1, TypeStep, StreamsOpenedStep, CloseAdmittedStep,
       WorksOnExistingStep, SharedRoomStep
  <2>2. CASE UNCHANGED vars
    <3>1. log' = log /\ meta' = meta /\ pc' = pc /\ op' = op
      BY <2>2 DEF vars
    <3>2. /\ \A c : Direct(c)' = Direct(c)
          /\ \A c : DirectRows(c)' = DirectRows(c)
      BY <3>1 DEF DirectRows, SectionRows, Direct
    <3> QED BY <3>1, <3>2
            DEF StreamsOpened, CloseAdmitted, WorksOnExisting, SharedRoom,
                Inserters, Exists
  <2> QED BY <2>1, <2>2
<1>3. Init => AbstractShared!JournalInit
  BY DEF Init, StoreInit, AbstractShared!JournalInit, StatusOf, Exists, AllRows
<1>4. TypeInv /\ Inv /\ [Next]_vars
        => [AbstractShared!SharedNext]_(AbstractShared!jvars)
  BY SharesStep DEF AbstractShared!jvars, Status
<1> HIDE DEF Inv
<1>5. Spec => AbstractShared!SharedSpec
  BY <1>1, <1>2, <1>3, <1>4, TypeInvariant, PTL
  DEF Spec, AbstractShared!SharedSpec
<1> QED BY <1>5 DEF ImplementsSharedJournal

-----------------------------------------------------------------------------
(* What a close leaves behind, for any number of cores. *)

LEMMA WorkersAtSteps ==
  ASSUME pc \in [Cores -> Steps], NEW c
  PROVE  WorkingOn(c) =
           {w \in Cores : pc[w] \in OpenSteps /\ op[w].chapter = c}
BY DEF WorkingOn, Steps, OpenSteps, SectionSteps, CloseSteps

(* Nobody starts to work on a chapter in a final state.                      *)
LEMMA FinalUntouched ==
  ASSUME TypeInv, Next, NEW c \in Chapters, Settled(c),
         NEW u \in Cores, pc'[u] \in OpenSteps
  PROVE  op'[u].chapter # c
<1>1. pc \in [Cores -> Steps] /\ op \in [Cores -> Operation]
  BY DEF TypeInv, TypeOK
<1>2. pc[u] \in OpenSteps => op[u].chapter # c
  BY <1>1, WorkersAtSteps DEF Settled
<1>3. ASSUME NEW on \in {"append_section", "close_chapter"}, Bound(u, c),
             HasTransition(SchemaOf(u, c), meta[c].state, on)
      PROVE  FALSE
  BY <1>3, SchemaOfType DEF Settled, FinalStates
<1>4. ASSUME NEW d \in Chapters, NEW s \in Sections, NEW b \in BOOLEAN,
             AppendValidate(u, d, s, b)
      PROVE  op'[u].chapter # c
  <2>1. op'[u].chapter = d
    BY <1>4, PlannedStart
  <2> QED BY <1>3, <1>4, <2>1 DEF AppendValidate, Appendable
<1>5. ASSUME NEW d \in Chapters, CloseValidate(u, d)
      PROVE  op'[u].chapter # c
  <2>1. op'[u].chapter = d
    BY <1>5, PlannedStart
  <2> QED BY <1>3, <1>5, <2>1 DEF CloseValidate, Closable
<1>6. CASE \/ AppendAdmit(u) \/ AppendEventStep(u) \/ AppendStateStep(u)
           \/ CloseCheck(u) \/ CloseEventStep(u)
  BY <1>2, <1>6
  DEF AppendAdmit, AppendEventStep, AppendStateStep, CloseCheck,
      CloseEventStep, Go, OpenSteps, SectionSteps, CloseSteps
<1>7. CASE pc'[u] = pc[u] /\ op'[u] = op[u]
  BY <1>2, <1>7
<1>8. /\ pc'[u] # "idle"
      /\ \A d, k : ~OpenEventStep(u, d, k)
      /\ \A batch : ~ImportCheck(u, batch)
  BY <1>1 DEF OpenEventStep, ImportCheck, Start, OpenSteps, SectionSteps,
              CloseSteps
<1> QED BY <1>4, <1>5, <1>6, <1>7, <1>8, Moves

LEMMA SettledKept ==
  ASSUME TypeInv, Next, NEW c \in Chapters, Settled(c)
  PROVE  Settled(c)' /\ meta'[c] = meta[c] /\ ContentFrozen(c)
<1>1. pc \in [Cores -> Steps] /\ pc' \in [Cores -> Steps]
  BY TypeStep DEF TypeInv, TypeOK
<1>2. \A w \in Cores : pc[w] \in OpenSteps => op[w].chapter # c
  BY <1>1, WorkersAtSteps DEF Settled
<1>3. IsClosed(c) /\ Exists(c)
  BY DEF Settled, IsClosed
<1>4. meta'[c] = meta[c]
  BY <1>2, <1>3, RowLeftAlone
<1>5. ContentFrozen(c)
  BY <1>2, <1>3, ContentLeftAlone, ImportsOfRowKept, ReplayFrozen
<1>6. WorkingOn(c)' = {}
  <2>1. \A w \in Cores : pc'[w] \in OpenSteps => op'[w].chapter # c
    BY FinalUntouched
  <2> QED BY <1>1, <2>1 DEF WorkingOn, Steps, OpenSteps, SectionSteps,
                            CloseSteps
<1>7. Settled(c)'
  BY <1>4, <1>6 DEF Settled, IsClosed, Exists, FinalStates
<1> QED BY <1>4, <1>5, <1>7

LEMMA LoneWorker ==
  ASSUME IsFiniteSet(Cores), NEW c, Cardinality(WorkingOn(c)) <= 1,
         NEW w \in WorkingOn(c)
  PROVE  WorkingOn(c) = {w}
<1>1. IsFiniteSet(WorkingOn(c))
  BY FS_Subset DEF WorkingOn
<1>2. Cardinality(WorkingOn(c)) \in Nat
  BY <1>1, FS_CardinalityType
<1>3. /\ IsFiniteSet(WorkingOn(c) \ {w})
      /\ Cardinality(WorkingOn(c) \ {w}) = Cardinality(WorkingOn(c)) - 1
  BY <1>1, FS_RemoveElement
<1>4. Cardinality(WorkingOn(c) \ {w}) \in Nat
  BY <1>3, FS_CardinalityType
<1>5. Cardinality(WorkingOn(c) \ {w}) = 0
  BY <1>2, <1>3, <1>4
<1>6. WorkingOn(c) \ {w} = {}
  BY <1>3, <1>5, FS_EmptySet
<1> QED BY <1>6

LEMMA ClosingSettles ==
  ASSUME IsFiniteSet(Cores), ClosesAreFinal, TypeInv, Next, ClosesToFinal,
         WorksOnExisting, NEW c \in Chapters, ~IsClosed(c), IsClosed(c)',
         Cardinality(WorkingOn(c)) <= 1
  PROVE  Settled(c)'
<1>1. /\ meta \in [Chapters -> MetaRow \cup {NoRow}]
      /\ pc \in [Cores -> Steps] /\ op \in [Cores -> Operation]
  BY DEF TypeInv, TypeOK, StoreTypeOK
<1>2. meta'[c] # meta[c]
  BY DEF IsClosed, Exists
<1>3. ASSUME NEW w \in Cores, OpenMetaStep(w) PROVE FALSE
  BY <1>1, <1>2, <1>3 DEF OpenMetaStep, InsertMeta, IsClosed
<1>4. ASSUME NEW w \in Cores, AppendStateStep(w) PROVE FALSE
  BY <1>1, <1>2, <1>4 DEF AppendStateStep, UpdateState, IsClosed, Exists,
                          MetaRow
<1>5. ASSUME NEW w \in Cores, CloseStateStep(w)
      PROVE  Settled(c)'
  <2>1. /\ c = op[w].chapter /\ Exists(c)
        /\ meta'[c].state = op[w].state
    BY <1>1, <1>2, <1>5 DEF CloseStateStep, UpdateClosed, Exists, MetaRow
  <2>2. op[w].state \in FinalStates
    BY <1>5 DEF CloseStateStep, CloseSteps, ClosesToFinal
  <2>3. w \in WorkingOn(c)
    BY <1>5, <2>1 DEF WorkingOn, CloseStateStep
  <2>4. WorkingOn(c) = {w}
    BY <2>3, LoneWorker
  <2>5. OthersStay(w) /\ pc'[w] = "idle"
    BY <1>5, Staying DEF CloseStateStep
  <2>6. WorkingOn(c)' = {}
    BY <2>4, <2>5 DEF WorkingOn, OthersStay
  <2> QED BY <2>1, <2>2, <2>6 DEF Settled, FinalStates
<1>6. ASSUME NEW w \in Cores, ImportCommit(w)
      PROVE  Settled(c)'
  <2>1. ~Exists(c) /\ meta'[c].state = ImportState
    BY <1>2, <1>6 DEF ImportCommit, InsertImport, BatchInsertable
  <2>2. \A u \in Cores : pc[u] \in OpenSteps => op[u].chapter # c
    BY <2>1 DEF WorksOnExisting, WorkingSteps, OpenSteps
  <2>3. WorkingOn(c) = {}
    BY <1>1, <2>2, WorkersAtSteps
  <2>4. OthersStay(w) /\ pc'[w] = "idle"
    BY <1>6, Staying DEF ImportCommit
  <2>5. WorkingOn(c)' = {}
    BY <2>3, <2>4 DEF WorkingOn, OthersStay
  <2> QED BY <2>1, <2>5 DEF Settled, ClosesAreFinal, FinalStates
<1> QED BY <1>2, <1>3, <1>4, <1>5, <1>6, MetaSteps

(* However many cores share the store: a chapter closed or imported while no *)
(* other call works on it is in a final state, and from then on neither its  *)
(* row nor its content changes, except that a refused open_chapter hides an  *)
(* import.  So only an append or a close validated before a close can move a *)
(* closed chapter back (core.rs:316, no transaction spans the statements).   *)
THEOREM ClosesSettle ==
  ASSUME IsFiniteSet(Cores), ClosesAreFinal
  PROVE  Spec => CloseSettles
<1> DEFINE Inv == ClosesToFinal /\ WorksOnExisting
           Settling ==
             \A c \in Chapters :
                /\ /\ ~IsClosed(c) /\ IsClosed(c)'
                   /\ Cardinality(WorkingOn(c)) <= 1
                   => Settled(c)'
                /\ Settled(c) => /\ Settled(c)'
                                 /\ meta'[c] = meta[c]
                                 /\ ContentFrozen(c)
<1>1. Init => Inv
  BY DEF Init, ClosesToFinal, WorksOnExisting, WorkingSteps, SectionSteps,
         CloseSteps
<1>2. TypeInv /\ [Next]_vars /\ Inv => Inv'
  <2>1. CASE UNCHANGED vars
    BY <2>1 DEF vars, ClosesToFinal, WorksOnExisting, Exists, FinalStates
  <2> QED BY <2>1, ClosesToFinalStep, WorksOnExistingStep
<1>3. TypeInv /\ Inv /\ [Next]_vars => [Settling]_vars
  BY SettledKept, ClosingSettles
<1>4. Spec => [][Settling]_vars
  <2> HIDE DEF Inv, Settling
  <2> QED BY <1>1, <1>2, <1>3, TypeInvariant, PTL DEF Spec
<1> QED BY <1>4 DEF CloseSettles
=============================================================================
