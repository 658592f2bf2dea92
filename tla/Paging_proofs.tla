---------------------------- MODULE Paging_proofs ----------------------------
(***************************************************************************)
(* Theorems about JournalReads: the types of what the reads work on, and   *)
(* that a client that pages to the end of the list misses nothing, for any *)
(* number of writing cores and every value of the other constants.         *)
(***************************************************************************)
EXTENDS JournalReads_proofs, FiniteSetTheorems, SequenceTheorems

-----------------------------------------------------------------------------
(* Sorting: where an element of a set comes in the order.                    *)

StrictOrder(Less, S) ==
  /\ \A a \in S : <<a, a>> \notin Less
  /\ \A a, b, c \in S :
        <<a, b>> \in Less /\ <<b, c>> \in Less => <<a, c>> \in Less
  /\ \A a, b \in S : a = b \/ <<a, b>> \in Less \/ <<b, a>> \in Less

(* More elements and more pairs only push an element back.                   *)
LEMMA PlaceMonotone ==
  ASSUME NEW T, IsFiniteSet(T), NEW S \in SUBSET T, NEW b, NEW Less, NEW More,
         \A a \in S : <<a, b>> \in Less => <<a, b>> \in More
  PROVE  /\ Place(b, S, Less) \in Nat /\ Place(b, T, More) \in Nat
         /\ Place(b, S, Less) <= Place(b, T, More)
<1> DEFINE A == {a \in S : <<a, b>> \in Less}
           B == {a \in T : <<a, b>> \in More}
<1>1. A \in SUBSET B /\ B \in SUBSET T
  OBVIOUS
<1>2. IsFiniteSet(B)
  BY <1>1, FS_Subset
<1>3. IsFiniteSet(A) /\ Cardinality(A) <= Cardinality(B)
  BY <1>1, <1>2, FS_Subset
<1> QED BY <1>2, <1>3, FS_CardinalityType DEF Place

LEMMA PlaceBound ==
  ASSUME NEW S, IsFiniteSet(S), NEW Less, StrictOrder(Less, S), NEW b \in S
  PROVE  Place(b, S, Less) \in 0 .. Cardinality(S) - 1
<1> DEFINE A == {a \in S : <<a, b>> \in Less}
<1>1. A \in SUBSET (S \ {b})
  BY DEF StrictOrder
<1>2. IsFiniteSet(S \ {b}) /\ Cardinality(S \ {b}) = Cardinality(S) - 1
  BY FS_RemoveElement
<1>3. IsFiniteSet(A) /\ Cardinality(A) <= Cardinality(S \ {b})
  BY <1>1, <1>2, FS_Subset
<1>4. Cardinality(A) \in Nat /\ Cardinality(S) \in Nat
  BY <1>3, FS_CardinalityType
<1> QED BY <1>2, <1>3, <1>4 DEF Place

LEMMA PlaceStrict ==
  ASSUME NEW S, IsFiniteSet(S), NEW Less, StrictOrder(Less, S),
         NEW a \in S, NEW b \in S, <<a, b>> \in Less
  PROVE  Place(a, S, Less) < Place(b, S, Less)
<1> DEFINE A == {x \in S : <<x, a>> \in Less}
           B == {x \in S : <<x, b>> \in Less}
<1>1. A \in SUBSET (B \ {a}) /\ a \in B
  BY DEF StrictOrder
<1>2. IsFiniteSet(B)
  <2>1. B \in SUBSET S
    OBVIOUS
  <2> QED BY <2>1, FS_Subset
<1>3. IsFiniteSet(B \ {a}) /\ Cardinality(B \ {a}) = Cardinality(B) - 1
  BY <1>1, <1>2, FS_RemoveElement
<1>4. IsFiniteSet(A) /\ Cardinality(A) <= Cardinality(B \ {a})
  BY <1>1, <1>3, FS_Subset
<1>5. Cardinality(A) \in Nat /\ Cardinality(B) \in Nat
  BY <1>2, <1>4, FS_CardinalityType
<1> QED BY <1>3, <1>4, <1>5 DEF Place

(* Every place is taken, by one element.                                     *)
LEMMA PlaceUnique ==
  ASSUME NEW S, IsFiniteSet(S), NEW Less, StrictOrder(Less, S),
         NEW a \in S, NEW b \in S, Place(a, S, Less) = Place(b, S, Less)
  PROVE  a = b
<1>1. Place(a, S, Less) \in Int /\ Place(b, S, Less) \in Int
  BY PlaceBound
<1>2. <<a, b>> \notin Less /\ <<b, a>> \notin Less
  BY <1>1, PlaceStrict
<1> QED BY <1>2 DEF StrictOrder

LEMMA PlaceTaken ==
  ASSUME NEW S, IsFiniteSet(S), NEW Less, StrictOrder(Less, S),
         NEW n \in 0 .. Cardinality(S) - 1
  PROVE  \E b \in S : Place(b, S, Less) = n
<1> DEFINE N == 0 .. Cardinality(S) - 1
           f == [b \in S |-> Place(b, S, Less)]
<1>1. Cardinality(S) \in Nat
  BY FS_CardinalityType
<1>2. IsFiniteSet(N) /\ Cardinality(N) = Cardinality(S)
  <2>1. PICK m \in Int : m = Cardinality(S) - 1
    BY <1>1
  <2>2. /\ IsFiniteSet(0 .. m)
        /\ Cardinality(0 .. m) = IF 0 > m THEN 0 ELSE m - 0 + 1
    BY FS_Interval
  <2> QED BY <1>1, <2>1, <2>2
<1>3. f \in Injection(S, N)
  <2>1. f \in [S -> N]
    BY PlaceBound
  <2>2. \A a, b \in S : f[a] = f[b] => a = b
    BY PlaceUnique
  <2> QED BY <2>1, <2>2 DEF Injection, IsInjective
<1>4. f \in Surjection(S, N)
  <2> HIDE DEF N, f
  <2> QED BY <1>2, <1>3, FS_Injection
<1>5. PICK b \in S : f[b] = n
  BY <1>4 DEF Surjection
<1> QED BY <1>5

(* The sequence holds every element once, at its place.                      *)
LEMMA InOrderFacts ==
  ASSUME NEW S, IsFiniteSet(S), NEW Less, StrictOrder(Less, S)
  PROVE  /\ InOrder(S, Less) \in Seq(S)
         /\ Len(InOrder(S, Less)) = Cardinality(S)
         /\ \A n \in 1 .. Cardinality(S) :
              /\ InOrder(S, Less)[n] \in S
              /\ Place(InOrder(S, Less)[n], S, Less) = n - 1
         /\ \A b \in S :
              /\ Place(b, S, Less) + 1 \in 1 .. Cardinality(S)
              /\ InOrder(S, Less)[Place(b, S, Less) + 1] = b
<1> DEFINE q == InOrder(S, Less)
           N == Cardinality(S)
<1>1. N \in Nat
  BY FS_CardinalityType
<1>2. \A n \in 1 .. N : q[n] \in S /\ Place(q[n], S, Less) = n - 1
  <2> SUFFICES ASSUME NEW n \in 1 .. N
               PROVE  q[n] \in S /\ Place(q[n], S, Less) = n - 1
    OBVIOUS
  <2>1. n - 1 \in 0 .. N - 1
    BY <1>1
  <2>2. \E b \in S : Place(b, S, Less) = n - 1
    BY <2>1, PlaceTaken
  <2>3. q[n] = CHOOSE b \in S : Place(b, S, Less) = n - 1
    BY DEF InOrder
  <2> QED BY <2>2, <2>3
<1>3. q \in Seq(S) /\ Len(q) = N
  <2>1. q \in [1 .. N -> S]
    BY <1>2 DEF InOrder
  <2> HIDE DEF q
  <2> QED BY <1>1, <2>1
<1>4. ASSUME NEW b \in S
      PROVE  /\ Place(b, S, Less) + 1 \in 1 .. N
             /\ q[Place(b, S, Less) + 1] = b
  <2>1. Place(b, S, Less) \in 0 .. N - 1
    BY PlaceBound
  <2> DEFINE n == Place(b, S, Less) + 1
  <2>2. n \in 1 .. N /\ n - 1 = Place(b, S, Less)
    BY <1>1, <2>1
  <2>3. q[n] \in S /\ Place(q[n], S, Less) = Place(b, S, Less)
    BY <1>2, <2>2
  <2> QED BY <2>2, <2>3, PlaceUnique
<1> HIDE DEF q, N
<1>5. /\ q \in Seq(S) /\ Len(q) = N
      /\ \A n \in 1 .. N : q[n] \in S /\ Place(q[n], S, Less) = n - 1
      /\ \A b \in S : /\ Place(b, S, Less) + 1 \in 1 .. N
                      /\ q[Place(b, S, Less) + 1] = b
  BY <1>2, <1>3, <1>4
<1> QED BY <1>5 DEF q, N

-----------------------------------------------------------------------------
(* The step of one core. *)

LEMMA OwnSteps ==
  ASSUME TypeInv, NEW w \in Cores, JournalStep(w)
  PROVE  /\ \A u \in Cores \ {w} : pc'[u] = pc[u]
         /\ pc'[w] = "open_meta" =>
              \E c \in Chapters, k \in SchemaIds : OpenEventStep(w, c, k)
         /\ \/ UNCHANGED <<log, meta>>
            \/ \E c \in Chapters, k \in SchemaIds : OpenEventStep(w, c, k)
            \/ OpenMetaStep(w) \/ AppendEventStep(w) \/ AppendStateStep(w)
            \/ CloseEventStep(w) \/ CloseStateStep(w) \/ ImportCommit(w)
<1> DEFINE Framed ==
      /\ \A u \in Cores \ {w} : pc'[u] = pc[u]
      /\ pc'[w] # "open_meta"
<1>1. pc \in [Cores -> Steps]
  BY DEF TypeInv, TypeOK
<1>2. ASSUME Return(w) PROVE Framed
  BY <1>1, <1>2 DEF Return
<1>3. ASSUME NEW step, NEW o, Start(w, step, o), step # "open_meta"
      PROVE  Framed
  BY <1>1, <1>3 DEF Start
<1>4. ASSUME NEW from, NEW to, Go(w, from, to), to # "open_meta"
      PROVE  Framed
  BY <1>1, <1>4 DEF Go
<1>5. CASE OpenChapter(w)
  <2>1. ASSUME NEW c \in Chapters, NEW k \in SchemaIds, OpenEventStep(w, c, k)
        PROVE  \A u \in Cores \ {w} : pc'[u] = pc[u]
    BY <1>1, <2>1 DEF OpenEventStep, Start
  <2>2. CASE OpenMetaStep(w)
    BY <1>2, <2>2 DEF OpenMetaStep
  <2>3. CASE OpenConflict(w)
    BY <1>2, <2>3 DEF OpenConflict
  <2> QED BY <1>5, <2>1, <2>2, <2>3 DEF OpenChapter
<1>6. CASE AppendSection(w)
  <2>1. ASSUME NEW c \in Chapters, NEW s \in Sections, NEW b \in BOOLEAN,
               AppendValidate(w, c, s, b)
        PROVE  Framed /\ UNCHANGED <<log, meta>>
    BY <1>3, <2>1 DEF AppendValidate
  <2>2. CASE AppendAdmit(w)
    BY <1>4, <2>2 DEF AppendAdmit
  <2>3. CASE AppendEventStep(w) \/ AppendStateStep(w)
    BY <1>4, <2>3 DEF AppendEventStep, AppendStateStep
  <2>4. CASE AppendOnceRefused(w) \/ Dispatch(w) \/ DispatchFails(w)
    BY <1>2, <2>4 DEF AppendOnceRefused, Reject, Dispatch, DispatchFails
  <2> QED BY <1>6, <2>1, <2>2, <2>3, <2>4 DEF AppendSection, AppendAdmit
<1>7. CASE CloseChapter(w)
  <2>1. ASSUME NEW c \in Chapters, CloseValidate(w, c)
        PROVE  Framed /\ UNCHANGED <<log, meta>>
    BY <1>3, <2>1 DEF CloseValidate
  <2>2. CASE CloseCheck(w) \/ CloseEventStep(w)
    BY <1>4, <2>2 DEF CloseCheck, CloseEventStep
  <2>3. CASE CloseRefused(w) \/ CloseStateStep(w)
    BY <1>2, <2>3 DEF CloseRefused, Reject, CloseStateStep
  <2> QED
    BY <1>7, <2>1, <2>2, <2>3 DEF CloseChapter, CloseCheck, CloseRefused, Reject
<1>8. CASE ImportChapter(w)
  <2>1. ASSUME NEW batch \in ImportFiles, ImportCheck(w, batch)
        PROVE  Framed /\ UNCHANGED <<log, meta>>
    BY <1>3, <2>1 DEF ImportCheck
  <2>2. CASE ImportCommit(w) \/ ImportRollback(w)
    BY <1>2, <2>2 DEF ImportCommit, ImportRollback
  <2> QED BY <1>8, <2>1, <2>2 DEF ImportChapter, ImportRollback
<1>9. CASE Environment(w)
  <2>1. UNCHANGED <<log, meta>>
    BY <1>9 DEF Environment, LoadSchema, StatementFails, Crash
  <2>2. ASSUME NEW k, NEW v, LoadSchema(w, k, v)
        PROVE  Framed
    BY <2>2 DEF LoadSchema, Idle
  <2>3. CASE StatementFails(w) \/ Crash(w)
    BY <1>2, <2>3 DEF StatementFails, Crash
  <2> QED BY <1>9, <2>1, <2>2, <2>3 DEF Environment
<1> QED BY <1>5, <1>6, <1>7, <1>8, <1>9 DEF JournalStep

(* An event is inserted where its id is drawn, not where the row follows.    *)
LEMMA InsertsAt ==
  ASSUME TypeInv, NEW w \in Cores, JournalStep(w), log' # log
  PROVE  pc[w] # "open_meta"
BY OwnSteps
DEF OpenEventStep, Ready, Idle, OpenMetaStep, AppendEventStep, AppendStateStep,
    CloseEventStep, CloseStateStep, ImportCommit, Go

-----------------------------------------------------------------------------
(* The ids. *)

(* A core between the two statements of open_chapter still has the id of its *)
(* event, for the time; any other id that is drawn is on no event yet.       *)
IdsInv ==
  /\ \A i, j \in DOMAIN ids : ids[i] = ids[j] => i = j
  /\ \A w \in Cores : pc[w] = "open_meta" => Drawn(w)
  /\ \A w \in Cores :
        Drawn(w) /\ pc[w] # "open_meta" =>
          \A i \in DOMAIN ids : ids[i] # stamp[w]
  /\ \A u, w \in Cores : Drawn(u) /\ u # w => stamp[u] # stamp[w]

LEMMA IdsInit == ReadInit => IdsInv
BY DEF ReadInit, Init, IdsInv, Drawn

LEMMA IdsDraw ==
  ASSUME ClockTypes, IdsInv, NEW w \in Cores, Draw(w)
  PROVE  IdsInv'
<1>1. PICK i \in UlidsNow \ TakenIds : stamp' = [stamp EXCEPT ![w] = i]
  BY DEF Draw
<1>2. ids' = ids /\ pc' = pc
  BY DEF Draw, vars
<1>3. /\ \A j \in DOMAIN ids : ids[j] # i
      /\ \A u \in Cores : stamp[u] # i
  BY <1>1 DEF TakenIds
<1>4. stamp'[w] = i /\ \A u \in Cores \ {w} : stamp'[u] = stamp[u]
  BY <1>1 DEF ClockTypes
<1>5. stamp[w] = NoStamp /\ i # NoStamp
  BY <1>1, NoStampFacts DEF Draw, UlidsNow, TakenIds
<1> QED BY <1>2, <1>3, <1>4, <1>5 DEF IdsInv, Drawn

LEMMA IdsWrite ==
  ASSUME TypeInv, ClockTypes, IdsInv, NEW w \in Cores, WriteStep(w)
  PROVE  IdsInv'
<1>1. JournalStep(w)
  BY DEF WriteStep
<1>2. stamp'[w] = StampAfter(w) /\ \A u \in Cores \ {w} : stamp'[u] = stamp[u]
  BY DEF WriteStep, ClockTypes
<1>3. \A u \in Cores \ {w} : pc'[u] = pc[u]
  BY <1>1, OwnSteps
<1>4. Drawn(w)' => pc'[w] = "open_meta" /\ stamp'[w] = stamp[w]
  BY <1>2 DEF StampAfter, Drawn
<1>5. pc'[w] = "open_meta" => Drawn(w)'
  <2> SUFFICES ASSUME pc'[w] = "open_meta" PROVE Drawn(w)'
    OBVIOUS
  <2>1. log' # log
    <3>1. PICK c \in Chapters, k \in SchemaIds : OpenEventStep(w, c, k)
      BY <1>1, OwnSteps
    <3>2. log \in Seq(Event) /\ OpenEvent(c) \in Event
      BY DEF TypeInv, TypeOK, StoreTypeOK, OpenEvent, Event
    <3> QED BY <3>1, <3>2, InsertFacts DEF OpenEventStep, Insert
  <2> QED BY <1>2, <2>1 DEF WriteStep, StampAfter, Drawn
<1>6. CASE UNCHANGED <<log, ids>>
  BY <1>2, <1>3, <1>4, <1>5, <1>6 DEF IdsInv, Drawn
<1>7. CASE /\ Len(log') = Len(log) + 1
           /\ Drawn(w) /\ stamp[w] \in EventId
           /\ ids' = Append(ids, stamp[w])
  <2>1. pc[w] # "open_meta"
    BY <1>1, <1>7, InsertsAt
  <2>2. \A i \in DOMAIN ids : ids[i] # stamp[w]
    BY <1>7, <2>1 DEF IdsInv
  <2>3. /\ DOMAIN ids' = DOMAIN ids \cup {Len(ids) + 1}
        /\ Len(ids) + 1 \notin DOMAIN ids
        /\ \A i \in DOMAIN ids : ids'[i] = ids[i]
        /\ ids'[Len(ids) + 1] = stamp[w]
    BY <1>7 DEF ClockTypes
  <2>4. \A i, j \in DOMAIN ids' : ids'[i] = ids'[j] => i = j
    BY <2>2, <2>3 DEF IdsInv
  <2>5. \A u \in Cores : Drawn(u)' /\ pc'[u] # "open_meta" =>
          \A i \in DOMAIN ids' : ids'[i] # stamp'[u]
    BY <1>2, <1>3, <1>4, <1>7, <2>3 DEF IdsInv, Drawn
  <2>6. \A u \in Cores : pc'[u] = "open_meta" => Drawn(u)'
    BY <1>2, <1>3, <1>5 DEF IdsInv, Drawn
  <2>7. \A u, v \in Cores : Drawn(u)' /\ u # v => stamp'[u] # stamp'[v]
    BY <1>2, <1>4, <1>7 DEF IdsInv, Drawn
  <2> QED BY <2>4, <2>5, <2>6, <2>7 DEF IdsInv
<1> QED BY <1>6, <1>7, WriteAppends

LEMMA IdsNext ==
  ASSUME TypeInv, ClockTypes, IdsInv, [ReadNext]_readVars
  PROVE  IdsInv'
<1>1. CASE UNCHANGED <<pc, stamp, ids>>
  BY <1>1 DEF IdsInv, Drawn
<1>2. CASE Tick \/ SetBack
  BY <1>1, <1>2 DEF Tick, SetBack, vars
<1>3. CASE Read
  BY <1>1, <1>3 DEF Read, Ask, List, ReadRow, ReadEvents, ReadImports,
                    ExpandFails, vars, clockVars
<1>4. CASE UNCHANGED readVars
  BY <1>1, <1>4 DEF readVars
<1> QED BY <1>2, <1>3, <1>4, IdsDraw, IdsWrite DEF ReadNext

-----------------------------------------------------------------------------
(* The table. *)

TableInv ==
  /\ table \in Seq(ListedRow)
  /\ {table[a].id : a \in DOMAIN table} = {c \in Chapters : Exists(c)}
  /\ \A a, b \in DOMAIN table : table[a].id = table[b].id => a = b

(* No row is deleted, and rowids only grow.                                  *)
Extended ==
  /\ DOMAIN table \subseteq DOMAIN table'
  /\ \A a \in DOMAIN table : table'[a] = table[a]

(* The rows of new chapters behind the rows there are.                       *)
LEMMA TableGrows ==
  ASSUME TableInv, NEW new \in Seq(ListedRow), table' = table \o new,
         \A j, k \in DOMAIN new : new[j].id = new[k].id => j = k,
         \A k \in DOMAIN new : ~Exists(new[k].id),
         \A c \in Chapters :
            meta'[c] # NoRow
              <=> Exists(c) \/ \E k \in DOMAIN new : new[k].id = c
  PROVE  TableInv' /\ Extended
<1> DEFINE n == Len(table)
<1>1. /\ n \in Nat /\ Len(new) \in Nat
      /\ DOMAIN table = 1 .. n /\ DOMAIN new = 1 .. Len(new)
  BY DEF TableInv
<1>2. /\ table' \in Seq(ListedRow)
      /\ DOMAIN table' = 1 .. n + Len(new)
      /\ \A a \in 1 .. n : table'[a] = table[a]
      /\ \A k \in 1 .. Len(new) : table'[n + k] = new[k]
  BY DEF TableInv
<1>3. \A a \in DOMAIN table' :
         \/ a \in 1 .. n
         \/ a - n \in 1 .. Len(new) /\ table'[a] = new[a - n]
  <2> SUFFICES ASSUME NEW a \in DOMAIN table', a \notin 1 .. n
               PROVE  a - n \in 1 .. Len(new) /\ table'[a] = new[a - n]
    OBVIOUS
  <2>1. a - n \in 1 .. Len(new) /\ n + (a - n) = a
    BY <1>1, <1>2
  <2> QED BY <1>2, <2>1
<1>4. \A a \in 1 .. n : table[a].id \in Chapters /\ Exists(table[a].id)
  BY <1>1 DEF TableInv
<1>5. \A k \in 1 .. Len(new) : new[k].id \in Chapters
  <2>1. \A k \in 1 .. Len(new) : new[k] \in ListedRow
    BY <1>1
  <2> QED BY <2>1 DEF ListedRow
<1>6. {table'[a].id : a \in DOMAIN table'} = {c \in Chapters : meta'[c] # NoRow}
  <2>1. ASSUME NEW a \in DOMAIN table'
        PROVE  table'[a].id \in Chapters /\ meta'[table'[a].id] # NoRow
    <3>1. CASE a \in 1 .. n
      BY <1>2, <1>4, <3>1
    <3>2. CASE a - n \in 1 .. Len(new) /\ table'[a] = new[a - n]
      BY <1>1, <1>5, <3>2
    <3> QED BY <1>3, <2>1, <3>1, <3>2
  <2>2. ASSUME NEW c \in Chapters, meta'[c] # NoRow
        PROVE  \E a \in DOMAIN table' : table'[a].id = c
    <3>1. CASE Exists(c)
      <4>1. PICK a \in 1 .. n : table[a].id = c
        BY <1>1, <3>1 DEF TableInv
      <4>2. a \in DOMAIN table' /\ table'[a].id = c
        BY <1>1, <1>2, <4>1
      <4> QED BY <4>2
    <3>2. CASE \E k \in DOMAIN new : new[k].id = c
      <4>1. PICK k \in 1 .. Len(new) : new[k].id = c
        BY <1>1, <3>2
      <4>2. n + k \in DOMAIN table' /\ table'[n + k].id = c
        BY <1>1, <1>2, <4>1
      <4> QED BY <4>2
    <3> QED BY <2>2, <3>1, <3>2
  <2> HIDE DEF n
  <2> QED BY <2>1, <2>2
<1>7. ASSUME NEW a \in DOMAIN table', NEW b \in DOMAIN table',
             table'[a].id = table'[b].id
      PROVE  a = b
  <2>1. CASE a \in 1 .. n /\ b \in 1 .. n
    BY <1>1, <1>2, <1>7, <2>1 DEF TableInv
  <2>2. CASE a \notin 1 .. n /\ b \notin 1 .. n
    <3>1. a - n \in 1 .. Len(new) /\ b - n \in 1 .. Len(new)
          /\ new[a - n].id = new[b - n].id
      BY <1>3, <1>7, <2>2
    <3>2. a - n = b - n
      BY <1>1, <3>1
    <3> QED BY <1>1, <1>2, <3>2
  <2>3. CASE a \in 1 .. n /\ b \notin 1 .. n
    <3>1. b - n \in DOMAIN new /\ table[a].id = new[b - n].id
      BY <1>1, <1>2, <1>3, <1>7, <2>3
    <3> QED BY <1>4, <2>3, <3>1
  <2>4. CASE a \notin 1 .. n /\ b \in 1 .. n
    <3>1. a - n \in DOMAIN new /\ table[b].id = new[a - n].id
      BY <1>1, <1>2, <1>3, <1>7, <2>4
    <3> QED BY <1>4, <2>4, <3>1
  <2> QED BY <2>1, <2>2, <2>3, <2>4
<1> HIDE DEF n
<1>8. Extended
  BY <1>1, <1>2 DEF Extended
<1> QED BY <1>2, <1>6, <1>7, <1>8 DEF TableInv, Exists

(* An import inserts a row for every id its entries give, once each.         *)
LEMMA ImportIdsFacts ==
  ASSUME NEW batch \in Seq(ImportEntry), BatchInsertable(batch)
  PROVE  /\ ImportIds(batch) \in Seq(Chapters)
         /\ \A j, k \in DOMAIN ImportIds(batch) :
               ImportIds(batch)[j] = ImportIds(batch)[k] => j = k
         /\ \A c \in Chapters :
               c \in BatchIds(batch) <=>
                 \E k \in DOMAIN ImportIds(batch) : ImportIds(batch)[k] = c
<1> DEFINE S == {k \in DOMAIN batch : batch[k].id # NoChapter}
           Less == {p \in (DOMAIN batch) \X (DOMAIN batch) : p[1] < p[2]}
           given == InOrder(S, Less)
           N == Cardinality(S)
<1>1. Len(batch) \in Nat /\ DOMAIN batch = 1 .. Len(batch)
  OBVIOUS
<1>2. IsFiniteSet(S)
  <2>1. IsFiniteSet(1 .. Len(batch))
    BY <1>1, FS_Interval
  <2>2. S \in SUBSET (1 .. Len(batch))
    BY <1>1
  <2> QED BY <2>1, <2>2, FS_Subset
<1>3. \A j, k \in S : <<j, k>> \in Less <=> j < k
  OBVIOUS
<1>4. StrictOrder(Less, S)
  <2>1. S \subseteq Nat
    BY <1>1
  <2> HIDE DEF S, Less
  <2> QED BY <1>3, <2>1 DEF StrictOrder
<1>5. /\ given \in Seq(S) /\ Len(given) = N
      /\ \A n \in 1 .. N : given[n] \in S /\ Place(given[n], S, Less) = n - 1
      /\ \A b \in S : /\ Place(b, S, Less) + 1 \in 1 .. N
                      /\ given[Place(b, S, Less) + 1] = b
  <2> HIDE DEF S, Less
  <2> QED BY <1>2, <1>4, InOrderFacts
<1>6. N \in Nat
  BY <1>2, FS_CardinalityType
<1>7. \A k \in S : batch[k].id \in Chapters
  <2>1. \A k \in DOMAIN batch : batch[k] \in ImportEntry
    BY <1>1
  <2> QED BY <2>1 DEF ImportEntry
<1>8. DOMAIN given = 1 .. N
  <2> HIDE DEF given
  <2> QED BY <1>5
<1>9. ImportIds(batch) = [n \in 1 .. N |-> batch[given[n]].id]
  BY <1>8 DEF ImportIds
<1> HIDE DEF given, N
<1>10. ImportIds(batch) \in Seq(Chapters) /\ DOMAIN ImportIds(batch) = 1 .. N
  <2>1. \A n \in 1 .. N : batch[given[n]].id \in Chapters
    BY <1>5, <1>7
  <2>2. ImportIds(batch) \in [1 .. N -> Chapters]
    BY <1>9, <2>1
  <2> QED BY <1>6, <2>2
<1>11. ASSUME NEW j \in 1 .. N, NEW k \in 1 .. N,
              ImportIds(batch)[j] = ImportIds(batch)[k]
       PROVE  j = k
  <2>1. batch[given[j]].id = batch[given[k]].id
    BY <1>9, <1>11
  <2>2. given[j] \in S /\ given[k] \in S
    BY <1>5
  <2>3. given[j] = given[k]
    BY <2>1, <2>2 DEF BatchInsertable
  <2>4. j - 1 = k - 1
    <3> HIDE DEF S, Less
    <3> QED BY <1>5, <2>3
  <2> QED BY <1>6, <2>4
<1>12. ASSUME NEW c \in Chapters, c \in BatchIds(batch)
       PROVE  \E k \in 1 .. N : ImportIds(batch)[k] = c
  <2>1. PICK b \in S : batch[b].id = c
    BY <1>12, StoreAssumption DEF BatchIds
  <2>2. PICK n \in 1 .. N : given[n] = b
    BY <1>5
  <2> QED BY <1>9, <2>1, <2>2
<1>13. ASSUME NEW c \in Chapters, NEW k \in 1 .. N, ImportIds(batch)[k] = c
       PROVE  c \in BatchIds(batch)
  <2>1. given[k] \in DOMAIN batch /\ batch[given[k]].id = c
    BY <1>5, <1>9, <1>13
  <2> QED BY <2>1 DEF BatchIds
<1> QED BY <1>10, <1>11, <1>12, <1>13

LEMMA TableInit == ReadInit => TableInv
<1> SUFFICES ASSUME ReadInit PROVE TableInv
  OBVIOUS
<1>1. table = << >> /\ \A c \in Chapters : ~Exists(c)
  BY DEF ReadInit, Init, StoreInit, Exists
<1> QED BY <1>1 DEF TableInv

LEMMA RowStamped ==
  ASSUME ClockTypes, NEW w \in Cores, Drawn(w), NEW c \in Chapters
  PROVE  [id |-> c, opened |-> stamp[w].ms] \in ListedRow
<1>1. stamp[w] \in EventId
  BY DEF ClockTypes, Drawn
<1> QED BY <1>1 DEF EventId, ListedRow

LEMMA TableOpen ==
  ASSUME TypeInv, ClockTypes, IdsInv, TableInv,
         NEW w \in Cores, WriteStep(w), OpenMetaStep(w)
  PROVE  TableInv' /\ Extended
<1> DEFINE c == op[w].chapter
           row == [id |-> c, opened |-> stamp[w].ms]
<1>1. c \in Chapters
  BY DEF OpenMetaStep, TypeInv, OperationsBound, ChapterSteps
<1>2. /\ ~Exists(c)
      /\ meta' = [meta EXCEPT ![c] = [schema |-> op[w].schema,
                                      state |-> op[w].state, closed |-> FALSE]]
  BY DEF OpenMetaStep, InsertMeta
<1>3. meta'[c] # NoRow /\ \A d \in Chapters \ {c} : meta'[d] = meta[d]
  <2>1. meta' \in [Chapters -> MetaRow \cup {NoRow}]
        /\ meta \in [Chapters -> MetaRow \cup {NoRow}]
    BY <1>1, TypeReads DEF WriteStep, ReadNext, TypeInv, TypeOK, StoreTypeOK
  <2>2. op[w].schema \in SchemaIds /\ op[w].state \in States
    BY DEF OpenMetaStep, TypeInv, TypeOK, OperationsBound, Operation
  <2>3. meta'[c] \in MetaRow
    BY <1>1, <1>2, <2>1, <2>2 DEF MetaRow
  <2> QED BY <1>1, <1>2, <2>1, <2>3, StoreAssumption DEF Exists
<1>4. Inserted
  BY <1>1, <1>2, <1>3 DEF Inserted, Exists
<1>5. pc[w] = "open_meta"
  BY DEF OpenMetaStep
<1>6. row \in ListedRow
  BY <1>1, <1>5, RowStamped DEF IdsInv
<1>7. NewRows(w) = <<row>>
  <2>1. NewRows(w) = [k \in DOMAIN <<c>> |->
                        [id |-> <<c>>[k], opened |-> stamp[w].ms]]
    BY <1>5 DEF NewRows
  <2> QED BY <2>1
<1>8. table' = table \o <<row>>
  BY <1>4, <1>7 DEF WriteStep
<1> HIDE DEF c
<1>9. \A d \in Chapters : meta'[d] # NoRow <=> Exists(d) \/ d = c
  BY <1>1, <1>3 DEF Exists
<1>10. <<row>> \in Seq(ListedRow) /\ DOMAIN <<row>> = {1} /\ <<row>>[1].id = c
  BY <1>6
<1> HIDE DEF row
<1> QED BY <1>2, <1>8, <1>9, <1>10, TableGrows

LEMMA TableImport ==
  ASSUME TypeInv, ClockTypes, TableInv,
         NEW w \in Cores, WriteStep(w), ImportCommit(w)
  PROVE  TableInv' /\ Extended
<1> DEFINE batch == op[w].batch
           given == ImportIds(batch)
           new == NewRows(w)
<1>1. /\ pc[w] = "import_tx" /\ BatchInsertable(batch)
      /\ InsertEvent(ImportEvent(batch))
      /\ meta' = [c \in Chapters |->
                    IF c \in BatchIds(batch)
                      THEN [schema |-> ImportSchema, state |-> ImportState,
                            closed |-> TRUE]
                      ELSE meta[c]]
  BY DEF ImportCommit, InsertImport
<1>2. batch \in Seq(ImportEntry)
  BY DEF TypeInv, TypeOK, Operation
<1>3. Drawn(w)
  <2>1. log \in Seq(Event) /\ ImportEvent(batch) \in Event
    BY <1>2 DEF TypeInv, TypeOK, StoreTypeOK, ImportEvent, Event
  <2>2. log' # log
    BY <1>1, <2>1, InsertFacts
  <2> QED BY <2>2 DEF WriteStep, Drawn
<1>4. \A c \in BatchIds(batch) : c \in Chapters /\ ~Exists(c)
  BY <1>1 DEF BatchInsertable, BatchIds
<1>5. \A c \in Chapters :
         meta'[c] # NoRow <=> Exists(c) \/ c \in BatchIds(batch)
  <2>1. [schema |-> ImportSchema, state |-> ImportState, closed |-> TRUE]
          # NoRow
    <3>1. [schema |-> ImportSchema, state |-> ImportState, closed |-> TRUE]
            \in MetaRow
      BY StoreAssumption DEF MetaRow
    <3> QED BY <3>1, StoreAssumption
  <2> QED BY <1>1, <1>4, <2>1 DEF Exists
<1>6. /\ given \in Seq(Chapters)
      /\ \A j, k \in DOMAIN given : given[j] = given[k] => j = k
      /\ \A c \in Chapters : c \in BatchIds(batch) <=>
                               \E k \in DOMAIN given : given[k] = c
  <2> HIDE DEF batch
  <2> QED BY <1>1, <1>2, ImportIdsFacts
<1> HIDE DEF batch, given
<1>7. new = [k \in DOMAIN given |-> [id |-> given[k], opened |-> stamp[w].ms]]
  BY <1>1 DEF NewRows, batch, given
<1>8. /\ new \in Seq(ListedRow) /\ DOMAIN new = DOMAIN given
      /\ \A k \in DOMAIN new : new[k].id = given[k]
  <2>1. \A k \in DOMAIN given : given[k] \in Chapters
    BY <1>6
  <2>2. new \in [1 .. Len(given) -> ListedRow]
    BY <1>3, <1>6, <1>7, <2>1, RowStamped
  <2>3. Len(given) \in Nat
    BY <1>6
  <2>4. new \in Seq(ListedRow)
    BY <2>2, <2>3
  <2> QED BY <1>7, <2>4
<1> HIDE DEF new
<1>9. CASE Inserted
  <2>1. table' = table \o new
    BY <1>9 DEF WriteStep, new
  <2>2. \A k \in DOMAIN new : ~Exists(new[k].id)
    <3>1. \A k \in DOMAIN given : given[k] \in Chapters
      BY <1>6
    <3> QED BY <1>4, <1>6, <1>8, <3>1
  <2>3. \A j, k \in DOMAIN new : new[j].id = new[k].id => j = k
    BY <1>6, <1>8
  <2>4. \A c \in Chapters :
           meta'[c] # NoRow
             <=> Exists(c) \/ \E k \in DOMAIN new : new[k].id = c
    BY <1>5, <1>6, <1>8
  <2> QED BY <1>8, <2>1, <2>2, <2>3, <2>4, TableGrows
<1>10. CASE ~Inserted
  <2>1. table' = table
    BY <1>10 DEF WriteStep
  <2>2. \A c \in Chapters : Exists(c)' <=> Exists(c)
    BY <1>5, <1>10 DEF Inserted, Exists
  <2> QED BY <2>1, <2>2 DEF TableInv, Extended
<1> QED BY <1>9, <1>10

LEMMA TableWrite ==
  ASSUME TypeInv, ClockTypes, IdsInv, TableInv, NEW w \in Cores, WriteStep(w)
  PROVE  TableInv' /\ Extended
<1>1. ASSUME \A c \in Chapters : Exists(c)' <=> Exists(c)
      PROVE  TableInv' /\ Extended
  <2>1. ~Inserted
    BY <1>1 DEF Inserted, Exists
  <2>2. table' = table
    BY <2>1 DEF WriteStep
  <2> QED BY <1>1, <2>2 DEF TableInv, Extended
<1>2. CASE UNCHANGED meta
  BY <1>1, <1>2 DEF Exists
<1>3. CASE AppendStateStep(w) \/ CloseStateStep(w)
  <2>1. ASSUME NEW c \in Chapters PROVE Exists(c)' <=> Exists(c)
    <3>1. /\ meta \in [Chapters -> MetaRow \cup {NoRow}]
          /\ op[w].state \in States
          /\ op[w].chapter \in Chapters
      BY <1>3 DEF AppendStateStep, CloseStateStep, Go, TypeInv, TypeOK,
                  StoreTypeOK, OperationsBound, Operation, ChapterSteps,
                  SectionSteps
    <3>2. CASE ~Exists(op[w].chapter)
      BY <1>3, <3>2
      DEF AppendStateStep, CloseStateStep, UpdateState, UpdateClosed, Exists
    <3>3. CASE Exists(op[w].chapter)
      <4>1. PICK d \in Chapters : d = op[w].chapter
        BY <3>1
      <4>2. Exists(d)'
        BY <3>3, <4>1, ClosedStays DEF WriteStep, JournalStep, Next
      <4>3. \A e \in Chapters \ {d} : meta'[e] = meta[e]
        BY <1>3, <3>1, <3>3, <4>1
        DEF AppendStateStep, CloseStateStep, UpdateState, UpdateClosed
      <4> QED BY <3>3, <4>1, <4>2, <4>3 DEF Exists
    <3> QED BY <3>2, <3>3
  <2> QED BY <1>1, <2>1
<1>4. \/ UNCHANGED meta
      \/ OpenMetaStep(w) \/ AppendStateStep(w) \/ CloseStateStep(w)
      \/ ImportCommit(w)
  BY OwnSteps DEF WriteStep, OpenEventStep, AppendEventStep, CloseEventStep
<1> QED BY <1>2, <1>3, <1>4, TableOpen, TableImport

LEMMA TableNext ==
  ASSUME TypeInv, ClockTypes, IdsInv, TableInv, [ReadNext]_readVars
  PROVE  TableInv' /\ Extended
<1>1. CASE UNCHANGED <<meta, table>>
  BY <1>1 DEF TableInv, Exists, Extended
<1>2. CASE Tick \/ SetBack \/ (\E w \in Cores : Draw(w))
  BY <1>1, <1>2 DEF Tick, SetBack, Draw, vars
<1>3. CASE Read
  BY <1>1, <1>3 DEF Read, Ask, List, ReadRow, ReadEvents, ReadImports,
                    ExpandFails, vars, clockVars
<1>4. CASE UNCHANGED readVars
  BY <1>1, <1>4 DEF readVars
<1> QED BY <1>2, <1>3, <1>4, TableWrite DEF ReadNext

-----------------------------------------------------------------------------
(* Listing, over the values of the variables a step may change.              *)

RowsWanted(t, m, s) ==
  {a \in DOMAIN t :
     /\ t[a].opened >= s.since
     /\ s.dump => m[t[a].id].schema \in ReaderSchemas}

Newer(t) ==
  {p \in (DOMAIN t) \X (DOMAIN t) :
     \/ t[p[1]].opened > t[p[2]].opened
     \/ t[p[1]].opened = t[p[2]].opened /\ p[1] < p[2]}

PlaceIn(b, t, m, s) == Place(b, RowsWanted(t, m, s), Newer(t))

(* A wanted row of the chapter comes behind the first k.                     *)
ToCome(c, t, m, s, k) ==
  \E b \in RowsWanted(t, m, s) : t[b].id = c /\ PlaceIn(b, t, m, s) >= k

LEMMA ListedAs ==
  /\ \A s : WantedRows(s) = RowsWanted(table, meta, s)
  /\ NewestFirst = Newer(table)
BY DEF WantedRows, Wanted, RowsWanted, NewestFirst, Ahead, Newer

LEMMA NewerOrders ==
  ASSUME NEW t \in Seq(ListedRow), NEW S \in SUBSET DOMAIN t
  PROVE  /\ IsFiniteSet(S)
         /\ StrictOrder(Newer(t), S)
<1>1. Len(t) \in Nat /\ DOMAIN t = 1 .. Len(t)
  OBVIOUS
<1>2. IsFiniteSet(S)
  <2>1. IsFiniteSet(1 .. Len(t))
    BY <1>1, FS_Interval
  <2> QED BY <1>1, <2>1, FS_Subset
<1>3. \A a \in S : a \in Nat /\ t[a].opened \in Nat
  <2>1. \A a \in DOMAIN t : t[a] \in ListedRow
    BY <1>1
  <2> QED BY <1>1, <2>1 DEF ListedRow
<1>4. \A a, b \in S :
         <<a, b>> \in Newer(t) <=> \/ t[a].opened > t[b].opened
                                   \/ t[a].opened = t[b].opened /\ a < b
  BY DEF Newer
<1>5. \A a \in S : <<a, a>> \notin Newer(t)
  BY <1>3, <1>4
<1>6. \A a, b, c \in S :
         <<a, b>> \in Newer(t) /\ <<b, c>> \in Newer(t)
           => <<a, c>> \in Newer(t)
  BY <1>3, <1>4
<1>7. \A a, b \in S : a = b \/ <<a, b>> \in Newer(t) \/ <<b, a>> \in Newer(t)
  <2> SUFFICES ASSUME NEW a \in S, NEW b \in S
               PROVE  a = b \/ <<a, b>> \in Newer(t) \/ <<b, a>> \in Newer(t)
    OBVIOUS
  <2>1. /\ a \in Nat /\ b \in Nat
        /\ t[a].opened \in Nat /\ t[b].opened \in Nat
    BY <1>3
  <2>2. \/ t[a].opened > t[b].opened
        \/ t[b].opened > t[a].opened
        \/ t[a].opened = t[b].opened /\ (a < b \/ b < a \/ a = b)
    BY <2>1
  <2> QED BY <1>4, <2>2
<1> QED BY <1>2, <1>5, <1>6, <1>7 DEF StrictOrder

LEMMA PlaceInNat ==
  ASSUME NEW t \in Seq(ListedRow), NEW m, NEW s, NEW b
  PROVE  PlaceIn(b, t, m, s) \in Nat
<1> DEFINE S == RowsWanted(t, m, s)
<1>1. S \in SUBSET DOMAIN t
  BY DEF RowsWanted
<1>2. IsFiniteSet(S) /\ S \in SUBSET S
  BY <1>1, NewerOrders
<1> HIDE DEF S
<1>3. Place(b, S, Newer(t)) \in Nat
  BY <1>2, PlaceMonotone
<1> QED BY <1>3 DEF PlaceIn, S

(* What is still to come stays so when rows are added, and the order of the  *)
(* rows there are stays as it is: new rows only push old ones back.          *)
LEMMA ToComeKept ==
  ASSUME NEW t \in Seq(ListedRow), NEW u \in Seq(ListedRow), NEW m, NEW n,
         DOMAIN t \subseteq DOMAIN u,
         \A a \in DOMAIN t : u[a] = t[a],
         \A a \in DOMAIN t : n[t[a].id].schema = m[t[a].id].schema,
         NEW s, NEW r, r.since = s.since, r.dump = s.dump,
         NEW c, NEW k \in Nat, NEW j \in Nat, j <= k, ToCome(c, t, m, s, k)
  PROVE  ToCome(c, u, n, r, j)
<1> DEFINE S == RowsWanted(t, m, s)
           T == RowsWanted(u, n, r)
<1>1. S \in SUBSET T
  BY DEF RowsWanted
<1>2. PICK b \in S : t[b].id = c /\ PlaceIn(b, t, m, s) >= k
  BY DEF ToCome
<1>3. b \in T /\ u[b].id = c
  BY <1>1, <1>2 DEF RowsWanted
<1>4. IsFiniteSet(T)
  <2>1. T \in SUBSET DOMAIN u
    BY DEF RowsWanted
  <2> QED BY <2>1, NewerOrders
<1>5. b \in DOMAIN t /\ S \subseteq DOMAIN t
  BY DEF RowsWanted
<1>6. \A a \in S : <<a, b>> \in Newer(t) => <<a, b>> \in Newer(u)
  BY <1>5 DEF Newer
<1> HIDE DEF S, T
<1>7. Place(b, S, Newer(t)) <= Place(b, T, Newer(u))
  BY <1>1, <1>4, <1>6, PlaceMonotone
<1>8. PlaceIn(b, t, m, s) <= PlaceIn(b, u, n, r)
  BY <1>7 DEF PlaceIn, S, T
<1>9. PlaceIn(b, t, m, s) \in Nat /\ PlaceIn(b, u, n, r) \in Nat
  BY PlaceInNat
<1>10. PlaceIn(b, u, n, r) >= j
  BY <1>2, <1>8, <1>9
<1> QED BY <1>3, <1>10 DEF ToCome, T

(* The listing has the wanted rows, each at its place.                       *)
LEMMA ListingFacts ==
  ASSUME TableInv, NEW s
  PROVE  /\ Listing(s) \in Seq(ListedRow)
         /\ \A b \in RowsWanted(table, meta, s) :
              /\ PlaceIn(b, table, meta, s) + 1 \in 1 .. Len(Listing(s))
              /\ Listing(s)[PlaceIn(b, table, meta, s) + 1] = table[b]
<1> DEFINE S == RowsWanted(table, meta, s)
           Less == Newer(table)
           q == InOrder(S, Less)
           N == Cardinality(S)
<1>1. S \in SUBSET DOMAIN table
  BY DEF RowsWanted
<1>2. IsFiniteSet(S) /\ StrictOrder(Less, S)
  <2> HIDE DEF S
  <2> QED BY <1>1, NewerOrders DEF TableInv
<1>3. /\ q \in Seq(S) /\ Len(q) = N
      /\ \A n \in 1 .. N : q[n] \in S
      /\ \A b \in S : /\ Place(b, S, Less) + 1 \in 1 .. N
                      /\ q[Place(b, S, Less) + 1] = b
  <2> HIDE DEF S, Less
  <2> QED BY <1>2, InOrderFacts
<1>4. N \in Nat
  <2> HIDE DEF S
  <2> QED BY <1>2, FS_CardinalityType
<1>5. DOMAIN q = 1 .. N
  <2> HIDE DEF q, S, N
  <2> QED BY <1>3
<1>6. Listing(s) = [n \in 1 .. N |-> table[q[n]]]
  <2>1. Listing(s) = Rows(q)
    BY ListedAs DEF Listing
  <2> HIDE DEF q, N
  <2> QED BY <1>5, <2>1 DEF Rows
<1>7. Listing(s) \in Seq(ListedRow) /\ Len(Listing(s)) = N
  <2>1. \A a \in DOMAIN table : table[a] \in ListedRow
    BY DEF TableInv
  <2> HIDE DEF q, S, N
  <2>2. \A n \in 1 .. N : table[q[n]] \in ListedRow
    BY <1>1, <1>3, <2>1
  <2>3. Listing(s) \in [1 .. N -> ListedRow]
    BY <1>6, <2>2
  <2> QED BY <1>4, <2>3
<1>8. \A b \in S : PlaceIn(b, table, meta, s) = Place(b, S, Less)
  BY DEF PlaceIn
<1> HIDE DEF q, S, N, Less
<1>9. \A b \in S : /\ PlaceIn(b, table, meta, s) + 1 \in 1 .. N
                   /\ Listing(s)[PlaceIn(b, table, meta, s) + 1] = table[b]
  BY <1>3, <1>6, <1>8
<1> QED BY <1>7, <1>9 DEF S

(* A page has the rows from the offset on, as far as the limit.              *)
LEMMA PageFacts ==
  ASSUME TableInv, NEW s, s.offset \in Nat, s.limit \in Nat
  PROVE  /\ Page(s) \in Seq(ListedRow)
         /\ Len(Page(s)) <= s.limit
         /\ \A b \in RowsWanted(table, meta, s) :
              PlaceIn(b, table, meta, s) >= s.offset =>
                \/ \E k \in DOMAIN Page(s) : Page(s)[k] = table[b]
                \/ /\ PlaceIn(b, table, meta, s) >= s.offset + s.limit
                   /\ Len(Page(s)) = s.limit
<1> DEFINE rows == Listing(s)
           L == Len(Listing(s))
           from == s.offset + 1
           to == IF s.offset + s.limit < L THEN s.offset + s.limit ELSE L
<1>1. /\ rows \in Seq(ListedRow) /\ L \in Nat
      /\ \A i \in 1 .. L : rows[i] \in ListedRow
  BY ListingFacts
<1>2. /\ from \in Nat /\ from >= 1 /\ to \in Nat /\ to <= L
      /\ to <= s.offset + s.limit
      /\ to = L \/ to = s.offset + s.limit
  BY <1>1
<1>3. Page(s) = SubSeq(rows, from, to)
  BY DEF Page
<1> HIDE DEF rows, L, from, to
<1>4. \A i \in from .. to : rows[i] \in ListedRow
  BY <1>1, <1>2
<1>5. /\ Page(s) \in Seq(ListedRow)
      /\ Len(Page(s)) = IF from <= to THEN to - from + 1 ELSE 0
      /\ \A i \in 1 .. to - from + 1 : Page(s)[i] = rows[from + i - 1]
  BY <1>2, <1>3, <1>4, SubSeqProperties
<1>6. ASSUME NEW b \in RowsWanted(table, meta, s),
             PlaceIn(b, table, meta, s) >= s.offset
      PROVE  \/ \E k \in DOMAIN Page(s) : Page(s)[k] = table[b]
             \/ /\ PlaceIn(b, table, meta, s) >= s.offset + s.limit
                /\ Len(Page(s)) = s.limit
  <2>1. PICK p \in Nat : p = PlaceIn(b, table, meta, s)
    BY PlaceInNat DEF TableInv
  <2>2. p + 1 \in 1 .. L /\ rows[p + 1] = table[b] /\ p >= s.offset
    BY <1>6, <2>1, ListingFacts DEF rows, L
  <2>3. CASE p + 1 <= to
    <3>1. PICK k \in Nat : k = p + 1 - s.offset
      BY <2>2
    <3>2. k \in 1 .. to - from + 1 /\ from + k - 1 = p + 1
      BY <1>2, <2>1, <2>2, <2>3, <3>1 DEF from
    <3>3. Page(s)[k] = table[b]
      BY <1>5, <2>2, <3>2
    <3>4. k \in DOMAIN Page(s)
      BY <1>2, <1>5, <3>2
    <3> QED BY <3>3, <3>4
  <2>4. CASE ~(p + 1 <= to)
    <3>1. to = s.offset + s.limit /\ p >= s.offset + s.limit
      BY <1>1, <1>2, <2>1, <2>2, <2>4
    <3>2. from = s.offset + 1
      BY DEF from
    <3>3. Len(Page(s)) = IF from <= to THEN to - from + 1 ELSE 0
      BY <1>5
    <3>4. s.limit > 0 => Len(Page(s)) = s.limit
      BY <3>1, <3>2, <3>3
    <3>5. s.limit = 0 => Len(Page(s)) = s.limit
      BY <3>1, <3>2, <3>3
    <3> QED BY <2>1, <3>1, <3>4, <3>5
  <2> QED BY <2>3, <2>4
<1>7. Len(Page(s)) <= s.limit
  BY <1>2, <1>5 DEF from
<1> QED BY <1>5, <1>6, <1>7

(* Whatever the order of a dump, it has the chapters of the page.            *)
LEMMA OrdersFacts ==
  ASSUME NEW page \in Seq(ListedRow), NEW s, NEW order \in Orders(s, page)
  PROVE  /\ order \in Seq(Chapters)
         /\ page # << >> => order # << >>
         /\ \A k \in DOMAIN page : \E n \in DOMAIN order : order[n] = page[k].id
<1> DEFINE rowIds == [n \in DOMAIN page |-> page[n].id]
<1>1. Len(page) \in Nat /\ DOMAIN page = 1 .. Len(page)
  OBVIOUS
<1>2. \A n \in DOMAIN page : page[n].id \in Chapters
  <2>1. \A n \in DOMAIN page : page[n] \in ListedRow
    BY <1>1
  <2> QED BY <2>1 DEF ListedRow
<1>3. \A i \in Range(rowIds) : i \in Chapters
  BY <1>2 DEF Range
<1>4. \/ /\ order \in [DOMAIN page -> Range(rowIds)]
         /\ Range(order) = Range(rowIds)
      \/ order = rowIds
  BY DEF Orders
<1>5. order \in [1 .. Len(page) -> Chapters] /\ Range(order) = Range(rowIds)
  BY <1>1, <1>2, <1>3, <1>4
<1>6. order \in Seq(Chapters) /\ Len(order) = Len(page)
  BY <1>1, <1>5
<1>7. ASSUME NEW k \in DOMAIN page
      PROVE  \E n \in DOMAIN order : order[n] = page[k].id
  <2>1. rowIds[k] = page[k].id /\ k \in DOMAIN rowIds
    OBVIOUS
  <2>2. page[k].id \in Range(rowIds)
    BY <2>1 DEF Range
  <2> HIDE DEF rowIds
  <2>3. page[k].id \in Range(order)
    BY <1>5, <2>2
  <2> QED BY <2>3 DEF Range
<1>8. page # << >> => order # << >>
  <2>1. page # << >> => Len(page) > 0
    BY <1>1
  <2> QED BY <1>6, <2>1
<1> QED BY <1>6, <1>7, <1>8

-----------------------------------------------------------------------------
(* The session. *)

Working == {"row", "events", "expand"}

(* The events of the chapter that were there when the session started.       *)
Streamed(l, c, past) == {i \in DOMAIN l : l[i].stream = c /\ i <= past}

(* The same of the imports that list it, and its stream as of now.           *)
Imported(l, c, past) ==
  {i \in DOMAIN l : /\ l[i].type = "import"
                    /\ \E k \in DOMAIN l[i].batch : l[i].batch[k].id = c
                    /\ i <= past}

Stream(l, c) == {i \in DOMAIN l : l[i].stream = c}

Shown(c, l, past, replay) ==
  /\ Streamed(l, c, past) \subseteq replay.events
  /\ \/ Imported(l, c, past) \subseteq replay.events
     \/ replay.lost
     \/ replay.events \cap Stream(l, c) # {}

Got(c, l, s) == s.got[c] # Unread /\ Shown(c, l, s.past, s.got[c])

(* A chapter that is owed has been replayed, or is on the page in work, or   *)
(* has its row behind the pages that were cut.                               *)
Served(c, t, m, l, s) ==
  \/ Got(c, l, s)
  \/ s.at = "list" /\ ToCome(c, t, m, s, s.offset)
  \/ s.at \in Working /\ \E n \in DOMAIN s.todo : s.todo[n] = c
  \/ s.at \in Working /\ ~s.last /\ ToCome(c, t, m, s, s.offset + s.limit)

Serving(t, m, l, s) ==
  /\ s.past <= Len(l)
  /\ s.at # "idle" => /\ s.limit > 0
                      /\ \A c \in s.owed : Served(c, t, m, l, s)
  /\ s.at \in Working => s.todo # << >>
  /\ s.at = "expand" => Streamed(l, Head(s.todo), s.past) = {}

PagingInv == client \in Session /\ Serving(table, meta, log, client)

LEMMA NoSessionType == NoSession \in Session
BY DEF NoSession, Session

LEMMA PagingInit == ReadInit => PagingInv
<1> SUFFICES ASSUME client = NoSession, log = << >> PROVE PagingInv
  BY DEF ReadInit, Init, StoreInit
<1>1. NoSession \in Session
  BY NoSessionType
<1> QED BY <1>1 DEF PagingInv, Serving, NoSession, Working

(* What happens in the journal takes nothing from the session.               *)
LEMMA PagingWrites ==
  ASSUME TypeInv, TypeInv', TableInv, TableInv', Extended, PagingInv,
         [ReadNext]_readVars, client' = client
  PROVE  PagingInv'
<1>1. log \in Seq(Event) /\ log' \in Seq(Event)
  BY DEF TypeInv, TypeOK, StoreTypeOK
<1>2. /\ Len(log) <= Len(log')
      /\ \A i \in DOMAIN log : i \in DOMAIN log' /\ log'[i] = log[i]
  <2>1. CASE UNCHANGED journal
    BY <1>1, <2>1 DEF journal
  <2>2. CASE Next
    <3>1. /\ DOMAIN log \subseteq DOMAIN log'
          /\ \A i \in DOMAIN log : log'[i] = log[i]
      BY <2>2, LogGrows
    <3>2. DOMAIN log = 1 .. Len(log) /\ DOMAIN log' = 1 .. Len(log')
          /\ Len(log) \in Nat /\ Len(log') \in Nat
      BY <1>1
    <3>3. Len(log) <= Len(log')
      BY <3>1, <3>2
    <3> QED BY <3>1, <3>3
  <2> QED BY <2>1, <2>2, JournalMoves
<1>3. \A a \in DOMAIN table :
         meta'[table[a].id].schema = meta[table[a].id].schema
  <2>1. CASE UNCHANGED journal
    BY <2>1 DEF journal
  <2>2. CASE Next
    <3>1. \A a \in DOMAIN table :
            table[a].id \in Chapters /\ Exists(table[a].id)
      BY DEF TableInv
    <3>2. \A c \in Chapters : Exists(c) => meta'[c].schema = meta[c].schema
      BY <2>2, ClosedStays
    <3> QED BY <3>1, <3>2
  <2> QED BY <2>1, <2>2, JournalMoves
<1>4. /\ client.past \in Nat /\ client.past <= Len(log)
      /\ client.offset \in Nat /\ client.limit \in Nat
  BY DEF PagingInv, Serving, Session
<1>5. \A c : /\ Streamed(log', c, client.past) = Streamed(log, c, client.past)
             /\ Imported(log', c, client.past) = Imported(log, c, client.past)
             /\ Stream(log, c) \subseteq Stream(log', c)
  <2>1. \A i \in DOMAIN log' : i <= client.past => i \in DOMAIN log
    BY <1>1, <1>4
  <2>2. \A c : Streamed(log', c, client.past) = Streamed(log, c, client.past)
    BY <1>2, <2>1 DEF Streamed
  <2>3. \A c : Imported(log', c, client.past) = Imported(log, c, client.past)
    BY <1>2, <2>1 DEF Imported
  <2>4. \A c : Stream(log, c) \subseteq Stream(log', c)
    BY <1>2 DEF Stream
  <2> QED BY <2>2, <2>3, <2>4
<1>6. \A c : \A k \in Nat :
         ToCome(c, table, meta, client, k)
           => ToCome(c, table', meta', client, k)
  <2> SUFFICES ASSUME NEW c, NEW k \in Nat, ToCome(c, table, meta, client, k)
               PROVE  ToCome(c, table', meta', client, k)
    OBVIOUS
  <2>1. table \in Seq(ListedRow) /\ table' \in Seq(ListedRow)
    BY DEF TableInv
  <2>2. k <= k
    OBVIOUS
  <2> QED BY <1>3, <2>1, <2>2, ToComeKept DEF Extended
<1>7. \A c : Served(c, table, meta, log, client)
               => Served(c, table', meta', log', client)
  <2>1. client.offset + client.limit \in Nat
    BY <1>4
  <2> SUFFICES ASSUME NEW c, Served(c, table, meta, log, client)
               PROVE  Served(c, table', meta', log', client)
    OBVIOUS
  <2>2. CASE Got(c, log, client)
    <3>1. Shown(c, log', client.past, client.got[c])
      BY <1>5, <2>2 DEF Got, Shown
    <3> QED BY <2>2, <3>1 DEF Served, Got
  <2>3. CASE client.at = "list" /\ ToCome(c, table, meta, client, client.offset)
    BY <1>4, <1>6, <2>3 DEF Served
  <2>4. CASE /\ client.at \in Working
             /\ \E n \in DOMAIN client.todo : client.todo[n] = c
    BY <2>4 DEF Served
  <2>5. CASE /\ client.at \in Working /\ ~client.last
             /\ ToCome(c, table, meta, client, client.offset + client.limit)
    BY <1>6, <2>1, <2>5 DEF Served
  <2> QED BY <2>2, <2>3, <2>4, <2>5 DEF Served
<1>8. client.past <= Len(log')
  <2>1. Len(log) \in Nat /\ Len(log') \in Nat
    BY <1>1
  <2> QED BY <1>2, <1>4, <2>1
<1>9. Serving(table', meta', log', client)
  BY <1>5, <1>7, <1>8 DEF PagingInv, Serving
<1> QED BY <1>9 DEF PagingInv

LEMMA PagingAsk ==
  ASSUME TypeInv, TableInv, NEW r \in Requests, Ask(r)
  PROVE  PagingInv'
<1> DEFINE s == [NoSession EXCEPT !.at = "list", !.limit = r.limit,
                                  !.since = r.since, !.dump = r.dump,
                                  !.past = Len(log)]
           owed == {table[a].id : a \in WantedRows(s)}
<1>1. client' = [s EXCEPT !.owed = owed] /\ UNCHANGED <<log, meta, table>>
  BY DEF Ask, vars, clockVars
<1>2. /\ r.limit \in Nat \ {0} /\ r.since \in Nat /\ r.dump \in BOOLEAN
      /\ Len(log) \in Nat
  <2>1. r \in [limit: Nat \ {0}, since: Nat, dump: BOOLEAN]
    BY ReadsAssumption
  <2>2. log \in Seq(Event)
    BY DEF TypeInv, TypeOK, StoreTypeOK
  <2> QED BY <2>1, <2>2
<1>3. owed \subseteq Chapters
  <2>1. \A a \in DOMAIN table : table[a].id \in Chapters
    BY DEF TableInv
  <2> QED BY <2>1 DEF WantedRows
<1>4. /\ s \in Session /\ s.at = "list" /\ s.offset = 0
      /\ s.limit = r.limit /\ s.past = Len(log)
  <2>1. s.offset = 0
    BY DEF NoSession
  <2> QED BY <1>2, <2>1, NoSessionType DEF Session
<1>5. /\ client' \in Session /\ client'.owed = owed /\ client'.at = "list"
      /\ client'.offset = 0 /\ client'.limit = r.limit
      /\ client'.past = Len(log)
      /\ client'.since = s.since /\ client'.dump = s.dump
  <2> HIDE DEF owed, s
  <2> QED BY <1>1, <1>3, <1>4 DEF Session
<1>6. ASSUME NEW c \in owed
      PROVE  ToCome(c, table, meta, client', 0)
  <2>1. PICK b \in RowsWanted(table, meta, s) : table[b].id = c
    BY ListedAs
  <2>2. b \in RowsWanted(table, meta, client')
    <3> HIDE DEF s
    <3> QED BY <1>5, <2>1 DEF RowsWanted
  <2>3. PlaceIn(b, table, meta, client') >= 0
    BY PlaceInNat DEF TableInv
  <2> QED BY <2>1, <2>2, <2>3 DEF ToCome
<1> HIDE DEF s, owed
<1>7. \A c \in client'.owed : Served(c, table, meta, log, client')
  BY <1>5, <1>6 DEF Served
<1>8. Serving(table, meta, log, client')
  BY <1>2, <1>5, <1>7 DEF Serving, Working
<1> QED BY <1>1, <1>5, <1>8 DEF PagingInv

LEMMA PagingList ==
  ASSUME TypeInv, TableInv, PagingInv, List
  PROVE  PagingInv'
<1> DEFINE page == Page(client)
<1>1. PICK order \in Orders(client, page) :
         client' = [client EXCEPT !.at = IF page = << >> THEN "done" ELSE "row",
                                  !.todo = order,
                                  !.last = Len(page) < client.limit]
  BY DEF List
<1>2. UNCHANGED <<log, meta, table>> /\ client.at = "list"
  BY DEF List, vars, clockVars
<1>3. /\ client \in Session /\ client.limit > 0 /\ client.past <= Len(log)
      /\ \A c \in client.owed : Served(c, table, meta, log, client)
  BY <1>2 DEF PagingInv, Serving
<1>4. client.offset \in Nat /\ client.limit \in Nat
  BY <1>3 DEF Session
<1>5. /\ page \in Seq(ListedRow)
      /\ Len(page) <= client.limit
      /\ \A b \in RowsWanted(table, meta, client) :
           PlaceIn(b, table, meta, client) >= client.offset =>
             \/ \E k \in DOMAIN page : page[k] = table[b]
             \/ /\ PlaceIn(b, table, meta, client)
                     >= client.offset + client.limit
                /\ Len(page) = client.limit
  BY <1>4, PageFacts
<1> HIDE DEF page
<1>6. /\ order \in Seq(Chapters)
      /\ page # << >> => order # << >>
      /\ \A k \in DOMAIN page : \E n \in DOMAIN order : order[n] = page[k].id
  BY <1>5, OrdersFacts
<1>7. /\ client' \in Session
      /\ client'.at = IF page = << >> THEN "done" ELSE "row"
      /\ client'.todo = order
      /\ client'.last = (Len(page) < client.limit)
      /\ client'.offset = client.offset /\ client'.limit = client.limit
      /\ client'.since = client.since /\ client'.dump = client.dump
      /\ client'.got = client.got /\ client'.owed = client.owed
      /\ client'.past = client.past
  <2>1. (Len(page) < client.limit) \in BOOLEAN
    OBVIOUS
  <2> QED BY <1>1, <1>3, <1>6, <2>1 DEF Session
<1>8. ASSUME NEW c \in client.owed
      PROVE  Served(c, table, meta, log, client')
  <2>1. CASE Got(c, log, client)
    BY <1>7, <2>1 DEF Served, Got
  <2>2. CASE ToCome(c, table, meta, client, client.offset)
    <3>1. PICK b \in RowsWanted(table, meta, client) :
             /\ table[b].id = c
             /\ PlaceIn(b, table, meta, client) >= client.offset
      BY <2>2 DEF ToCome
    <3>2. CASE \E k \in DOMAIN page : page[k] = table[b]
      <4>1. PICK k \in DOMAIN page : page[k] = table[b]
        BY <3>2
      <4>2. page # << >>
        BY <4>1
      <4>3. \E n \in DOMAIN order : order[n] = c
        BY <1>6, <3>1, <4>1
      <4> QED BY <1>7, <4>2, <4>3 DEF Served, Working
    <3>3. CASE /\ PlaceIn(b, table, meta, client)
                    >= client.offset + client.limit
               /\ Len(page) = client.limit
      <4>1. page # << >> /\ ~(Len(page) < client.limit)
        BY <1>3, <1>4, <3>3
      <4>2. ToCome(c, table, meta, client, client.offset + client.limit)
        BY <3>1, <3>3 DEF ToCome
      <4>3. ToCome(c, table, meta, client', client.offset + client.limit)
        BY <1>7, <4>2 DEF ToCome, PlaceIn, RowsWanted
      <4> QED BY <1>7, <4>1, <4>3 DEF Served, Working
    <3> QED BY <1>5, <3>1, <3>2, <3>3
  <2>3. client.at \notin Working
    BY <1>2 DEF Working
  <2> QED BY <1>3, <2>1, <2>2, <2>3 DEF Served
<1>9. Serving(table, meta, log, client')
  BY <1>3, <1>6, <1>7, <1>8 DEF Serving, Working
<1> QED BY <1>2, <1>7, <1>9 DEF PagingInv

(* A step within a page leaves every chapter as well served as it was.       *)
LEMMA SameServed ==
  ASSUME NEW s, NEW r, NEW c, s.at \in Working, r.at \in Working,
         r.todo = s.todo, r.last = s.last, r.offset = s.offset,
         r.limit = s.limit, r.since = s.since, r.dump = s.dump,
         r.got = s.got, r.past = s.past,
         Served(c, table, meta, log, s)
  PROVE  Served(c, table, meta, log, r)
<1>1. s.at # "list"
  BY DEF Working
<1>2. \A k : ToCome(c, table, meta, s, k) => ToCome(c, table, meta, r, k)
  BY DEF ToCome, PlaceIn, RowsWanted
<1> QED BY <1>1, <1>2 DEF Served, Got

LEMMA PagingReadRow ==
  ASSUME PagingInv, ReadRow
  PROVE  PagingInv'
<1>1. /\ client' = [client EXCEPT !.at = "events",
                                  !.closed = IsClosed(Head(client.todo))]
      /\ client.at = "row" /\ UNCHANGED <<log, meta, table>>
  BY DEF ReadRow, vars, clockVars
<1>2. /\ client \in Session /\ client.limit > 0 /\ client.past <= Len(log)
      /\ client.todo # << >>
      /\ \A c \in client.owed : Served(c, table, meta, log, client)
  BY <1>1 DEF PagingInv, Serving, Working
<1>3. IsClosed(Head(client.todo)) \in BOOLEAN
  BY DEF IsClosed
<1>4. /\ client' \in Session /\ client'.at = "events"
      /\ client'.todo = client.todo /\ client'.last = client.last
      /\ client'.offset = client.offset /\ client'.limit = client.limit
      /\ client'.since = client.since /\ client'.dump = client.dump
      /\ client'.got = client.got /\ client'.owed = client.owed
      /\ client'.past = client.past
  BY <1>1, <1>2, <1>3 DEF Session
<1>5. \A c \in client.owed : Served(c, table, meta, log, client')
  <2>1. client.at \in Working /\ client'.at \in Working
    BY <1>1, <1>4 DEF Working
  <2> QED BY <1>2, <1>4, <2>1, SameServed
<1>6. Serving(table, meta, log, client')
  BY <1>2, <1>4, <1>5 DEF Serving
<1> QED BY <1>1, <1>4, <1>6 DEF PagingInv

(* A replay that has the events the client is owed of the chapter, and the   *)
(* import or a reason for missing it.                                        *)
LEMMA PagingReplayed ==
  ASSUME PagingInv, client.at \in Working, UNCHANGED <<log, meta, table>>,
         NEW events \in SUBSET Nat, NEW lost \in BOOLEAN,
         Replayed(events, lost),
         Streamed(log, Head(client.todo), client.past) \subseteq events,
         \/ Imported(log, Head(client.todo), client.past) \subseteq events
         \/ lost
         \/ events \cap Stream(log, Head(client.todo)) # {}
  PROVE  PagingInv'
<1> DEFINE h == Head(client.todo)
           rest == Tail(client.todo)
           new == [closed |-> client.closed, events |-> events, lost |-> lost]
<1>1. client' = [client EXCEPT
       !.at = IF rest # << >> THEN "row"
              ELSE IF client.last THEN "done" ELSE "list",
       !.todo = rest,
       !.offset = IF rest = << >> THEN @ + client.limit ELSE @,
       !.closed = FALSE,
       !.got[h] = new]
  BY DEF Replayed
<1>2. /\ client \in Session /\ client.limit > 0 /\ client.past <= Len(log)
      /\ client.todo # << >>
      /\ \A c \in client.owed : Served(c, table, meta, log, client)
  BY DEF PagingInv, Serving, Working
<1>3. /\ client.todo \in Seq(Chapters)
      /\ client.offset \in Nat /\ client.limit \in Nat
      /\ client.closed \in BOOLEAN
      /\ client.got \in [Chapters -> Replay \cup {Unread}]
  BY <1>2 DEF Session
<1>4. h \in Chapters /\ rest \in Seq(Chapters)
  BY <1>2, <1>3
<1>5. \A n \in DOMAIN client.todo :
         \/ client.todo[n] = h
         \/ \E k \in DOMAIN rest : rest[k] = client.todo[n]
  <2> SUFFICES ASSUME NEW n \in DOMAIN client.todo, n # 1
               PROVE  \E k \in DOMAIN rest : rest[k] = client.todo[n]
    BY <1>3
  <2>1. n - 1 \in DOMAIN rest /\ rest[n - 1] = client.todo[n]
    BY <1>2, <1>3
  <2> QED BY <2>1
<1>6. /\ new \in Replay /\ new # Unread
      /\ new.events = events /\ new.lost = lost
  <2>1. new \in [closed: BOOLEAN, events: SUBSET Nat, lost: BOOLEAN]
    BY <1>3
  <2> QED BY <2>1, ReadsAssumption DEF Replay
<1> HIDE DEF h, rest, new
<1>7. [client.got EXCEPT ![h] = new] \in [Chapters -> Replay \cup {Unread}]
  BY <1>3, <1>6
<1>8. /\ client' \in Session
      /\ client'.at = IF rest # << >> THEN "row"
                      ELSE IF client.last THEN "done" ELSE "list"
      /\ client'.todo = rest /\ client'.last = client.last
      /\ client'.offset = IF rest = << >> THEN client.offset + client.limit
                          ELSE client.offset
      /\ client'.limit = client.limit
      /\ client'.since = client.since /\ client'.dump = client.dump
      /\ client'.got = [client.got EXCEPT ![h] = new]
      /\ client'.owed = client.owed /\ client'.past = client.past
  <2> DEFINE at == IF rest # << >> THEN "row"
                   ELSE IF client.last THEN "done" ELSE "list"
             offset == IF rest = << >> THEN client.offset + client.limit
                       ELSE client.offset
             got == [client.got EXCEPT ![h] = new]
  <2>1. at \in {"row", "list", "done"} /\ offset \in Nat
    BY <1>3
  <2>2. client' = [client EXCEPT !.at = at, !.todo = rest, !.offset = offset,
                                 !.closed = FALSE, !.got = got]
    BY <1>1, <1>2 DEF Session
  <2> HIDE DEF at, offset, got
  <2>3. /\ client' \in Session
        /\ client'.at = at /\ client'.todo = rest /\ client'.offset = offset
        /\ client'.got = got /\ client'.last = client.last
        /\ client'.limit = client.limit
        /\ client'.since = client.since /\ client'.dump = client.dump
        /\ client'.owed = client.owed /\ client'.past = client.past
    BY <1>2, <1>4, <1>7, <2>1, <2>2 DEF Session, got
  <2> QED BY <2>3 DEF at, offset, got
<1>9. Got(h, log, client')
  <2>1. Shown(h, log, client.past, new)
    BY <1>6 DEF Shown, h
  <2>2. client'.got[h] = new /\ client'.past = client.past
    BY <1>3, <1>4, <1>8
  <2> QED BY <1>6, <2>1, <2>2 DEF Got
<1>10. ASSUME NEW c \in client.owed
       PROVE  Served(c, table, meta, log, client')
  <2>1. CASE c = h
    BY <1>9, <2>1 DEF Served
  <2>2. CASE c # h /\ Got(c, log, client)
    <3>1. client'.got[c] = client.got[c]
      BY <1>2, <1>3, <1>8, <2>2 DEF Session
    <3> QED BY <1>8, <2>2, <3>1 DEF Served, Got
  <2>3. CASE c # h /\ \E n \in DOMAIN client.todo : client.todo[n] = c
    <3>1. \E k \in DOMAIN rest : rest[k] = c
      BY <1>5, <2>3
    <3>2. rest # << >>
      BY <3>1
    <3> QED BY <1>8, <3>1, <3>2 DEF Served, Working
  <2>4. CASE /\ ~client.last
             /\ ToCome(c, table, meta, client, client.offset + client.limit)
    <3>1. ToCome(c, table, meta, client', client.offset + client.limit)
      BY <1>8, <2>4 DEF ToCome, PlaceIn, RowsWanted
    <3>2. CASE rest = << >>
      <4>1. client'.at = "list" /\ client'.offset = client.offset + client.limit
        BY <1>8, <2>4, <3>2
      <4> QED BY <3>1, <4>1 DEF Served
    <3>3. CASE rest # << >>
      <4>1. /\ client'.at = "row" /\ client'.offset = client.offset
            /\ client'.limit = client.limit /\ ~client'.last
        BY <1>8, <2>4, <3>3
      <4> QED BY <3>1, <4>1 DEF Served, Working
    <3> QED BY <3>2, <3>3
  <2>5. client.at # "list"
    BY DEF Working
  <2> QED BY <1>2, <2>1, <2>2, <2>3, <2>4, <2>5 DEF Served
<1>11. Serving(table, meta, log, client')
  BY <1>2, <1>8, <1>10 DEF Serving, Working
<1> QED BY <1>8, <1>11 DEF PagingInv

LEMMA PagingReadEvents ==
  ASSUME TypeInv, PagingInv, ReadEvents
  PROVE  PagingInv'
<1>1. client.at = "events" /\ UNCHANGED <<log, meta, table>>
  BY DEF ReadEvents, vars, clockVars
<1>2. \A c : Streamed(log, c, client.past) \subseteq Direct(c)
  BY DEF Streamed, Direct
<1>3. CASE Direct(Head(client.todo)) = {}
  <2>1. client' = [client EXCEPT !.at = "expand"]
    BY <1>3 DEF ReadEvents
  <2>2. /\ client \in Session /\ client.limit > 0 /\ client.past <= Len(log)
        /\ client.todo # << >>
        /\ \A c \in client.owed : Served(c, table, meta, log, client)
    BY <1>1 DEF PagingInv, Serving, Working
  <2>3. /\ client' \in Session /\ client'.at = "expand"
        /\ client'.todo = client.todo /\ client'.last = client.last
        /\ client'.offset = client.offset /\ client'.limit = client.limit
        /\ client'.since = client.since /\ client'.dump = client.dump
        /\ client'.got = client.got /\ client'.owed = client.owed
        /\ client'.past = client.past
    BY <2>1, <2>2 DEF Session
  <2>4. \A c \in client.owed : Served(c, table, meta, log, client')
    BY <1>1, <2>2, <2>3, SameServed DEF Working
  <2>5. Streamed(log, Head(client.todo), client.past) = {}
    BY <1>2, <1>3
  <2>6. Serving(table, meta, log, client')
    BY <2>2, <2>3, <2>4, <2>5 DEF Serving
  <2> QED BY <1>1, <2>3, <2>6 DEF PagingInv
<1>4. CASE Direct(Head(client.todo)) # {}
  <2>1. PICK events : events = Direct(Head(client.todo))
    OBVIOUS
  <2>2. events \in SUBSET Nat
    BY <2>1 DEF Direct, TypeInv, TypeOK, StoreTypeOK
  <2>3. Replayed(events, FALSE)
    BY <1>4, <2>1 DEF ReadEvents, EventsNow
  <2>4. events \cap Stream(log, Head(client.todo)) # {}
    BY <1>4, <2>1 DEF Stream, Direct
  <2> QED BY <1>1, <1>2, <2>1, <2>2, <2>3, <2>4, PagingReplayed DEF Working
<1> QED BY <1>3, <1>4

LEMMA PagingExpand ==
  ASSUME TypeInv, PagingInv, ReadImports \/ ExpandFails
  PROVE  PagingInv'
<1>1. client.at = "expand" /\ UNCHANGED <<log, meta, table>>
  BY DEF ReadImports, ExpandFails, vars, clockVars
<1>2. Streamed(log, Head(client.todo), client.past) = {}
  BY <1>1 DEF PagingInv, Serving
<1>3. PICK events \in SUBSET Nat, lost \in BOOLEAN :
        /\ Replayed(events, lost)
        /\ Imported(log, Head(client.todo), client.past) \subseteq events \/ lost
  <2>1. Imports(Head(client.todo)) \in SUBSET Nat
    BY DEF Imports, TypeInv, TypeOK, StoreTypeOK
  <2>2. Imported(log, Head(client.todo), client.past)
          \subseteq Imports(Head(client.todo))
    BY DEF Imported, Imports, ListedIn
  <2> QED BY <2>1, <2>2 DEF ReadImports, ExpandFails
<1> QED BY <1>1, <1>2, <1>3, PagingReplayed DEF Working

LEMMA PagingNext ==
  ASSUME TypeInv, TypeInv', ClockTypes, IdsInv, TableInv, PagingInv,
         [ReadNext]_readVars
  PROVE  PagingInv'
<1>1. CASE Read
  BY <1>1, PagingAsk, PagingList, PagingReadRow, PagingReadEvents, PagingExpand
  DEF Read
<1>2. CASE client' = client
  BY <1>2, TableNext, PagingWrites
<1>3. Read \/ client' = client
  BY DEF ReadNext, Tick, SetBack, Draw, WriteStep, readVars
<1> QED BY <1>1, <1>2, <1>3

-----------------------------------------------------------------------------
(* The invariant of the reads, for any number of writing cores. *)

ReadsInv ==
  /\ TypeInv
  /\ ClockTypes
  /\ OrderInv
  /\ IdsInv
  /\ TableInv
  /\ PagingInv

LEMMA ReadsInvariant == ReadSpec => []ReadsInv
<1>1. ReadInit => ReadsInv
  BY TypeInit, OrderInit, IdsInit, TableInit, PagingInit DEF ReadInit, ReadsInv
<1>2. ReadsInv /\ [ReadNext]_readVars => ReadsInv'
  <2> SUFFICES ASSUME ReadsInv, [ReadNext]_readVars PROVE ReadsInv'
    OBVIOUS
  <2>1. TypeInv' /\ ClockTypes' /\ OrderInv'
    BY TypeReads, OrderNext DEF ReadsInv
  <2>2. IdsInv' /\ TableInv'
    BY IdsNext, TableNext DEF ReadsInv
  <2>3. PagingInv'
    BY <2>1, PagingNext DEF ReadsInv
  <2> QED BY <2>1, <2>2, <2>3 DEF ReadsInv
<1> QED BY <1>1, <1>2, PTL DEF ReadSpec

(* Every event has an id of its own, although ids of one millisecond are in  *)
(* no order and the clock may be set back, and chapter_meta has a row for    *)
(* every chapter that was opened or imported, once, for any number of cores. *)
THEOREM ReadsTypes == ReadSpec => []ReadsTypeOK
<1>1. ReadsInv => ReadsTypeOK
  BY DEF ReadsInv, ClockTypes, IdsInv, TableInv, PagingInv, ReadsTypeOK
<1> QED BY <1>1, ReadsInvariant, PTL

(* However many cores write beside a client that pages to the end of the     *)
(* list, with any page size, since filter and order of a dump, whatever      *)
(* fails and whatever the clock does, the client is given every chapter that *)
(* was there when it asked, with every event of its stream and the import it *)
(* came from, unless the SELECT of the import failed or an open event hides  *)
(* it (server.rs paginate, event_log.rs chapter).                            *)
THEOREM PagesMissNothing == ReadSpec => []PagingMissesNothing
<1>1. ReadsInv => PagingMissesNothing
  <2> SUFFICES ASSUME PagingInv, client.at = "done", NEW c \in client.owed
               PROVE  /\ client.got[c] # Unread
                      /\ {i \in Direct(c) : i <= client.past}
                           \subseteq client.got[c].events
                      /\ \/ {i \in Imports(c) : i <= client.past}
                              \subseteq client.got[c].events
                         \/ ImportMissed(c, client.got[c])
    BY DEF ReadsInv, PagingMissesNothing
  <2>1. Served(c, table, meta, log, client)
    BY DEF PagingInv, Serving
  <2>2. Got(c, log, client)
    BY <2>1 DEF Served, Working
  <2>3. {i \in Direct(c) : i <= client.past}
          \subseteq Streamed(log, c, client.past)
    BY DEF Direct, Streamed
  <2>4. /\ {i \in Imports(c) : i <= client.past}
             \subseteq Imported(log, c, client.past)
        /\ Stream(log, c) = Direct(c)
    BY DEF Imports, ListedIn, Imported, Stream, Direct
  <2> QED BY <2>2, <2>3, <2>4 DEF Got, Shown, ImportMissed
<1> QED BY <1>1, ReadsInvariant, PTL

=============================================================================
