------------------------- MODULE JournalReads_proofs -------------------------
(***************************************************************************)
(* Theorems about JournalReads: the order of replays, for any number of    *)
(* cores, and what a reader of closed chapters gets beside one writing     *)
(* core, for every value of the other constants.                           *)
(***************************************************************************)
EXTENDS JournalReads, SingleCore_proofs

(* A step of this module is a step of the journal or leaves it alone; a read *)
(* that fails is counted.                                                    *)
journal == <<log, meta, l2, pc, op, rules, acked>>

LEMMA JournalMoves ==
  ASSUME [ReadNext]_readVars
  PROVE  \/ Next
         \/ UNCHANGED journal /\ (faults' = faults \/ faults' = faults + 1)
<1>1. ASSUME NEW w \in Cores, WriteStep(w)
      PROVE  Next
  BY <1>1 DEF WriteStep, JournalStep, Next
<1>2. CASE Tick \/ SetBack \/ (\E w \in Cores : Draw(w))
  BY <1>2 DEF Tick, SetBack, Draw, vars, journal
<1>3. CASE Read
  BY <1>3 DEF Read, Ask, List, ReadRow, ReadEvents, ReadImports, ExpandFails,
              vars, clockVars, journal
<1>4. CASE UNCHANGED readVars
  BY <1>4 DEF readVars, journal
<1> QED BY <1>1, <1>2, <1>3, <1>4 DEF ReadNext

LEMMA TypeReads == TypeInv /\ [ReadNext]_readVars => TypeInv'
<1> SUFFICES ASSUME TypeInv, [ReadNext]_readVars PROVE TypeInv'
  OBVIOUS
<1>1. CASE Next
  BY <1>1, TypeStep
<1>2. CASE UNCHANGED journal /\ (faults' = faults \/ faults' = faults + 1)
  BY <1>2 DEF journal, TypeInv, TypeOK, StoreTypeOK, RegistryTypeOK,
              OperationsBound
<1> QED BY <1>1, <1>2, JournalMoves

-----------------------------------------------------------------------------
(* The order of replays. *)

(* An id is not ahead of the clock while that was never set back, and a      *)
(* settled event is behind the clock and behind every id that is drawn.      *)
ClockTypes ==
  /\ clock \in Nat
  /\ setbacks \in Nat
  /\ stamp \in [Cores -> EventId \cup {NoStamp}]
  /\ ids \in Seq(EventId)
  /\ Len(ids) = Len(log)
  /\ settled \in 0 .. Len(log)

Drawn(w) == stamp[w] # NoStamp

OrderInv ==
  /\ setbacks = 0 => /\ \A i \in DOMAIN ids : ids[i].ms <= clock
                     /\ \A w \in Cores : Drawn(w) => stamp[w].ms <= clock
  /\ setbacks # 0 => settled = 0
  /\ \A i \in 1 .. settled :
        /\ ids[i].ms < clock
        /\ \A w \in Cores : Drawn(w) => ids[i].ms < stamp[w].ms

LEMMA NoStampFacts == NoStamp \notin EventId
BY ReadsAssumption DEF EventId

LEMMA OrderInit == ReadInit => ClockTypes /\ OrderInv
BY DEF ReadInit, Init, StoreInit, ClockTypes, OrderInv, Drawn

(* The log grows by one event, which is given the id its core has drawn.     *)
LEMMA WriteAppends ==
  ASSUME TypeInv, ClockTypes, NEW w \in Cores, WriteStep(w)
  PROVE  \/ UNCHANGED <<log, ids>>
         \/ /\ Len(log') = Len(log) + 1
            /\ Drawn(w) /\ stamp[w] \in EventId
            /\ ids' = Append(ids, stamp[w])
<1>1. CASE log' = log
  BY <1>1 DEF WriteStep
<1>2. CASE log' # log
  <2>1. PICK e \in Event : InsertEvent(e)
    BY <1>2, LogSteps, JournalMoves DEF WriteStep, JournalStep, Next, Insert
  <2>2. Len(log') = Len(log) + 1
    BY <2>1, InsertFacts DEF TypeInv, TypeOK, StoreTypeOK
  <2>3. Drawn(w) /\ stamp[w] \in EventId /\ ids' = Append(ids, stamp[w])
    BY <1>2 DEF WriteStep, ClockTypes, Drawn
  <2> QED BY <2>2, <2>3
<1> QED BY <1>1, <1>2

LEMMA StampKept ==
  ASSUME ClockTypes, NEW w \in Cores, WriteStep(w)
  PROVE  /\ stamp' \in [Cores -> EventId \cup {NoStamp}]
         /\ \A u \in Cores : Drawn(u)' => Drawn(u) /\ stamp'[u] = stamp[u]
BY DEF WriteStep, StampAfter, ClockTypes, Drawn

LEMMA OrderWrite ==
  ASSUME TypeInv, ClockTypes, OrderInv, NEW w \in Cores, WriteStep(w)
  PROVE  ClockTypes' /\ OrderInv'
<1>1. UNCHANGED <<clock, setbacks, settled>>
  BY DEF WriteStep
<1>2. CASE UNCHANGED <<log, ids>>
  BY <1>1, <1>2, StampKept DEF ClockTypes, OrderInv
<1>3. CASE /\ Len(log') = Len(log) + 1
           /\ Drawn(w) /\ stamp[w] \in EventId
           /\ ids' = Append(ids, stamp[w])
  <2>1. /\ ids' \in Seq(EventId) /\ Len(ids') = Len(ids) + 1
        /\ DOMAIN ids = 1 .. Len(ids) /\ DOMAIN ids' = 1 .. Len(ids) + 1
        /\ \A i \in DOMAIN ids : ids'[i] = ids[i]
        /\ ids'[Len(ids) + 1] = stamp[w]
    BY <1>3 DEF ClockTypes
  <2>2. ClockTypes'
    BY <1>1, <1>3, <2>1, StampKept DEF ClockTypes
  <2>3. 1 .. settled \subseteq DOMAIN ids
    BY <2>1 DEF ClockTypes
  <2>4. setbacks = 0 => \A i \in DOMAIN ids' : ids'[i].ms <= clock
    BY <1>3, <2>1 DEF OrderInv
  <2>5. \A i \in 1 .. settled : ids'[i] = ids[i]
    BY <2>1, <2>3
  <2>6. \A u \in Cores : Drawn(u)' => Drawn(u) /\ stamp'[u] = stamp[u]
    BY StampKept
  <2> QED BY <1>1, <2>2, <2>4, <2>5, <2>6 DEF OrderInv
<1> QED BY <1>2, <1>3, WriteAppends

LEMMA OrderTick ==
  ASSUME ClockTypes, OrderInv, Tick
  PROVE  ClockTypes' /\ OrderInv'
<1>1. /\ clock' = clock + 1
      /\ UNCHANGED <<log, setbacks, stamp, ids>>
  BY DEF Tick, vars
<1>2. \A i \in DOMAIN ids : ids[i].ms \in Nat
  <2>1. \A i \in DOMAIN ids : ids[i] \in EventId
    BY DEF ClockTypes
  <2> QED BY <2>1 DEF EventId
<1>3. \A w \in Cores : Drawn(w) => stamp[w].ms \in Nat
  <2>1. \A w \in Cores : Drawn(w) => stamp[w] \in EventId
    BY DEF ClockTypes, Drawn
  <2> QED BY <2>1 DEF EventId
<1>4. DOMAIN ids = 1 .. Len(log)
  BY DEF ClockTypes
<1>5. CASE Calm /\ setbacks = 0
  <2>1. settled' = Len(log) /\ \A w \in Cores : ~Drawn(w)
    BY <1>5 DEF Tick, Calm, Drawn
  <2> QED BY <1>1, <1>2, <1>4, <1>5, <2>1 DEF ClockTypes, OrderInv, Drawn
<1>6. CASE ~(Calm /\ setbacks = 0)
  <2>1. settled' = settled
    BY <1>6 DEF Tick
  <2>2. 1 .. settled \subseteq DOMAIN ids
    BY <1>4 DEF ClockTypes
  <2> QED BY <1>1, <1>2, <1>3, <2>1, <2>2 DEF ClockTypes, OrderInv, Drawn
<1> QED BY <1>5, <1>6

LEMMA OrderSetBack ==
  ASSUME ClockTypes, OrderInv, SetBack
  PROVE  ClockTypes' /\ OrderInv'
BY DEF SetBack, vars, ClockTypes, OrderInv

LEMMA OrderDraw ==
  ASSUME ClockTypes, OrderInv, NEW w \in Cores, Draw(w)
  PROVE  ClockTypes' /\ OrderInv'
<1>1. PICK i \in UlidsNow : stamp' = [stamp EXCEPT ![w] = i]
  BY DEF Draw
<1>2. i \in EventId /\ i.ms = clock
  BY <1>1 DEF UlidsNow, EventId, ClockTypes
<1>3. UNCHANGED <<log, clock, setbacks, ids, settled>>
  BY DEF Draw, vars
<1>4. ClockTypes'
  BY <1>1, <1>2, <1>3 DEF ClockTypes
<1>5. \A u \in Cores : Drawn(u)' =>
         stamp'[u].ms = clock \/ (Drawn(u) /\ stamp'[u] = stamp[u])
  BY <1>1, <1>2 DEF ClockTypes, Drawn
<1> QED BY <1>2, <1>3, <1>4, <1>5 DEF ClockTypes, OrderInv

LEMMA OrderNext ==
  TypeInv /\ ClockTypes /\ OrderInv /\ [ReadNext]_readVars
    => (ClockTypes /\ OrderInv)'
<1> SUFFICES ASSUME TypeInv, ClockTypes, OrderInv, [ReadNext]_readVars
             PROVE  ClockTypes' /\ OrderInv'
  OBVIOUS
<1>1. CASE UNCHANGED <<log, clockVars>>
  BY <1>1 DEF clockVars, ClockTypes, OrderInv, Drawn
<1>2. CASE Read
  BY <1>1, <1>2
  DEF Read, Ask, List, ReadRow, ReadEvents, ReadImports, ExpandFails, vars
<1>3. CASE UNCHANGED readVars
  BY <1>1, <1>3 DEF readVars, clockVars
<1> QED
  BY <1>2, <1>3, OrderWrite, OrderTick, OrderSetBack, OrderDraw DEF ReadNext

(* However many cores write, whatever fails, and however ids tie within a    *)
(* millisecond: an event is replayed after every event whose call had        *)
(* returned at a tick before its own call began, as long as the clock was    *)
(* not set back (event_log.rs:438, ORDER BY event_id).                       *)
THEOREM ReplayOrder == ReadSpec => AppendsReadInOrder
<1> DEFINE AppendsAfter ==
      \A i \in 1 .. settled : \A j \in DOMAIN ids' \ DOMAIN ids :
         Earlier(ids[i], ids'[j])
<1>1. TypeInv /\ ClockTypes /\ OrderInv /\ [ReadNext]_readVars
        => [AppendsAfter]_readVars
  <2> SUFFICES ASSUME TypeInv, ClockTypes, OrderInv, ReadNext,
                      NEW i \in 1 .. settled,
                      NEW j \in DOMAIN ids' \ DOMAIN ids
               PROVE  Earlier(ids[i], ids'[j])
    BY DEF readVars
  <2>1. PICK w \in Cores : WriteStep(w)
    BY DEF ReadNext, Tick, SetBack, Draw, Read, Ask, List, ReadRow, ReadEvents,
           ReadImports, ExpandFails, clockVars
  <2>2. /\ Drawn(w) /\ stamp[w] \in EventId
        /\ ids' = Append(ids, stamp[w])
    BY <2>1, WriteAppends
  <2>3. ids'[j] = stamp[w]
    BY <2>2 DEF ClockTypes
  <2> QED BY <2>2, <2>3 DEF OrderInv, Earlier
<1>2. ReadInit => TypeInv /\ ClockTypes /\ OrderInv
  BY TypeInit, OrderInit DEF ReadInit
<1>3. ReadSpec => [][AppendsAfter]_readVars
  <2> HIDE DEF AppendsAfter
  <2> QED BY <1>1, <1>2, TypeReads, OrderNext, PTL DEF ReadSpec
<1> QED BY <1>3 DEF AppendsReadInOrder

-----------------------------------------------------------------------------
(* What the reads of closed chapters rest on, for one writing core. *)

(* An imported chapter has no content of its own, and neither has one        *)
(* without a row.                                                            *)
NoContent ==
  \A c \in Chapters :
     Imports(c) # {} \/ ~Exists(c) => OwnContent(c) = {}

CoreInv ==
  /\ TypeInv
  /\ ImportedOnce
  /\ CloseEventFirst
  /\ ClosedHasCloseEvent
  /\ ClosedInv
  /\ NoContent

LEMMA NoContentStep ==
  ASSUME TypeInv, Next, ImportedOnce, ClosedInv, NoContent
  PROVE  NoContent'
<1> SUFFICES ASSUME NEW c \in Chapters, Imports(c)' # {} \/ ~Exists(c)'
             PROVE  OwnContent(c)' = {}
  BY DEF NoContent
<1>1. CASE ~Exists(c)
  BY <1>1, ContentKept DEF NoContent
<1>2. CASE Exists(c)
  <2>1. Imports(c) # {}
    BY <1>2, ImportsOfRowKept, ClosedStays
  <2> QED BY <2>1, ContentKept DEF NoContent, ImportedOnce
<1> QED BY <1>1, <1>2

LEMMA CoreInit == ReadInit => CoreInv
<1> SUFFICES ASSUME Init PROVE CoreInv
  BY DEF ReadInit
<1>1. ImportedOnce /\ CloseEventFirst /\ ClosedHasCloseEvent
  BY DEF Init, StoreInit, ImportedOnce, Imports, CloseEventFirst,
         ClosedHasCloseEvent, IsClosed, Exists
<1>2. ClosedInv
  BY DEF Init, StoreInit, ClosedInv, WorksOnOpen, ClosedInFinal,
         ClosesToFinal, OpenSteps, SectionSteps, CloseSteps, IsClosed, Exists
<1>3. NoContent
  BY DEF Init, StoreInit, NoContent, OwnContent, Direct
<1> QED BY <1>1, <1>2, <1>3, TypeInit DEF CoreInv

LEMMA CoreNext ==
  ASSUME SingleCore, ClosesAreFinal, CoreInv, [ReadNext]_readVars
  PROVE  CoreInv'
<1> USE DEF CoreInv
<1>1. CASE Next
  BY <1>1, TypeStep, ImportedOnceStep, CloseEventFirstStep,
     ClosedHasCloseEventStep, WorksOnOpenStep, ClosedInFinalStep,
     ClosesToFinalStep, NoContentStep DEF ClosedInv
<1>2. CASE UNCHANGED journal
  <2>1. ImportedOnce' /\ CloseEventFirst' /\ ClosedHasCloseEvent'
    BY <1>2 DEF journal, ImportedOnce, Imports, ListedIn, CloseEventFirst,
                ClosedHasCloseEvent, IsClosed, Exists, Direct
  <2>2. ClosedInv'
    BY <1>2 DEF journal, ClosedInv, WorksOnOpen, ClosedInFinal, ClosesToFinal,
                IsClosed, Exists, FinalStates
  <2>3. NoContent'
    BY <1>2 DEF journal, NoContent, Imports, ListedIn, Exists, OwnContent,
                Direct
  <2> QED BY <2>1, <2>2, <2>3, TypeReads
<1> QED BY <1>1, <1>2, JournalMoves

-----------------------------------------------------------------------------
(* The session. *)

(* The replay of a closed chapter, when it is read and ever after.           *)
Complete(c, events, lost) ==
  /\ IsClosed(c)
  /\ events \subseteq DOMAIN log
  /\ IF Imports(c) = {}
       THEN /\ OwnContent(c) \subseteq events
            /\ \E i \in events : log[i].type = "close"
       ELSE \/ events = Imports(c)
            \/ /\ \A i \in events : log[i].type = "open"
               /\ events = {} => lost

IsSession(s) ==
  /\ s = [f \in DOMAIN NoSession |-> s[f]]
  /\ s.closed \in BOOLEAN
  /\ s.got \in [Chapters -> Replay \cup {Unread}]

(* What is known of the chapter in work that was read as closed. *)
ReadingInv ==
  \A c \in Chapters :
     client.closed /\ c = Head(client.todo) =>
       /\ client.at \in {"events", "expand"} => IsClosed(c)
       /\ client.at = "expand" => Imports(c) # {}

ReadAsClosed(events, lost) ==
  [closed |-> TRUE, events |-> events, lost |-> lost]

GotInv ==
  \A c \in Chapters, events \in SUBSET Nat, lost \in BOOLEAN :
     client.got[c] = ReadAsClosed(events, lost) => Complete(c, events, lost)

SessionInv == IsSession(client) /\ ReadingInv /\ GotInv

LEMMA UnreadFacts ==
  \A events \in SUBSET Nat, lost \in BOOLEAN :
     ReadAsClosed(events, lost) # Unread
<1> SUFFICES ASSUME NEW events \in SUBSET Nat, NEW lost \in BOOLEAN
             PROVE  ReadAsClosed(events, lost) # Unread
  OBVIOUS
<1>1. ReadAsClosed(events, lost)
        \in [closed: BOOLEAN, events: SUBSET Nat, lost: BOOLEAN]
  BY DEF ReadAsClosed
<1> QED BY <1>1, ReadsAssumption

(* No step takes anything from a complete replay.                            *)
LEMMA CompleteKept ==
  ASSUME CoreInv, [ReadNext]_readVars, NEW c \in Chapters, NEW events,
         NEW lost, Complete(c, events, lost)
  PROVE  Complete(c, events, lost)'
<1>1. CASE UNCHANGED journal
  BY <1>1 DEF journal, Complete, IsClosed, Exists, Imports, ListedIn,
              OwnContent, Direct
<1>2. CASE Next
  <2>1. /\ IsClosed(c)'
        /\ Imports(c)' = Imports(c)
        /\ OwnContent(c)' = OwnContent(c)
    BY <1>2, ClosedStays, ImportsOfRowKept, ContentKept
    DEF Complete, CoreInv, IsClosed
  <2>2. /\ DOMAIN log \subseteq DOMAIN log'
        /\ \A i \in DOMAIN log : log'[i] = log[i]
    BY <1>2, LogGrows DEF CoreInv
  <2> QED BY <2>1, <2>2 DEF Complete
<1> QED BY <1>1, <1>2, JournalMoves

(* What ReadEvents and ReadImports find is complete.                         *)
LEMMA EventsComplete ==
  ASSUME CoreInv, NEW c \in Chapters, IsClosed(c), Direct(c) # {}
  PROVE  Complete(c, Direct(c), FALSE)
<1>1. OwnContent(c) \subseteq Direct(c) /\ Direct(c) \subseteq DOMAIN log
  BY DEF OwnContent, Direct
<1>2. CASE Imports(c) = {}
  BY <1>1, <1>2 DEF CoreInv, ClosedHasCloseEvent, Complete
<1>3. CASE Imports(c) # {}
  <2>1. \A i \in Direct(c) : log[i].type = "open"
    BY <1>3 DEF CoreInv, NoContent, OwnContent
  <2> QED BY <1>1, <1>3, <2>1 DEF Complete
<1> QED BY <1>2, <1>3

LEMMA ImportsComplete ==
  ASSUME CoreInv, NEW c \in Chapters, IsClosed(c), Imports(c) # {}
  PROVE  Complete(c, Imports(c), FALSE) /\ Complete(c, {}, TRUE)
BY DEF Complete, Imports

(* A step that reads nothing into the session leaves its replays complete.   *)
LEMMA GotKept ==
  ASSUME CoreInv, GotInv, [ReadNext]_readVars, client'.got = client.got
  PROVE  GotInv'
BY CompleteKept DEF GotInv

(* A chapter is replayed into the session. *)
LEMMA ReplayedKeeps ==
  ASSUME CoreInv, SessionInv, [ReadNext]_readVars,
         NEW c, c = Head(client.todo),
         NEW events \in SUBSET Nat, NEW lost \in BOOLEAN,
         Replayed(events, lost),
         client.closed /\ c \in Chapters => Complete(c, events, lost)'
  PROVE  SessionInv'
<1> DEFINE new == [closed |-> client.closed, events |-> events, lost |-> lost]
<1>1. /\ client' = [f \in DOMAIN NoSession |-> client'[f]]
      /\ client'.closed = FALSE
      /\ client'.got = [client.got EXCEPT ![c] = new]
  BY DEF SessionInv, IsSession, Replayed, NoSession
<1>2. new \in Replay
  BY DEF SessionInv, IsSession, Replay
<1>3. IsSession(client')
  BY <1>1, <1>2 DEF SessionInv, IsSession
<1>4. ASSUME NEW d \in Chapters, NEW es \in SUBSET Nat, NEW l \in BOOLEAN,
             client'.got[d] = ReadAsClosed(es, l)
      PROVE  Complete(d, es, l)'
  <2>1. CASE d = c
    <3>1. new = ReadAsClosed(es, l)
      BY <1>1, <1>4, <2>1 DEF SessionInv, IsSession
    <3>2. client.closed /\ es = events /\ l = lost
      BY <3>1 DEF ReadAsClosed
    <3> QED BY <2>1, <3>2
  <2>2. CASE d # c
    <3>1. client.got[d] = ReadAsClosed(es, l)
      BY <1>1, <1>4, <2>2 DEF SessionInv, IsSession
    <3>2. Complete(d, es, l)
      BY <3>1 DEF SessionInv, GotInv
    <3> QED BY <3>2, CompleteKept
  <2> QED BY <2>1, <2>2
<1>5. ReadingInv'
  BY <1>1 DEF ReadingInv
<1> QED BY <1>3, <1>4, <1>5 DEF SessionInv, GotInv

LEMMA SessionRead ==
  ASSUME CoreInv, SessionInv, Read
  PROVE  SessionInv'
<1> [ReadNext]_readVars
  BY DEF ReadNext
<1>0. DOMAIN log \subseteq Nat
  BY DEF CoreInv, TypeInv, TypeOK, StoreTypeOK
<1>1. UNCHANGED journal
  BY DEF Read, Ask, List, ReadRow, ReadEvents, ReadImports, ExpandFails, vars,
         journal
<1>2. \A c : IsClosed(c)' = IsClosed(c) /\ Imports(c)' = Imports(c)
  BY <1>1 DEF journal, IsClosed, Exists, Imports, ListedIn
<1>3. ASSUME NEW r \in Requests, Ask(r) PROVE SessionInv'
  <2>1. /\ client' = [f \in DOMAIN NoSession |-> client'[f]]
        /\ client'.at = "list" /\ client'.closed = FALSE
        /\ client'.got = [c \in Chapters |-> Unread]
    BY <1>3 DEF Ask, NoSession
  <2> QED
    BY <2>1, UnreadFacts DEF SessionInv, IsSession, ReadingInv, GotInv
<1>4. CASE List
  <2>1. /\ client' = [f \in DOMAIN NoSession |-> client'[f]]
        /\ client'.at \in {"done", "row"}
        /\ client'.closed = client.closed /\ client'.got = client.got
    BY <1>4 DEF List, SessionInv, IsSession, NoSession
  <2> QED
    BY <2>1, GotKept DEF SessionInv, IsSession, ReadingInv
<1>5. CASE ReadRow
  <2>1. /\ client' = [f \in DOMAIN NoSession |-> client'[f]]
        /\ client'.at = "events" /\ client'.todo = client.todo
        /\ client'.closed = IsClosed(Head(client.todo))
        /\ client'.got = client.got
    BY <1>5 DEF ReadRow, SessionInv, IsSession, NoSession
  <2>2. IsSession(client')
    BY <2>1 DEF SessionInv, IsSession, IsClosed
  <2> QED
    BY <1>2, <2>1, <2>2, GotKept DEF SessionInv, ReadingInv
<1>6. CASE ReadEvents
  <2>1. PICK c : c = Head(client.todo)
    OBVIOUS
  <2>2. client.closed /\ c \in Chapters => IsClosed(c)
    BY <1>6, <2>1 DEF ReadEvents, SessionInv, ReadingInv
  <2>3. CASE Direct(c) = {}
    <3>1. /\ client' = [f \in DOMAIN NoSession |-> client'[f]]
          /\ client'.at = "expand" /\ client'.todo = client.todo
          /\ client'.closed = client.closed /\ client'.got = client.got
      BY <1>6, <2>1, <2>3 DEF ReadEvents, SessionInv, IsSession, NoSession
    <3>2. client.closed /\ c \in Chapters => Imports(c) # {}
      BY <2>2, <2>3 DEF CoreInv, ClosedHasCloseEvent
    <3>3. ReadingInv'
      BY <1>2, <2>1, <2>2, <3>1, <3>2 DEF ReadingInv
    <3> QED BY <3>1, <3>3, GotKept DEF SessionInv, IsSession
  <2>4. CASE Direct(c) # {}
    <3>1. PICK events \in SUBSET Nat : events = Direct(c)
      BY <1>0 DEF Direct
    <3>2. Replayed(events, FALSE)
      BY <1>6, <2>1, <2>4, <3>1 DEF ReadEvents, EventsNow
    <3>3. client.closed /\ c \in Chapters => Complete(c, events, FALSE)
      BY <2>2, <2>4, <3>1, EventsComplete
    <3> QED BY <2>1, <3>2, <3>3, CompleteKept, ReplayedKeeps
  <2> QED BY <2>3, <2>4
<1>7. CASE ReadImports \/ ExpandFails
  <2>1. PICK c : c = Head(client.todo)
    OBVIOUS
  <2>2. client.closed /\ c \in Chapters => IsClosed(c) /\ Imports(c) # {}
    BY <1>7, <2>1
    DEF ReadImports, ExpandFails, SessionInv, ReadingInv
  <2>3. CASE ReadImports
    <3>1. PICK events \in SUBSET Nat : events = Imports(c)
      BY <1>0 DEF Imports
    <3>2. Replayed(events, FALSE)
      BY <2>1, <2>3, <3>1 DEF ReadImports
    <3>3. client.closed /\ c \in Chapters => Complete(c, events, FALSE)
      BY <2>2, <3>1, ImportsComplete
    <3> QED BY <2>1, <3>2, <3>3, CompleteKept, ReplayedKeeps
  <2>4. CASE ExpandFails
    <3>1. PICK events \in SUBSET Nat : events = {}
      OBVIOUS
    <3>2. Replayed(events, TRUE)
      BY <2>4, <3>1 DEF ExpandFails
    <3>3. client.closed /\ c \in Chapters => Complete(c, events, TRUE)
      BY <2>2, <3>1, ImportsComplete
    <3> QED BY <2>1, <3>2, <3>3, CompleteKept, ReplayedKeeps
  <2> QED BY <1>7, <2>3, <2>4
<1> QED BY <1>3, <1>4, <1>5, <1>6, <1>7 DEF Read

LEMMA SessionNext ==
  ASSUME CoreInv, SessionInv, [ReadNext]_readVars
  PROVE  SessionInv'
<1>1. CASE Read
  BY <1>1, SessionRead
<1>2. CASE client' = client
  <2>1. CASE Next
    <3>1. \A c \in Chapters :
            /\ IsClosed(c) => IsClosed(c)'
            /\ Imports(c) # {} => Imports(c)' # {}
      BY <2>1, ClosedStays, StreamsGrow DEF CoreInv
    <3> QED BY <1>2, <3>1, GotKept DEF SessionInv, ReadingInv
  <2>2. CASE UNCHANGED journal
    <3>1. \A c : IsClosed(c)' = IsClosed(c) /\ Imports(c)' = Imports(c)
      BY <2>2 DEF journal, IsClosed, Exists, Imports, ListedIn
    <3> QED BY <1>2, <3>1, GotKept DEF SessionInv, ReadingInv
  <2> QED BY <2>1, <2>2, JournalMoves
<1>3. Read \/ client' = client
  BY DEF ReadNext, Tick, SetBack, Draw, WriteStep, readVars
<1> QED BY <1>1, <1>2, <1>3

LEMMA SessionInit == ReadInit => SessionInv
<1> SUFFICES ASSUME client = NoSession PROVE SessionInv
  BY DEF ReadInit
<1> QED
  BY UnreadFacts DEF SessionInv, IsSession, ReadingInv, GotInv, NoSession

LEMMA SessionFollows ==
  CoreInv /\ SessionInv => ClosedReadsAreFinal
<1> SUFFICES ASSUME CoreInv, SessionInv, NEW c \in Chapters,
                    client.got[c] # Unread, client.got[c].closed
             PROVE  Complete(c, client.got[c].events, client.got[c].lost)
  BY DEF ClosedReadsAreFinal, Complete
<1>1. client.got[c] \in Replay
  BY DEF SessionInv, IsSession
<1>2. PICK events \in SUBSET Nat, lost \in BOOLEAN :
        events = client.got[c].events /\ lost = client.got[c].lost
  BY <1>1 DEF Replay
<1>3. client.got[c] = ReadAsClosed(events, lost)
  BY <1>1, <1>2 DEF Replay, ReadAsClosed
<1> QED BY <1>2, <1>3 DEF SessionInv, GotInv

(* A chapter that another process reads as closed is read whole, however its *)
(* row, its events and the import that lists it are read at different        *)
(* moments of the writer, and stays as it was read; an imported one may come *)
(* out empty, only if its SELECT failed (event_log.rs chapter()).            *)
THEOREM ClosedReadsFinal ==
  ASSUME SingleCore, ClosesAreFinal
  PROVE  ReadSpec => []ClosedReadsAreFinal
<1>1. ReadInit => CoreInv /\ SessionInv
  BY CoreInit, SessionInit
<1>2. CoreInv /\ SessionInv /\ [ReadNext]_readVars => (CoreInv /\ SessionInv)'
  BY CoreNext, SessionNext
<1> QED BY <1>1, <1>2, SessionFollows, PTL DEF ReadSpec
=============================================================================
