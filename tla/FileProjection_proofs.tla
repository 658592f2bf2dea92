------------------------ MODULE FileProjection_proofs ------------------------
(***************************************************************************)
(* Proofs about FileProjection, for every set of chapters, texts, edits    *)
(* and projections, and without a bound on the faults.                     *)
(***************************************************************************)
EXTENDS FileProjection, TLAPS

(* Between two steps of a rebuild: the chapter at hand and those to come are *)
(* closed, and once it is rendered its text is the one in memory.            *)
CallOK ==
  call # NoCall =>
    /\ call.at \in Closed
    /\ call.todo \subseteq Closed
    /\ call.step # "render" => Own.dumps[call.at] = body[call.at]

FileInv == FileTypeOK /\ CallOK

(* With backups, a rebuild that is about to persist finds nothing owed in    *)
(* the file that is neither its own nor saved.                               *)
PersistSafe ==
  At("persist") /\ file \in owed => file = Own.written \/ file \in backups

SafeInv == NothingOverwritten /\ PersistSafe

(* The chapters this rebuild is done with. *)
Done == Closed \ (call.todo \cup {call.at})

(* The file is what the projection wrote last, which is all it holds. *)
InStep == file = Own.written /\ Own.written = Own.dumps

(* The chapters done are in memory as the journal has them; and a rebuild    *)
(* that may skip a chapter, and met the file as the projection left it, has  *)
(* them all in the file.                                                     *)
RebuildInv ==
  call # NoCall =>
    /\ \A c \in Done : Own.dumps[c] = body[c]
    /\ call.clean /\ call.step = "render" =>
         InStep \/ (Own.recent = {} /\ Done = {})

-----------------------------------------------------------------------------
(* Facts about single operators. *)

(* A renderable text of a closed chapter is a text of the journal. *)
LEMMA ClosedBody ==
  ASSUME FileTypeOK, NEW c \in Closed
  PROVE  c \in Chapters /\ body[c] \in Bodies /\ body[c] # NoBody
BY DEF FileTypeOK, Closed, Texts

LEMMA NewestIn == ASSUME NEW C PROVE NewestOf(C) \subseteq C
BY DEF NewestOf

(* The next call record is one, and is about a closed chapter. *)
LEMMA ProceedFacts ==
  ASSUME FileInv, call # NoCall, NEW x \in Contents \cup {NoFile}, Proceed(x)
  PROVE  /\ call' \in Call \cup {NoCall}
         /\ answer' \in {"none", "ok", "err"}
         /\ \/ call.todo = {} /\ call' = NoCall /\ answer' = "ok"
            \/ /\ call' # NoCall
               /\ answer' = answer
               /\ call'.at \in call.todo
               /\ call'.todo = call.todo \ {call'.at}
               /\ call'.step = "render"
               /\ call'.by = call.by
               /\ call'.clean = call.clean
<1>1. call \in Call /\ call.todo \subseteq Chapters
  BY DEF FileInv, FileTypeOK, Call
<1>2. CASE call.todo = {} /\ call' = NoCall /\ answer' = "ok"
  BY <1>2
<1>3. CASE /\ \E c \in NewestOf(call.todo) :
                call' = [call EXCEPT !.at = c, !.todo = @ \ {c},
                                     !.step = "render", !.before = x]
           /\ UNCHANGED answer
  <2>1. PICK c \in call.todo :
          call' = [call EXCEPT !.at = c, !.todo = @ \ {c}, !.step = "render",
                               !.before = x]
    BY <1>3, NewestIn
  <2>2. c \in Chapters /\ call.todo \ {c} \subseteq Chapters
    BY <1>1, <2>1
  <2>3. call' \in Call
    BY <1>1, <2>1, <2>2 DEF Call
  <2>4. call' # NoCall
    BY <2>3, FileAssumption
  <2>5. /\ call'.at = c
        /\ call'.todo = call.todo \ {c}
        /\ call'.step = "render"
        /\ call'.by = call.by
        /\ call'.clean = call.clean
    BY <1>1, <2>1 DEF Call
  <2> QED
    BY <1>3, <2>1, <2>3, <2>4, <2>5 DEF FileInv, FileTypeOK
<1> QED
  BY <1>2, <1>3 DEF Proceed

-----------------------------------------------------------------------------
(* Type correctness. *)

LEMMA FreshTyped == Fresh \in Memory /\ NoTexts \in Texts
BY DEF Fresh, Memory, NoTexts, Texts

LEMMA FileInitInv == FileInit => FileInv
<1> SUFFICES ASSUME FileInit PROVE FileInv
  OBVIOUS
<1>1. body \in Texts /\ memory \in [Projections -> Memory]
  BY FreshTyped DEF FileInit
<1>2. file \in Contents \cup {NoFile} /\ owed \subseteq Contents
  BY DEF FileInit, Contents
<1> QED
  BY <1>1, <1>2, FileAssumption
     DEF FileInit, FileInv, FileTypeOK, CallOK

LEMMA BeginInv ==
  ASSUME FileInv, NEW p \in Projections, Begin(p)
  PROVE  FileInv'
<1>1. memory' \in [Projections -> Memory]
  BY FreshTyped DEF Begin, FileInv, FileTypeOK
<1>2. PICK c \in Closed :
        call' = [by |-> p, at |-> c, todo |-> Closed \ {c}, step |-> "render",
                 before |-> file,
                 clean |-> \/ memory'[p].recent = {}
                           \/ file = memory[p].written
                              /\ memory[p].written = memory[p].dumps]
  BY NewestIn DEF Begin
<1>3. call' \in Call
  BY <1>2, Zenon DEF Call, Closed, FileInv, FileTypeOK
<1>4. CallOK'
  BY <1>2 DEF CallOK, Begin, Closed
<1> QED
  BY <1>1, <1>3, <1>4 DEF FileInv, FileTypeOK, Begin

LEMMA RenderInv ==
  ASSUME FileInv, Render
  PROVE  FileInv'
<1>1. call # NoCall /\ call \in Call /\ call.at \in Closed
  BY DEF Render, At, FileInv, FileTypeOK, CallOK
<1>2. call.by \in Projections /\ body[call.at] \in Bodies /\ call.at \in Chapters
  BY <1>1, ClosedBody DEF FileInv, Call
<1>3. Own \in Memory
  BY <1>2 DEF Own, FileInv, FileTypeOK
<1>4. /\ [Own.dumps EXCEPT ![call.at] = body[call.at]] \in Texts
      /\ Own.recent \cup {call.at} \in SUBSET Chapters
  BY <1>2, <1>3 DEF Memory, Texts
<1>5. [Own EXCEPT !.dumps[call.at] = body[call.at],
                  !.recent = @ \cup {call.at}] \in Memory
  BY <1>3, <1>4 DEF Memory
<1>6. memory' = [memory EXCEPT ![call.by] =
                   [Own EXCEPT !.dumps[call.at] = body[call.at],
                               !.recent = @ \cup {call.at}]]
  BY <1>2 DEF Render, Own, FileInv, FileTypeOK
<1>7. memory' \in [Projections -> Memory]
  BY <1>5, <1>6 DEF FileInv, FileTypeOK
<1>8. call' \in Call
  BY <1>1 DEF Render, Call
<1>9. CallOK'
  <2>1. /\ call'.at = call.at /\ call'.todo = call.todo /\ call'.by = call.by
    BY <1>1 DEF Render, Call
  <2>2. memory'[call.by].dumps[call.at] = body[call.at]
    BY <1>2, <1>3, <1>6 DEF FileInv, FileTypeOK, Memory, Texts
  <2> QED
    BY <1>1, <2>1, <2>2 DEF CallOK, Render, Closed, Own, FileInv
<1> QED
  BY <1>7, <1>8, <1>9 DEF FileInv, FileTypeOK, Render

LEMMA PersistOutput ==
  ASSUME FileInv, At("persist")
  PROVE  /\ call \in Call
         /\ call.by \in Projections
         /\ Own \in Memory
         /\ AssembleFileContent \in Outputs
<1>1. call \in Call /\ call.at \in Closed
  BY DEF At, FileInv, FileTypeOK, CallOK
<1>2. call.by \in Projections /\ Own \in Memory
  BY <1>1 DEF Call, Own, FileInv, FileTypeOK
<1>3. Own.dumps[call.at] # NoBody /\ call.at \in Chapters
  BY <1>1, ClosedBody DEF At, FileInv, CallOK
<1> QED
  BY <1>1, <1>2, <1>3 DEF AssembleFileContent, Outputs, Memory

(* A persist changes one field of one memory. *)
LEMMA PersistMemory ==
  ASSUME FileInv, Persist
  PROVE  /\ memory' \in [Projections -> Memory]
         /\ memory'[call.by].written = AssembleFileContent
         /\ memory'[call.by].dumps = Own.dumps
         /\ memory'[call.by].recent = Own.recent
<1>1. At("persist")
  BY DEF Persist
<1> QED
  BY <1>1, PersistOutput DEF Persist, Own, Memory, FileInv, FileTypeOK

(* After Proceed the rebuild has ended or is at the start of a closed chapter. *)
LEMMA ProceedInv ==
  ASSUME FileInv, call # NoCall, NEW x \in Contents \cup {NoFile}, Proceed(x),
         UNCHANGED body
  PROVE  /\ call' \in Call \cup {NoCall}
         /\ answer' \in {"none", "ok", "err"}
         /\ CallOK'
BY ProceedFacts DEF FileInv, CallOK, Closed

LEMMA PersistInv ==
  ASSUME FileInv, Persist
  PROVE  FileInv'
<1>1. AssembleFileContent \in Contents
  BY PersistOutput DEF Persist, Contents
<1>2. /\ call' \in Call \cup {NoCall}
      /\ answer' \in {"none", "ok", "err"}
      /\ CallOK'
  BY <1>1, ProceedInv DEF Persist, At
<1>3. file' \in Contents /\ owed' \subseteq Contents
  BY <1>1 DEF Persist, FileInv, FileTypeOK
<1> QED
  BY <1>2, <1>3, PersistMemory DEF Persist, FileInv, FileTypeOK

LEMMA TouchInv ==
  ASSUME FileInv, NEW x \in Edits \cup {NoFile}, Touch(x)
  PROVE  FileInv'
<1>1. x \in Contents \cup {NoFile}
  BY DEF Contents
<1>2. call' \in Call \cup {NoCall}
  BY <1>1 DEF Touch, FileInv, FileTypeOK, Call
<1>3. owed' \subseteq Contents /\ faults' \in Nat
  BY <1>1, Z3 DEF Touch, Fault, FileInv, FileTypeOK
<1>4. CallOK'
  BY DEF Touch, CallOK, FileInv, FileTypeOK, Call, Closed, Own
<1> QED
  BY <1>1, <1>2, <1>3, <1>4 DEF Touch, FileInv, FileTypeOK

LEMMA ExpireInv ==
  ASSUME FileInv, NEW p \in Projections, NEW c \in Chapters, Expire(p, c)
  PROVE  FileInv'
<1>1. [memory[p] EXCEPT !.recent = @ \ {c}] \in Memory
  BY DEF FileInv, FileTypeOK, Memory
<1>2. memory' \in [Projections -> Memory]
  BY <1>1 DEF Expire, FileInv, FileTypeOK
<1>3. ASSUME call # NoCall
      PROVE  memory'[call.by].dumps = Own.dumps
  BY <1>3 DEF Expire, Own, FileInv, FileTypeOK, Memory, Call
<1>4. CallOK'
  BY <1>3 DEF Expire, CallOK, FileInv, Closed, Own
<1> QED
  BY <1>2, <1>4 DEF Expire, FileInv, FileTypeOK

(* The steps that end the rebuild, or find none running. *)
LEMMA QuietInv ==
  ASSUME FileInv,
         \/ UnknownSchema \/ RenameMissing \/ CallFails \/ Restart
         \/ \E c \in Chapters, b \in Bodies : Close(c, b) \/ HideImport(c, b)
  PROVE  FileInv'
<1>1. call' = NoCall
  BY DEF UnknownSchema, RenameMissing, CallFails, Restart, ReturnError, Close,
         HideImport
<1>2. CASE UnknownSchema \/ RenameMissing \/ CallFails
  BY <1>1, <1>2 DEF UnknownSchema, RenameMissing, CallFails, ReturnError, Fault,
                    FileInv, FileTypeOK, CallOK
<1>3. CASE Restart
  BY <1>1, <1>3, FreshTyped DEF Restart, Fault, FileInv, FileTypeOK, CallOK
<1>4. CASE \E c \in Chapters, b \in Bodies : Close(c, b) \/ HideImport(c, b)
  BY <1>1, <1>4 DEF Close, HideImport, Fault, FileInv, FileTypeOK, CallOK, Texts
<1> QED
  BY <1>2, <1>3, <1>4

LEMMA FileStep == FileInv /\ [FileNext]_fvars => FileInv'
<1> SUFFICES ASSUME FileInv, [FileNext]_fvars PROVE FileInv'
  OBVIOUS
<1>1. CASE \E p \in Projections : Begin(p)
  BY <1>1, BeginInv
<1>2. CASE Skip
  <2>1. /\ call' \in Call \cup {NoCall}
        /\ answer' \in {"none", "ok", "err"}
        /\ CallOK'
    BY <1>2, ProceedInv DEF Skip, At, FileInv, FileTypeOK
  <2> QED
    BY <1>2, <2>1 DEF Skip, FileInv, FileTypeOK
<1>3. CASE Render
  BY <1>3, RenderInv
<1>4. CASE Check \/ Rename
  <2>1. call # NoCall /\ call \in Call
    BY <1>4 DEF Check, Rename, At, FileInv, FileTypeOK
  <2>2. call' \in Call /\ call' = [call EXCEPT !.step = call'.step]
    BY <1>4, <2>1 DEF Check, Rename, Call
  <2>3. CallOK'
    BY <1>4, <2>1, <2>2
       DEF Check, Rename, At, CallOK, Call, Closed, Own, FileInv
  <2> QED
    BY <1>4, <2>2, <2>3 DEF Check, Rename, FileInv, FileTypeOK
<1>5. CASE Persist
  BY <1>5, PersistInv
<1>6. CASE \E x \in Edits \cup {NoFile} : Touch(x)
  BY <1>6, TouchInv
<1>7. CASE \E p \in Projections, c \in Chapters : Expire(p, c)
  BY <1>7, ExpireInv
<1>8. CASE \/ UnknownSchema \/ RenameMissing \/ CallFails \/ Restart
           \/ \E c \in Chapters, b \in Bodies : Close(c, b) \/ HideImport(c, b)
  BY <1>8, QuietInv
<1>9. CASE UNCHANGED fvars
  BY <1>9 DEF fvars, FileInv, FileTypeOK, CallOK, Closed, Own
<1> QED
  BY <1>1, <1>2, <1>3, <1>4, <1>5, <1>6, <1>7, <1>8, <1>9
     DEF FileNext, RebuildChapter, FileEnvironment

(* The types of the projection's state hold throughout: what is written is   *)
(* always the text of at least one closed chapter.                           *)
THEOREM FileTypes == FileSpec => []FileTypeOK
<1>1. FileInv => FileTypeOK
  BY DEF FileInv
<1> QED
  BY <1>1, FileInitInv, FileStep, PTL DEF FileSpec

-----------------------------------------------------------------------------
(* No content is destroyed.  What makes it inductive is PersistSafe: between *)
(* the comparison and the rename over the target, what is owed in the file   *)
(* is the instance's own last write.                                         *)

LEMMA SafeInitInv == FileInit => SafeInv
BY FileAssumption DEF FileInit, SafeInv, NothingOverwritten, PersistSafe, At

LEMMA PersistSafely ==
  ASSUME FileInv, SafeInv, Persist
  PROVE  SafeInv'
<1>1. At("persist")
  BY DEF Persist
<1>2. ~At("persist")'
  BY <1>1, PersistOutput, ProceedFacts
     DEF Persist, At, Contents
<1>3. ASSUME NEW y \in owed', y # file'
      PROVE  y \in backups'
  <2>1. y \in owed /\ y # Own.written
    BY <1>3 DEF Persist
  <2>2. y = file \/ y \in backups
    BY <2>1 DEF SafeInv, NothingOverwritten
  <2>3. file \in owed => file = Own.written \/ file \in backups
    BY <1>1 DEF SafeInv, PersistSafe
  <2> QED
    BY <2>1, <2>2, <2>3 DEF Persist
<1> QED
  BY <1>2, <1>3 DEF SafeInv, NothingOverwritten, PersistSafe

LEMMA TouchSafely ==
  ASSUME FileInv, SafeInv, NEW x \in Edits \cup {NoFile}, Touch(x)
  PROVE  SafeInv'
<1>1. owed \ ({file} \ backups) \subseteq backups
  BY DEF SafeInv, NothingOverwritten
<1>2. NothingOverwritten'
  BY <1>1 DEF Touch, NothingOverwritten
<1>3. At("persist")' => At("persist")
  BY DEF Touch, At, FileInv, FileTypeOK, Call
<1>4. PersistSafe'
  BY <1>1, <1>3 DEF Touch, PersistSafe
<1> QED
  BY <1>2, <1>4 DEF SafeInv

LEMMA SafeStep ==
  ASSUME BacksUp, FileInv, SafeInv, [FileNext]_fvars
  PROVE  SafeInv'
<1>1. CASE \E p \in Projections : Begin(p)
  <2>1. ~At("persist")'
    BY <1>1 DEF Begin, At
  <2> QED
    BY <1>1, <2>1 DEF Begin, SafeInv, NothingOverwritten, PersistSafe
<1>2. CASE Skip
  <2>1. ~At("persist")'
    BY <1>2, ProceedFacts DEF Skip, At, FileInv, FileTypeOK
  <2> QED
    BY <1>2, <2>1 DEF Skip, SafeInv, NothingOverwritten, PersistSafe
<1>3. CASE Render
  <2>1. ~At("persist")'
    BY <1>3 DEF Render, At, FileInv, FileTypeOK, Call
  <2> QED
    BY <1>3, <2>1 DEF Render, SafeInv, NothingOverwritten, PersistSafe
<1>4. CASE Check
  <2>1. call \in Call /\ call'.by = call.by
    BY <1>4 DEF Check, At, FileInv, FileTypeOK, Call
  <2>2. At("persist")' => file = NoFile \/ file = Own.written
    BY <1>4, <2>1 DEF Check, At, Call, Foreign
  <2>3. NoFile \notin owed
    BY FileAssumption DEF FileInv, FileTypeOK
  <2>4. PersistSafe'
    BY <1>4, <2>1, <2>2, <2>3 DEF Check, PersistSafe, Own
  <2> QED
    BY <1>4, <2>4 DEF Check, SafeInv, NothingOverwritten
<1>5. CASE Rename
  <2>1. NoFile \notin owed
    BY FileAssumption DEF FileInv, FileTypeOK
  <2> QED
    BY <1>5, <2>1 DEF Rename, SafeInv, NothingOverwritten, PersistSafe
<1>6. CASE Persist
  BY <1>6, PersistSafely
<1>7. CASE \E x \in Edits \cup {NoFile} : Touch(x)
  BY <1>7, TouchSafely
<1>8. CASE \E p \in Projections, c \in Chapters : Expire(p, c)
  <2>1. ASSUME call # NoCall PROVE Own'.written = Own.written
    BY <1>8, <2>1 DEF Expire, Own, FileInv, FileTypeOK, Memory, Call
  <2> QED
    BY <1>8, <2>1 DEF Expire, SafeInv, NothingOverwritten, PersistSafe, At
<1>9. CASE \/ UnknownSchema \/ RenameMissing \/ CallFails \/ Restart
           \/ \E c \in Chapters, b \in Bodies : Close(c, b) \/ HideImport(c, b)
  BY <1>9 DEF UnknownSchema, RenameMissing, CallFails, Restart, ReturnError,
              Close, HideImport, SafeInv, NothingOverwritten, PersistSafe, At
<1>10. CASE UNCHANGED fvars
  BY <1>10 DEF fvars, SafeInv, NothingOverwritten, PersistSafe, At, Own
<1> QED
  BY <1>1, <1>2, <1>3, <1>4, <1>5, <1>6, <1>7, <1>8, <1>9, <1>10
     DEF FileNext, RebuildChapter, FileEnvironment

(* A file projection, which backs up what it did not write, destroys nobody's *)
(* content: not an edit seen by the comparison, not what an earlier run of    *)
(* the server left, across failures between the backup and the write.         *)
THEOREM ContentsKept ==
  ASSUME BacksUp
  PROVE  FileSpec => []NothingOverwritten
<1>1. FileInv /\ SafeInv /\ [FileNext]_fvars => SafeInv'
  BY SafeStep
<1>2. SafeInv => NothingOverwritten
  BY DEF SafeInv
<1> QED
  BY <1>1, <1>2, FileInitInv, FileStep, SafeInitInv, PTL DEF FileSpec

-----------------------------------------------------------------------------
(* What Ok means.  A rebuild holds the chapters it is done with in memory as *)
(* the journal has them; if it met the file as the projection left it, every *)
(* step back at "render" finds the memory in the file.                       *)

LEMMA BeginRebuild ==
  ASSUME FileInv, NEW p \in Projections, Begin(p)
  PROVE  RebuildInv'
<1>1. PICK c \in Closed :
        call' = [by |-> p, at |-> c, todo |-> Closed \ {c}, step |-> "render",
                 before |-> file,
                 clean |-> \/ memory'[p].recent = {}
                           \/ file = memory[p].written
                              /\ memory[p].written = memory[p].dumps]
  BY NewestIn DEF Begin
<1>2. Done' = {}
  BY <1>1 DEF Done, Begin, Closed
<1>3. memory'[p].recent = {} \/ memory' = memory
  BY DEF Begin, Fresh, FileInv, FileTypeOK
<1> QED
  BY <1>1, <1>2, <1>3 DEF RebuildInv, InStep, Own, Begin

(* Proceed makes the chapter at hand one of those done. *)
LEMMA ProceedDone ==
  ASSUME FileInv, call # NoCall, NEW x \in Contents \cup {NoFile}, Proceed(x),
         UNCHANGED body, call' # NoCall
  PROVE  Done' \subseteq Done \cup {call.at}
<1>1. call.at \in Closed /\ call.todo \subseteq Closed
  BY DEF FileInv, CallOK
<1>2. Closed' = Closed
  BY DEF Closed
<1>3. call'.at \in call.todo /\ call'.todo = call.todo \ {call'.at}
  BY ProceedFacts
<1> QED
  BY <1>1, <1>2, <1>3 DEF Done

LEMMA SkipRebuild ==
  ASSUME FileInv, RebuildInv, Skip
  PROVE  RebuildInv'
<1> SUFFICES ASSUME call' # NoCall PROVE RebuildInv'
  BY DEF RebuildInv
<1>1. call # NoCall /\ file \in Contents \cup {NoFile}
  BY DEF Skip, At, FileInv, FileTypeOK
<1>2. Done' \subseteq Done \cup {call.at} /\ call'.by = call.by
      /\ call'.clean = call.clean
  BY <1>1, ProceedDone, ProceedFacts DEF Skip
<1>3. Own' = Own
  BY <1>2 DEF Skip, Own
<1>4. \A c \in Done' : Own.dumps[c] = body[c]
  BY <1>1, <1>2 DEF Skip, ShouldSkip, RebuildInv
<1>5. call.clean => InStep
  BY <1>1 DEF Skip, ShouldSkip, RebuildInv, At
<1> QED
  BY <1>2, <1>3, <1>4, <1>5 DEF RebuildInv, InStep, Skip

LEMMA RenderRebuild ==
  ASSUME FileInv, RebuildInv, Render
  PROVE  RebuildInv'
<1>1. call # NoCall /\ call \in Call /\ call.step = "render"
  BY DEF Render, At, FileInv, FileTypeOK
<1>2. /\ call'.by = call.by /\ call'.at = call.at /\ call'.todo = call.todo
      /\ call'.step = "check"
  BY <1>1 DEF Render, Call
<1>3. Done' = Done /\ call.at \notin Done /\ Done \subseteq Chapters
  BY <1>2 DEF Render, Done, Closed
<1>4. Own \in Memory /\ call.by \in Projections
  BY <1>1 DEF Call, Own, FileInv, FileTypeOK
<1>5. Own'.dumps = [Own.dumps EXCEPT ![call.at] = body[call.at]]
  BY <1>2, <1>4 DEF Render, Own, FileInv, FileTypeOK, Memory
<1>6. ASSUME NEW c \in Done PROVE Own'.dumps[c] = body'[c]
  <2>1. Own'.dumps[c] = Own.dumps[c]
    BY <1>3, <1>4, <1>5, <1>6 DEF Memory, Texts
  <2> QED
    BY <1>1, <1>6, <2>1 DEF RebuildInv, Render
<1> QED
  BY <1>2, <1>3, <1>6 DEF RebuildInv

(* The chapter just rendered is in memory, and a persist writes the memory. *)
LEMMA PersistRebuild ==
  ASSUME FileInv, RebuildInv, Persist
  PROVE  /\ RebuildInv'
         /\ file' = Own.dumps
         /\ \A c \in Done \cup {call.at} : Own.dumps[c] = body[c]
<1>1. call # NoCall /\ At("persist")
  BY DEF Persist, At
<1>2. \A c \in Done \cup {call.at} : Own.dumps[c] = body[c]
  BY <1>1 DEF RebuildInv, FileInv, CallOK, At
<1>3. file' = Own.dumps
  BY DEF Persist, AssembleFileContent
<1>4. ASSUME call' # NoCall PROVE RebuildInv'
  <2>1. AssembleFileContent \in Contents \cup {NoFile}
    BY PersistOutput DEF Persist, Contents
  <2>2. Done' \subseteq Done \cup {call.at} /\ call'.by = call.by
    BY <1>1, <1>4, <2>1, ProceedDone, ProceedFacts DEF Persist
  <2>3. Own'.written = Own.dumps /\ Own'.dumps = Own.dumps
    BY <2>2, PersistMemory DEF Own, AssembleFileContent
  <2>4. InStep'
    BY <1>3, <2>3 DEF InStep
  <2> QED
    BY <1>2, <2>2, <2>3, <2>4 DEF RebuildInv, Persist
<1> QED
  BY <1>2, <1>3, <1>4 DEF RebuildInv

LEMMA RebuildStep ==
  ASSUME FileInv, RebuildInv, [FileNext]_fvars
  PROVE  RebuildInv'
<1>1. CASE \E p \in Projections : Begin(p)
  BY <1>1, BeginRebuild
<1>2. CASE Skip
  BY <1>2, SkipRebuild
<1>3. CASE Render
  BY <1>3, RenderRebuild
<1>4. CASE Check \/ Rename
  <2>1. call # NoCall /\ call \in Call
    BY <1>4 DEF Check, Rename, At, FileInv, FileTypeOK
  <2>2. /\ call'.by = call.by /\ call'.at = call.at /\ call'.todo = call.todo
        /\ call'.step # "render"
    BY <1>4, <2>1 DEF Check, Rename, Call
  <2>3. Own' = Own /\ Done' = Done /\ body' = body
    BY <1>4, <2>2 DEF Check, Rename, Own, Done, Closed
  <2> QED
    BY <2>1, <2>2, <2>3 DEF RebuildInv
<1>5. CASE Persist
  BY <1>5, PersistRebuild
<1>6. CASE \E x \in Edits \cup {NoFile} : Touch(x)
  <2>1. CASE call = NoCall
    BY <1>6, <2>1 DEF Touch, RebuildInv
  <2>2. CASE call # NoCall
    <3>1. /\ call'.by = call.by /\ call'.at = call.at
          /\ call'.todo = call.todo /\ call'.clean = FALSE
      BY <1>6, <2>2 DEF Touch, FileInv, FileTypeOK, Call
    <3>2. Own' = Own /\ Done' = Done /\ body' = body
      BY <1>6, <3>1 DEF Touch, Own, Done, Closed
    <3> QED
      BY <2>2, <3>1, <3>2 DEF RebuildInv
  <2> QED
    BY <2>1, <2>2
<1>7. CASE \E p \in Projections, c \in Chapters : Expire(p, c)
  <2>1. ASSUME call # NoCall
        PROVE  /\ Own'.dumps = Own.dumps /\ Own'.written = Own.written
               /\ Own'.recent \subseteq Own.recent
    BY <1>7, <2>1 DEF Expire, Own, FileInv, FileTypeOK, Memory, Call
  <2>2. Done' = Done /\ call' = call /\ body' = body /\ file' = file
    BY <1>7 DEF Expire, Done, Closed
  <2> QED
    BY <2>1, <2>2 DEF RebuildInv, InStep
<1>8. CASE \/ UnknownSchema \/ RenameMissing \/ CallFails \/ Restart
           \/ \E c \in Chapters, b \in Bodies : Close(c, b) \/ HideImport(c, b)
  BY <1>8 DEF UnknownSchema, RenameMissing, CallFails, Restart, ReturnError,
              Close, HideImport, RebuildInv
<1>9. CASE UNCHANGED fvars
  BY <1>9 DEF fvars, RebuildInv, InStep, Done, Closed, Own
<1> QED
  BY <1>1, <1>2, <1>3, <1>4, <1>5, <1>6, <1>7, <1>8, <1>9
     DEF FileNext, RebuildChapter, FileEnvironment

(* A call that returns Ok was at its last chapter, and skipped or wrote it. *)
LEMMA OkBy ==
  ASSUME FileInv, [FileNext]_fvars, ReturnsOk
  PROVE  /\ call.todo = {}
         /\ Skip \/ Persist
<1>1. ~ \E p \in Projections : Begin(p)
  BY DEF ReturnsOk, Begin
<1>2. ~ (Render \/ Check \/ Rename)
  BY FileAssumption
     DEF ReturnsOk, Render, Check, Rename, At, FileInv, FileTypeOK, Call
<1>3. ~ (UnknownSchema \/ RenameMissing \/ CallFails \/ Restart)
  BY DEF ReturnsOk, UnknownSchema, RenameMissing, CallFails, Restart,
         ReturnError
<1>4. ~ \E x \in Edits \cup {NoFile} : Touch(x)
  <2> SUFFICES ASSUME NEW x \in Edits \cup {NoFile}, Touch(x) PROVE FALSE
    OBVIOUS
  <2>1. call' \in Call
    BY DEF ReturnsOk, Touch, FileInv, FileTypeOK, Call, Contents
  <2> QED
    BY <2>1, FileAssumption DEF ReturnsOk
<1>5. ~ (\/ \E p \in Projections, c \in Chapters : Expire(p, c)
         \/ \E c \in Chapters, b \in Bodies : Close(c, b) \/ HideImport(c, b)
         \/ UNCHANGED fvars)
  BY DEF ReturnsOk, Expire, Close, HideImport, fvars
<1>6. Skip \/ Persist
  BY <1>1, <1>2, <1>3, <1>4, <1>5
     DEF FileNext, RebuildChapter, FileEnvironment
<1>7. call.todo = {}
  <2>1. CASE Skip
    BY <2>1, ProceedFacts DEF ReturnsOk, Skip, FileInv, FileTypeOK
  <2>2. CASE Persist
    BY <2>2, PersistOutput, ProceedFacts DEF ReturnsOk, Persist, Contents
  <2> QED
    BY <1>6, <2>1, <2>2
<1> QED
  BY <1>6, <1>7

(* Once the last chapter is done, all of them are. *)
LEMMA LastDone ==
  ASSUME call.todo = {} PROVE Closed \subseteq Done \cup {call.at}
BY DEF Done

LEMMA PersistShows ==
  ASSUME FileInv, RebuildInv, Persist, call.todo = {}
  PROVE  ShowsJournal
<1>1. file' \in Outputs
  BY PersistOutput DEF Persist
<1> QED
  BY <1>1, PersistRebuild, LastDone DEF ShowsJournal

LEMMA SkipShows ==
  ASSUME FileInv, RebuildInv, Skip, call.todo = {}, call.clean
  PROVE  ShowsJournal
<1>1. call # NoCall /\ call \in Call
  BY DEF Skip, At, FileInv, FileTypeOK
<1>2. InStep
  BY <1>1 DEF Skip, ShouldSkip, RebuildInv, At
<1>3. \A c \in Closed : Own.dumps[c] = body[c]
  BY <1>1, LastDone DEF Skip, ShouldSkip, RebuildInv
<1>4. Own \in Memory /\ call.at \in Closed
  BY <1>1 DEF Call, Own, FileInv, FileTypeOK, CallOK
<1>5. Own.dumps \in Outputs
  BY <1>3, <1>4, ClosedBody DEF FileInv, Memory, Outputs
<1> QED
  BY <1>2, <1>3, <1>5 DEF Skip, InStep, ShowsJournal

(* Ok means that every closed chapter is in the file, as the journal has it, *)
(* if the file was as the projection had left it or the debounce window was  *)
(* over, and nobody touched it during the rebuild.                           *)
THEOREM OkShowsJournal == FileSpec => RebuildShowsJournal
<1>1. FileInit => RebuildInv
  BY DEF FileInit, RebuildInv
<1>2. FileInv /\ RebuildInv /\ [FileNext]_fvars => RebuildInv'
  BY RebuildStep
<1>3. FileInv /\ RebuildInv /\ [FileNext]_fvars
        => [ReturnsOk /\ call.clean => ShowsJournal]_fvars
  BY OkBy, PersistShows, SkipShows
<1> QED
  BY <1>1, <1>2, <1>3, FileInitInv, FileStep, PTL
     DEF FileSpec, RebuildShowsJournal

(* Without debouncing (the JSON projection) Ok means so unconditionally. *)
THEOREM OkRestoresFile ==
  ASSUME ~Debounced
  PROVE  FileSpec => RebuildRestoresFile
<1>1. FileInit => RebuildInv
  BY DEF FileInit, RebuildInv
<1>2. FileInv /\ RebuildInv /\ [FileNext]_fvars => RebuildInv'
  BY RebuildStep
<1>3. FileInv /\ RebuildInv /\ [FileNext]_fvars
        => [ReturnsOk => ShowsJournal]_fvars
  <2>1. ~Skip
    BY DEF Skip, ShouldSkip
  <2> QED
    BY <2>1, OkBy, PersistShows
<1> QED
  BY <1>1, <1>2, <1>3, FileInitInv, FileStep, PTL
     DEF FileSpec, RebuildRestoresFile
=====
