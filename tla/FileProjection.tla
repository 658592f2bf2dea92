---------------------------- MODULE FileProjection ----------------------------
(***************************************************************************)
(* A projection of the journal to one file (projection/file.rs, json.rs):  *)
(* rebuild_projection replays every closed chapter, newest first, into     *)
(* rebuild_chapter, which renders it, may skip the write, and otherwise    *)
(* writes the whole file from what it holds in memory.  Around it, people  *)
(* edit or remove the file, writes fail, and the process is restarted.     *)
(*                                                                         *)
(* The projections of one project share its core's mutex, so one rebuild   *)
(* runs at a time.  A one-shot is the temporary projection that            *)
(* journal_projection_rebuild builds for an output_path; it may be the     *)
(* path of the attached projection, and that is the case modelled.         *)
(*                                                                         *)
(* A chapter's text is a member of Bodies, equal when its hash is; a file  *)
(* the projection wrote is the function from chapters to texts it was      *)
(* assembled from.  Backups are named by the millisecond and never collide *)
(* here.  The dirty set, which nothing reads, is left out.                 *)
(***************************************************************************)
EXTENDS Naturals

CONSTANTS
  Chapters,     \* chapter ids
  Bodies,       \* what a chapter renders to
  NoBody,       \* "no such chapter"
  Edits,        \* contents somebody else gives the file
  NoFile,       \* "the file does not exist"
  NoCall,       \* "no rebuild is running"
  OpenedAt,     \* opened_at of each chapter
  Projections,  \* FileProjection instances on this file
  OneShots,     \* those built for one call of journal_projection_rebuild
  Renderable,   \* of each projection, the chapters whose schema it knows
  Debounced,    \* FALSE for the JSON projection: it never skips a write
  BacksUp,      \* FALSE for the JSON projection: it keeps no backup
  MaxFaults     \* bound: edits, failures, restarts and changed replays

VARIABLES
  body,    \* what the replay of each closed chapter renders to
  memory,  \* of each projection: chapter_dumps, the chapters written within
           \* the debounce window, and the content last_written_hash is of
  call,    \* the rebuild that is running
  answer,  \* what the last rebuild answered
  file,    \* the file at output_path
  backups, \* the contents of the .bak files
  owed,    \* history: contents nobody gave up
  faults   \* counts what MaxFaults bounds

fvars == <<body, memory, call, answer, file, backups, owed, faults>>

Texts == [Chapters -> Bodies \cup {NoBody}]

(* What write_atomic writes: at least the chapter it was called for. *)
Outputs == {d \in Texts : \E c \in Chapters : d[c] # NoBody}

Contents == Edits \cup Outputs

Memory ==
  [dumps: Texts, recent: SUBSET Chapters, written: Outputs \cup {NoFile}]

(* at is the chapter rebuild_chapter was called for and todo those after it. *)
(* History: before is what the file held when it was called, clean whether   *)
(* the whole rebuild met the file as the projection left it.                 *)
Call ==
  [by: Projections, at: Chapters, todo: SUBSET Chapters,
   step: {"render", "check", "rename", "persist"},
   before: Contents \cup {NoFile}, clean: BOOLEAN]

ASSUME FileAssumption ==
  /\ NoBody \notin Bodies
  /\ NoFile \notin Contents
  /\ NoCall \notin Call
  /\ Edits \cap Outputs = {}
  /\ OpenedAt \in [Chapters -> Nat]
  /\ OneShots \subseteq Projections
  /\ Renderable \in [Projections -> SUBSET Chapters]
  /\ Debounced \in BOOLEAN
  /\ BacksUp \in BOOLEAN
  /\ MaxFaults \in Nat

FileTypeOK ==
  /\ body \in Texts
  /\ memory \in [Projections -> Memory]
  /\ call \in Call \cup {NoCall}
  /\ answer \in {"none", "ok", "err"}
  /\ file \in Contents \cup {NoFile}
  /\ backups \subseteq Contents
  /\ owed \subseteq Contents
  /\ faults \in Nat

NoTexts == [c \in Chapters |-> NoBody]

Fresh == [dumps |-> NoTexts, recent |-> {}, written |-> NoFile]

FileInit ==
  /\ body = NoTexts
  /\ memory = [p \in Projections |-> Fresh]
  /\ call = NoCall
  /\ answer = "none"
  /\ file \in Edits \cup {NoFile}
  /\ backups = {}
  /\ owed = {file} \ {NoFile}
  /\ faults = 0

-----------------------------------------------------------------------------
(* rebuild_projection *)

(* Mutant: the open chapters are not passed over. *)
AllChapters == Chapters

Closed == {c \in Chapters : body[c] # NoBody}

(* ORDER BY opened_at DESC; chapters of the same millisecond in any order. *)
NewestOf(C) == {c \in C : \A d \in C : OpenedAt[d] <= OpenedAt[c]}

(* A rebuild of a journal without closed chapters answers Ok and does        *)
(* nothing, and so does one of a name that is not registered.                *)
Begin(p) ==
  /\ call = NoCall
  /\ memory' = IF p \in OneShots THEN [memory EXCEPT ![p] = Fresh] ELSE memory
  /\ \E c \in NewestOf(Closed) :
        call' = [by |-> p, at |-> c, todo |-> Closed \ {c}, step |-> "render",
                 before |-> file,
                 clean |-> \/ memory'[p].recent = {}
                           \/ file = memory[p].written
                              /\ memory[p].written = memory[p].dumps]
  /\ UNCHANGED <<body, answer, file, backups, owed, faults>>

(* The chapter is done and the file holds x: on to the next, or Ok. *)
Proceed(x) ==
  \/ /\ call.todo = {}
     /\ call' = NoCall
     /\ answer' = "ok"
  \/ /\ \E c \in NewestOf(call.todo) :
           call' = [call EXCEPT !.at = c, !.todo = @ \ {c}, !.step = "render",
                                !.before = x]
     /\ UNCHANGED answer

(* The first error ends the rebuild. *)
ReturnError ==
  /\ call' = NoCall
  /\ answer' = "err"

At(step) == call # NoCall /\ call.step = step

Own == memory[call.by]

-----------------------------------------------------------------------------
(* rebuild_chapter *)

UnknownSchema ==
  /\ At("render")
  /\ call.at \notin Renderable[call.by]
  /\ ReturnError
  /\ UNCHANGED <<body, memory, file, backups, owed, faults>>

(* Mutant: the hash is not compared, only the time. *)
ShouldSkipRecent == Debounced /\ call.at \in Own.recent

ShouldSkip ==
  /\ Debounced
  /\ Own.dumps[call.at] = body[call.at]
  /\ call.at \in Own.recent

Skip ==
  /\ At("render")
  /\ call.at \in Renderable[call.by]
  /\ ShouldSkip
  /\ Proceed(file)
  /\ UNCHANGED <<body, memory, file, backups, owed, faults>>

(* chapter_dumps, content_hashes and last_write_at are set before the write, *)
(* and stay set when it fails.                                               *)
Render ==
  /\ At("render")
  /\ call.at \in Renderable[call.by]
  /\ ~ShouldSkip
  /\ memory' = [memory EXCEPT ![call.by].dumps[call.at] = body[call.at],
                              ![call.by].recent = @ \cup {call.at}]
  /\ call' = [call EXCEPT !.step = "check"]
  /\ UNCHANGED <<body, answer, file, backups, owed, faults>>

-----------------------------------------------------------------------------
(* write_atomic *)

(* Mutant: without a previous write there is nothing to protect. *)
ForeignOnceWritten == file # Own.written /\ Own.written # NoFile

(* The file is not what this instance wrote last. *)
Foreign == file # Own.written

(* Read the file and compare its hash. *)
Check ==
  /\ At("check")
  /\ call' = [call EXCEPT !.step = IF BacksUp /\ file # NoFile /\ Foreign
                                     THEN "rename" ELSE "persist"]
  /\ UNCHANGED <<body, memory, answer, file, backups, owed, faults>>

(* rename(journal.md, journal.md.bak.<ms>), of what is there by now. *)
Rename ==
  /\ At("rename")
  /\ file # NoFile
  /\ backups' = backups \cup {file}
  /\ file' = NoFile
  /\ call' = [call EXCEPT !.step = "persist"]
  /\ UNCHANGED <<body, memory, answer, owed, faults>>

(* The file to be renamed is gone. *)
RenameMissing ==
  /\ At("rename")
  /\ file = NoFile
  /\ ReturnError
  /\ UNCHANGED <<body, memory, file, backups, owed, faults>>

(* Mutant: the file is written from this chapter alone. *)
AssembleOne == [NoTexts EXCEPT ![call.at] = Own.dumps[call.at]]

AssembleFileContent == Own.dumps

(* The temporary file is written and renamed over the target.  A content the *)
(* same instance wrote before is replaced, hence owed no more.               *)
Persist ==
  /\ At("persist")
  /\ file' = AssembleFileContent
  /\ memory' = [memory EXCEPT ![call.by].written = AssembleFileContent]
  /\ owed' = (owed \ {Own.written}) \cup {AssembleFileContent}
  /\ Proceed(AssembleFileContent)
  /\ UNCHANGED <<body, backups, faults>>

-----------------------------------------------------------------------------
(* Everything else. *)

Fault == faults < MaxFaults /\ faults' = faults + 1

(* A statement of the replay, or a step of write_atomic, returns an error;   *)
(* a temporary file is removed.                                              *)
CallFails ==
  /\ call # NoCall
  /\ Fault
  /\ ReturnError
  /\ UNCHANGED <<body, memory, file, backups, owed>>

(* The process dies, or the server is started again. *)
Restart ==
  /\ Fault
  /\ memory' = [p \in Projections |-> Fresh]
  /\ call' = NoCall
  /\ answer' = "none"
  /\ UNCHANGED <<body, file, backups, owed>>

(* Somebody edits or removes the file, at any moment, giving up what was in  *)
(* it.  An edit that lands between the comparison and the final rename has   *)
(* no claim to survive.                                                      *)
Touch(x) ==
  /\ Fault
  /\ file' = x
  /\ owed' = (owed \ ({file} \ backups))
               \cup (IF At("persist") THEN {} ELSE {x} \ {NoFile})
  /\ call' = IF call = NoCall THEN NoCall
             ELSE [call EXCEPT !.before = x, !.clean = FALSE]
  /\ UNCHANGED <<body, memory, answer, backups>>

(* The debounce window of a chapter ends. *)
Expire(p, c) ==
  /\ c \in memory[p].recent
  /\ memory' = [memory EXCEPT ![p].recent = @ \ {c}]
  /\ UNCHANGED <<body, call, answer, file, backups, owed, faults>>

(* A chapter is closed or imported, by the core that runs no rebuild now. *)
Close(c, b) ==
  /\ call = NoCall
  /\ body[c] = NoBody
  /\ body' = [body EXCEPT ![c] = b]
  /\ UNCHANGED <<memory, call, answer, file, backups, owed, faults>>

(* The replay of an imported chapter changes: a refused second open hides    *)
(* what was imported (JournalCore, ImportedContentReplayable).               *)
HideImport(c, b) ==
  /\ call = NoCall
  /\ Fault
  /\ body[c] # NoBody
  /\ body' = [body EXCEPT ![c] = b]
  /\ UNCHANGED <<memory, call, answer, file, backups, owed>>

-----------------------------------------------------------------------------
RebuildChapter ==
  \/ UnknownSchema \/ Skip \/ Render
  \/ Check \/ Rename \/ RenameMissing \/ Persist

FileEnvironment ==
  \/ CallFails \/ Restart
  \/ \E x \in Edits \cup {NoFile} : Touch(x)
  \/ \E p \in Projections, c \in Chapters : Expire(p, c)
  \/ \E c \in Chapters, b \in Bodies : Close(c, b) \/ HideImport(c, b)

FileNext ==
  \/ \E p \in Projections : Begin(p)
  \/ RebuildChapter
  \/ FileEnvironment

FileSpec == FileInit /\ [][FileNext]_fvars

-----------------------------------------------------------------------------
(* Every content somebody wrote, or that was written for an earlier instance *)
(* of the projection, is in the file or in a backup until its owner replaces *)
(* it: no rebuild, failure or restart destroys it.                           *)
NothingOverwritten == owed \subseteq {file} \cup backups

ReturnsOk == call # NoCall /\ call' = NoCall /\ answer' = "ok"

ShowsJournal == file' \in Outputs /\ \A c \in Closed : file'[c] = body[c]

(* A rebuild that answers Ok leaves every closed chapter in the file, as the *)
(* journal has it, provided it found the file as the projection had left it  *)
(* (or the debounce window over) and nobody touched it meanwhile: neither    *)
(* skipped writes nor what a restart forgot leave a chapter out.             *)
RebuildShowsJournal == [][ReturnsOk /\ call.clean => ShowsJournal]_fvars

(* rmcp/tools.rs:771-772: a rebuild is useful after the output file has been *)
(* lost or corrupted.  So Ok means that the file is there and shows every    *)
(* closed chapter, whatever happened before.  The JSON projection does so;   *)
(* the file projection does not, for it may skip every write.                *)
RebuildRestoresFile == [][ReturnsOk => ShowsJournal]_fvars

(* projection/file.rs:17-22: if any step before persist returns an error,    *)
(* the file is left byte-for-byte identical to its state before the call.    *)
(* It is not: the backup has been moved away by then.                        *)
FailedCallLeavesFile ==
  [][call # NoCall /\ call' = NoCall /\ answer' = "err"
       => file' = call.before]_fvars
=============================================================================
