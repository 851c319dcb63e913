-------------------------- MODULE ProjectDocument --------------------------
(***************************************************************************)
(* The window's document: the project that is open, the last saved one,   *)
(* undo and redo, the project files and the drafts beside them             *)
(* (gui/document.py, gui/project/autosave.py and the idle operations of    *)
(* gui/main_window.py).                                                    *)
(*                                                                         *)
(* A content is a number: every commit makes a new one, as every commit of *)
(* the code makes new objects that same_content() tells apart by identity. *)
(* A saved project is loaded back as new objects with the same bytes; it   *)
(* keeps its number here, because the objects it replaces are nowhere else.*)
(* Where the reader looks (page, splitters, active dataset) is not content *)
(* and is left out, so apply_view changes nothing here.                    *)
(***************************************************************************)
EXTENDS Integers, Sequences

CONSTANTS Paths,        \* places a project file can be saved to
          NoPath,       \* the path of a project never saved
          MaxUndo,      \* MAX_UNDO_DEPTH
          MaxContents   \* bound: contents made in one behaviour

ASSUME DocumentAssumption ==
    /\ NoPath \notin Paths
    /\ MaxUndo \in Nat \ {0}
    /\ MaxContents \in Nat \ {0}

Absent == 0
NewProject == 1
Contents == 1 .. MaxContents

VARIABLES
    project,    \* _project
    saved,      \* _saved_project
    path,       \* _path
    dirty,      \* _dirty
    undos,      \* _undo_stack
    redos,      \* _redo_stack
    last,       \* the newest content
    disk,       \* the project file at each path
    draft,      \* the .autosave file beside each path
    drafted,    \* history: autosave has seen the content as it is
    unsettled   \* history: a save replaced the open file and then failed

stacks == <<undos, redos>>
files == <<disk, draft>>
document == <<project, saved, path, dirty, undos, redos, last, disk, draft, drafted, unsettled>>

DocumentInit ==
    /\ project = NewProject /\ saved = NewProject /\ last = NewProject
    /\ path = NoPath
    /\ dirty = FALSE
    /\ undos = <<>> /\ redos = <<>>
    /\ disk = [p \in Paths |-> Absent]
    /\ draft = [p \in Paths |-> Absent]
    /\ drafted = FALSE
    /\ unsettled = FALSE

\* Mutant: a list without a limit.
BugPush(stack, content) == Append(stack, content)

\* A deque with maxlen: the oldest entry makes room.
Push(stack, content) ==
    IF Len(stack) < MaxUndo THEN Append(stack, content) ELSE Append(Tail(stack), content)

Top(stack) == stack[Len(stack)]
Pop(stack) == SubSeq(stack, 1, Len(stack) - 1)

fresh == last + 1
CanChange == last < MaxContents

----------------------------------------------------------------------------
(* Edits, undo and redo.                                                   *)

\* amend folds the commit into the step on top of the undo stack.
_commit(content, amend) ==
    /\ undos' = IF amend THEN undos ELSE Push(undos, project)
    /\ redos' = <<>>
    /\ project' = content
    /\ dirty' = TRUE
    /\ drafted' = FALSE

replace_project ==
    /\ CanChange
    /\ last' = fresh
    /\ _commit(fresh, FALSE)
    /\ UNCHANGED <<saved, path, disk, draft, unsettled>>

adopt_operation_result(amend) ==
    /\ CanChange
    /\ last' = fresh
    /\ _commit(fresh, amend)
    /\ UNCHANGED <<saved, path, disk, draft, unsettled>>

_step(restored) ==
    /\ project' = restored
    /\ dirty' = (restored # saved)
    /\ drafted' = FALSE
    /\ UNCHANGED <<saved, path, last, disk, draft, unsettled>>

undo ==
    /\ undos # <<>>
    /\ _step(Top(undos))
    /\ undos' = Pop(undos)
    /\ redos' = Append(redos, project)

redo ==
    /\ redos # <<>>
    /\ _step(Top(redos))
    /\ redos' = Pop(redos)
    /\ undos' = Push(undos, project)

\* Neither stack is touched: undo and redo jump across the update.
accept_source_update ==
    /\ CanChange
    /\ last' = fresh
    /\ project' = fresh
    /\ dirty' = TRUE
    /\ drafted' = FALSE
    /\ UNCHANGED <<saved, path, undos, redos, disk, draft, unsettled>>

----------------------------------------------------------------------------
(* Files and drafts.                                                       *)

without(p) == IF p = NoPath THEN draft ELSE [draft EXCEPT ![p] = Absent]

\* Mutant: the draft goes before the replacement is known to succeed.
BugDiscard(replaced) == IF dirty THEN without(path) ELSE draft

\* The draft of the document that goes away, only once it has gone.
discard_after_replacement(replaced) ==
    IF replaced /\ dirty THEN without(path) ELSE draft

_adopt_file(content, p) ==
    /\ project' = content /\ saved' = content
    /\ path' = p
    /\ dirty' = FALSE
    /\ undos' = <<>> /\ redos' = <<>>
    /\ drafted' = FALSE
    /\ unsettled' = FALSE

new_project ==
    /\ _adopt_file(NewProject, NoPath)
    /\ draft' = discard_after_replacement(TRUE)
    /\ UNCHANGED <<last, disk>>

\* The file cannot be read, or a panel refuses the project.
open_fails ==
    /\ draft' = discard_after_replacement(FALSE)
    /\ UNCHANGED <<project, saved, path, dirty, undos, redos, last, disk, drafted, unsettled>>

open_project(p) ==
    /\ disk[p] # Absent
    /\ LET left == discard_after_replacement(TRUE) IN
       \* No draft to offer, or one that cannot be read.
       \/ /\ _adopt_file(disk[p], p)
          /\ draft' = left
       \* _offer_draft_recovery, declined.
       \/ /\ left[p] # Absent
          /\ _adopt_file(disk[p], p)
          /\ draft' = [left EXCEPT ![p] = Absent]
       \* _offer_draft_recovery, accepted: the draft is a commit over the file.
       \/ /\ left[p] # Absent
          /\ project' = left[p] /\ saved' = disk[p]
          /\ path' = p
          /\ dirty' = TRUE
          /\ undos' = <<disk[p]>> /\ redos' = <<>>
          /\ drafted' = TRUE
          /\ unsettled' = FALSE
          /\ draft' = left
    /\ UNCHANGED <<last, disk>>

\* Mutant: what was saved is not remembered.
BugSave(target) ==
    /\ disk' = [disk EXCEPT ![target] = project]
    /\ path' = target
    /\ dirty' = FALSE
    /\ unsettled' = FALSE
    /\ draft' = [draft EXCEPT ![target] = Absent]
    /\ UNCHANGED <<project, saved, undos, redos, last, drafted>>

\* The file is replaced, loaded back and its draft retired.
save_project(target) ==
    /\ disk' = [disk EXCEPT ![target] = project]
    /\ saved' = project
    /\ path' = target
    /\ dirty' = FALSE
    /\ unsettled' = FALSE
    /\ draft' = [draft EXCEPT ![target] = Absent]
    /\ UNCHANGED <<project, undos, redos, last, drafted>>

\* The file is replaced, but syncing its directory, loading it back or a panel
\* fails: nothing else of save() happens, and no draft is retired.
save_half_done(target) ==
    /\ disk' = [disk EXCEPT ![target] = project]
    /\ unsettled' = (unsettled \/ target = path)
    /\ UNCHANGED <<project, saved, path, dirty, undos, redos, last, draft, drafted>>

autosave_now ==
    /\ dirty /\ path # NoPath
    /\ draft' = [draft EXCEPT ![path] = project]
    /\ drafted' = TRUE
    /\ UNCHANGED <<project, saved, path, dirty, undos, redos, last, disk, unsettled>>

\* What the files keep when the process dies: everything else starts again.
lost_process ==
    /\ _adopt_file(NewProject, NoPath)
    /\ UNCHANGED <<last, disk, draft>>

----------------------------------------------------------------------------
DocumentTypeOK ==
    /\ project \in Contents /\ saved \in Contents /\ last \in Contents
    /\ path \in Paths \cup {NoPath}
    /\ dirty \in BOOLEAN /\ drafted \in BOOLEAN /\ unsettled \in BOOLEAN
    /\ undos \in Seq(Contents) /\ Len(undos) <= MaxUndo
    /\ redos \in Seq(Contents)
    /\ disk \in [Paths -> Contents \cup {Absent}]
    /\ draft \in [Paths -> Contents \cup {Absent}]

\* A document that does not call itself unsaved holds what is in its file, over
\* any order of edits, runs, undo, redo, source updates and saves. Only a save
\* that replaced the file and failed afterwards puts this off, until the next
\* save or open (gui/document.py:112, 293-308, 340-353).
CleanMeansOnDisk ==
    ~dirty =>
        /\ project = saved
        /\ path # NoPath /\ ~unsettled => disk[path] = project
=============================================================================
