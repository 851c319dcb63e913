-------------------------- MODULE FitSessionProofs --------------------------
(***************************************************************************)
(* The safety of the window's session, for every bound and every set of    *)
(* paths: FitSession's invariants from one inductive invariant, IInv, and  *)
(* the order of the progress frames for batches of any length.             *)
(***************************************************************************)
EXTENDS FitSession, CountingProofs

(***************************************************************************)
(* What the document's operations preserve whatever the window does.       *)
(***************************************************************************)

FilesAgree ==
    /\ path # NoPath /\ ~unsettled => disk[path] = saved
    /\ ~dirty => project = saved

DraftHolds == drafted /\ dirty /\ path # NoPath => draft[path] = project

\* The undo stack is a bounded sequence of contents, and Push leaves its new entry on top.
LEMMA PushFacts ==
    ASSUME NEW stack \in Seq(Contents), Len(stack) <= MaxUndo, NEW content \in Contents
    PROVE  /\ Push(stack, content) \in Seq(Contents)
           /\ Len(Push(stack, content)) <= MaxUndo
           /\ Push(stack, content) # <<>>
           /\ Top(Push(stack, content)) = content
<1>1. CASE Len(stack) < MaxUndo
    <2>1. Push(stack, content) = Append(stack, content)
        BY <1>1 DEF Push
    <2>. QED BY <2>1, <1>1, DocumentAssumption DEF Top
<1>2. CASE ~(Len(stack) < MaxUndo)
    <2>1. Push(stack, content) = Append(Tail(stack), content)
        BY <1>2 DEF Push
    <2>2. stack # <<>> /\ Len(stack) = MaxUndo
        BY <1>2, DocumentAssumption
    <2>3. Tail(stack) \in Seq(Contents) /\ Len(Tail(stack)) = Len(stack) - 1
        BY <2>2
    <2>4. /\ Append(Tail(stack), content) \in Seq(Contents)
          /\ Len(Append(Tail(stack), content)) = Len(stack)
          /\ Append(Tail(stack), content)[Len(stack)] = content
        BY <2>3
    <2>. QED BY <2>1, <2>2, <2>4, DocumentAssumption DEF Top
<1>. QED BY <1>1, <1>2

LEMMA PopFacts ==
    ASSUME NEW stack \in Seq(Contents), stack # <<>>
    PROVE  /\ Pop(stack) \in Seq(Contents)
           /\ Len(Pop(stack)) <= Len(stack)
           /\ Top(stack) \in Contents
BY DEF Pop, Top

LEMMA ContentFacts == NewProject \in Contents /\ 0 \notin Contents
BY DocumentAssumption DEF NewProject, Contents

\* A commit opens an undo step, or folds into the one on top.
LEMMA CommitKeeps ==
    ASSUME DocumentTypeOK, FilesAgree, NEW amend \in BOOLEAN,
           replace_project \/ adopt_operation_result(amend) \/ accept_source_update
    PROVE  DocumentTypeOK' /\ FilesAgree' /\ DraftHolds'
<1>1. fresh \in Contents
    <2>1. CanChange /\ last \in 1 .. MaxContents
        BY DEF replace_project, adopt_operation_result, accept_source_update, DocumentTypeOK, Contents
    <2>. QED BY <2>1, DocumentAssumption DEF CanChange, fresh, Contents
<1>2. Push(undos, project) \in Seq(Contents) /\ Len(Push(undos, project)) <= MaxUndo
    BY PushFacts DEF DocumentTypeOK
<1>3. /\ project' = fresh /\ last' = fresh
      /\ undos' \in {undos, Push(undos, project)} /\ redos' \in {<<>>, redos}
      /\ UNCHANGED <<saved, path, disk, draft, unsettled>>
    BY DEF replace_project, adopt_operation_result, accept_source_update, _commit
<1>4. dirty' /\ ~drafted' /\ dirty' \in BOOLEAN /\ drafted' \in BOOLEAN
    BY Zenon DEF replace_project, adopt_operation_result, accept_source_update, _commit
<1>5. redos' \in Seq(Contents)
    <2>1. <<>> \in Seq(Contents) /\ redos \in Seq(Contents)
        BY DEF DocumentTypeOK
    <2>. QED BY <1>3, <2>1, Zenon
<1>. QED BY <1>1, <1>2, <1>3, <1>4, <1>5 DEF DocumentTypeOK, FilesAgree, DraftHolds

\* A file adopted as the open project leaves nothing unsaved and nothing to undo.
LEMMA AdoptKeeps ==
    ASSUME DocumentTypeOK, NEW content \in Contents, NEW p \in Paths \cup {NoPath},
           _adopt_file(content, p), UNCHANGED <<last, disk>>,
           p # NoPath => disk[p] = content,
           draft' \in [Paths -> Contents \cup {Absent}]
    PROVE  DocumentTypeOK' /\ FilesAgree' /\ DraftHolds'
<1>1. /\ ~dirty' /\ ~drafted' /\ ~unsettled'
      /\ dirty' \in BOOLEAN /\ drafted' \in BOOLEAN /\ unsettled' \in BOOLEAN
    BY Zenon DEF _adopt_file
<1>2. undos' = <<>> /\ redos' = <<>> /\ project' = content /\ saved' = content /\ path' = p
    BY DEF _adopt_file
<1>3. /\ undos' \in Seq(Contents) /\ Len(undos') <= MaxUndo
      /\ redos' \in Seq(Contents)
    BY <1>2, DocumentAssumption
<1>. QED BY <1>1, <1>2, <1>3 DEF DocumentTypeOK, FilesAgree, DraftHolds

LEMMA StepKeeps ==
    ASSUME DocumentTypeOK, FilesAgree, undo \/ redo
    PROVE  DocumentTypeOK' /\ FilesAgree' /\ DraftHolds'
<1>1. CASE undo
    <2>1. Pop(undos) \in Seq(Contents) /\ Len(Pop(undos)) <= MaxUndo /\ Top(undos) \in Contents
        BY <1>1, PopFacts, DocumentAssumption DEF undo, DocumentTypeOK
    <2>2. Append(redos, project) \in Seq(Contents)
        BY DEF DocumentTypeOK
    <2>. QED BY <1>1, <2>1, <2>2 DEF undo, _step, DocumentTypeOK, FilesAgree, DraftHolds
<1>2. CASE redo
    <2>1. Pop(redos) \in Seq(Contents) /\ Top(redos) \in Contents
        BY <1>2, PopFacts DEF redo, DocumentTypeOK
    <2>2. Push(undos, project) \in Seq(Contents) /\ Len(Push(undos, project)) <= MaxUndo
        BY PushFacts DEF DocumentTypeOK
    <2>. QED BY <1>2, <2>1, <2>2 DEF redo, _step, DocumentTypeOK, FilesAgree, DraftHolds
<1>. QED BY <1>1, <1>2

LEMMA SaveKeeps ==
    ASSUME DocumentTypeOK, FilesAgree, DraftHolds, NEW target \in Paths,
           save_project(target) \/ save_half_done(target)
    PROVE  DocumentTypeOK' /\ FilesAgree' /\ DraftHolds'
<1>1. CASE save_project(target)
    BY <1>1 DEF save_project, DocumentTypeOK, FilesAgree, DraftHolds
<1>2. CASE save_half_done(target)
    BY <1>2 DEF save_half_done, DocumentTypeOK, FilesAgree, DraftHolds
<1>. QED BY <1>1, <1>2

LEMMA ReplacementKeeps ==
    ASSUME DocumentTypeOK, FilesAgree, DraftHolds,
           new_project \/ open_fails \/ (\E p \in Paths : open_project(p)) \/ lost_process
    PROVE  DocumentTypeOK' /\ FilesAgree' /\ DraftHolds'
<1>. USE ContentFacts, DocumentAssumption
<1>1. \A b \in BOOLEAN : discard_after_replacement(b) \in [Paths -> Contents \cup {Absent}]
    BY DEF discard_after_replacement, without, DocumentTypeOK
<1>2. CASE new_project
    BY <1>1, <1>2, AdoptKeeps DEF new_project
<1>3. CASE open_fails
    BY <1>3 DEF open_fails, discard_after_replacement, DocumentTypeOK, FilesAgree, DraftHolds
<1>4. CASE \E p \in Paths : open_project(p)
    <2>1. PICK p \in Paths : open_project(p)
        BY <1>4
    <2>2. disk[p] \in Contents
        BY <2>1 DEF open_project, DocumentTypeOK, Absent
    <2>. DEFINE left == discard_after_replacement(TRUE)
    <2>3. left \in [Paths -> Contents \cup {Absent}]
        BY <1>1
    <2>4. CASE _adopt_file(disk[p], p) /\ draft' \in {left, [left EXCEPT ![p] = Absent]}
        <3>1. UNCHANGED <<last, disk>>
            BY <2>1 DEF open_project
        <3>2. draft' \in [Paths -> Contents \cup {Absent}]
            BY <2>3, <2>4
        <3>. QED BY <2>2, <2>4, <3>1, <3>2, AdoptKeeps
    <2>5. CASE /\ left[p] # Absent
               /\ project' = left[p] /\ saved' = disk[p] /\ path' = p /\ dirty' = TRUE
               /\ undos' = <<disk[p]>> /\ redos' = <<>> /\ drafted' = TRUE /\ unsettled' = FALSE
               /\ draft' = left
        <3>1. left[p] \in Contents
            BY <2>3, <2>5
        <3>2. <<disk[p]>> \in Seq(Contents) /\ Len(<<disk[p]>>) <= MaxUndo
            BY <2>2
        <3>3. UNCHANGED <<last, disk>>
            BY <2>1 DEF open_project
        <3>4. /\ dirty' /\ drafted' /\ ~unsettled'
              /\ dirty' \in BOOLEAN /\ drafted' \in BOOLEAN /\ unsettled' \in BOOLEAN
            BY <2>5, Zenon
        <3>5. /\ project' = left[p] /\ saved' = disk[p] /\ path' = p
              /\ undos' \in Seq(Contents) /\ Len(undos') <= MaxUndo /\ redos' \in Seq(Contents)
              /\ draft' = left
            BY <2>5, <3>2
        <3>. HIDE DEF left
        <3>. QED BY <2>2, <2>3, <3>1, <3>3, <3>4, <3>5 DEF DocumentTypeOK, FilesAgree, DraftHolds
    <2>. QED BY <2>1, <2>4, <2>5 DEF open_project
<1>5. CASE lost_process
    BY <1>5, AdoptKeeps DEF lost_process, DocumentTypeOK
<1>. QED BY <1>2, <1>3, <1>4, <1>5

LEMMA AutosaveKeeps ==
    ASSUME DocumentTypeOK, FilesAgree, DraftHolds, autosave_now
    PROVE  DocumentTypeOK' /\ FilesAgree' /\ DraftHolds'
BY DEF autosave_now, DocumentTypeOK, FilesAgree, DraftHolds

LEMMA ReleaseKeeps ==
    ASSUME DocumentTypeOK, FilesAgree, NEW how, _release_workspace(how)
    PROVE  DocumentTypeOK' /\ FilesAgree'
BY DEF _release_workspace, without, DocumentTypeOK, FilesAgree

LEMMA UnchangedKeeps ==
    ASSUME DocumentTypeOK, FilesAgree, UNCHANGED document
    PROVE  DocumentTypeOK' /\ FilesAgree' /\ (DraftHolds => DraftHolds')
BY DEF document, DocumentTypeOK, FilesAgree, DraftHolds

(***************************************************************************)
(* The inductive invariant: what the panels' flags, the run's writes and   *)
(* the close sequence keep true of each other.                             *)
(***************************************************************************)

\* Nothing of a fit's stop is left when no fit runs, and a panel shows what the job was told.
StopInv ==
    /\ ShownAsTold
    /\ op # "fit" => ~cancelled["fit"] /\ ~forced["fit"] /\ ~paused

\* RunIsOneStep, with what decides between a new undo step and the one on top.
RunInv ==
    /\ RunIsOneStep
    /\ op = "fit" /\ ~written /\ ~ended => tip = source
    /\ op = "fit" /\ written /\ ~stepped => undos # <<>> /\ Top(undos) = source
    /\ is_running /\ ~stepped => twin = source

\* WaitingHasAnEnd and CloseIsSafe: a prompt is open only over an operation a close
\* waits for, and a close on its zero timer still asks unless something overtook it.
CloseInv ==
    /\ WaitingHasAnEnd
    /\ prompt => pending /\ is_running
    /\ op = "none" => ~job.force
    /\ pending /\ op = "fit" /\ ~cancelled["fit"] => late
    /\ CloseIsSafe
    /\ scheduled /\ released = "open" /\ excuse = "none" => resumed

DocumentInv ==
    /\ DocumentTypeOK
    /\ FilesAgree
    /\ released = "open" => DraftHolds

IInv == TypeOK /\ DocumentInv /\ StopInv /\ RunInv /\ CloseInv

(***************************************************************************)
(* The panels: what is asked of the operation and shown of it.             *)
(***************************************************************************)

PanelsOK ==
    /\ op \in Panels \cup {"none"}
    /\ cancelled \in [Panels -> BOOLEAN] /\ forced \in [Panels -> BOOLEAN]
    /\ paused \in BOOLEAN
    /\ job \in [cancel : BOOLEAN, force : BOOLEAN, pause : BOOLEAN]

\* Only an operation that runs is told anything, and its panel shows it.
LEMMA CancelKeeps ==
    ASSUME PanelsOK, StopInv, op' = op,
           request_cancel \/ (tell_cancel("mcmc") /\ UNCHANGED paused)
    PROVE  PanelsOK' /\ StopInv'
<1>. USE DEF PanelsOK, StopInv, ShownAsTold, is_running, Panels
<1>1. CASE \E panel \in Panels : can_request_stop(panel) /\ tell_cancel(panel)
    <2>1. PICK panel \in Panels : can_request_stop(panel) /\ tell_cancel(panel)
        BY <1>1
    <2>2. /\ op = panel
          /\ cancelled' = [cancelled EXCEPT ![panel] = TRUE] /\ UNCHANGED <<forced, paused>>
          /\ job' = [job EXCEPT !.cancel = TRUE]
        BY <2>1 DEF can_request_stop, tell_cancel
    <2>3. cancelled'[panel] /\ \A q \in Panels : q # panel => cancelled'[q] = cancelled[q]
        BY <2>2
    <2>4. job'.cancel /\ job'.force = job.force /\ job'.pause = job.pause
        BY <2>2
    <2>5. PanelsOK'
        BY <2>2
    <2>. QED BY <2>2, <2>3, <2>4, <2>5
<1>2. CASE UNCHANGED panels
    BY <1>2 DEF panels
<1>3. CASE tell_cancel("mcmc")
    BY <1>3 DEF tell_cancel
<1>. QED BY <1>1, <1>2, <1>3 DEF request_cancel

LEMMA ForceKeeps ==
    ASSUME PanelsOK, StopInv, op' = op, request_force_stop
    PROVE  PanelsOK' /\ StopInv'
<1>. USE DEF PanelsOK, StopInv, ShownAsTold, is_running, Panels
<1>1. CASE \E panel \in Panels : can_force_stop(panel) /\ tell_force(panel)
    <2>1. PICK panel \in Panels : can_force_stop(panel) /\ tell_force(panel)
        BY <1>1
    <2>2. /\ op = panel /\ UNCHANGED paused
          /\ cancelled' = [cancelled EXCEPT ![panel] = TRUE]
          /\ forced' = [forced EXCEPT ![panel] = TRUE]
          /\ job' = [job EXCEPT !.force = TRUE]
        BY <2>1 DEF can_force_stop, tell_force
    <2>3. /\ cancelled'[panel] /\ forced'[panel]
          /\ \A q \in Panels : q # panel => cancelled'[q] = cancelled[q] /\ forced'[q] = forced[q]
        BY <2>2
    <2>4. job'.force /\ job'.pause = job.pause
        BY <2>2
    <2>5. PanelsOK'
        BY <2>2
    <2>. QED BY <2>2, <2>3, <2>4, <2>5
<1>2. CASE UNCHANGED panels
    BY <1>2 DEF panels
<1>. QED BY <1>1, <1>2 DEF request_force_stop

LEMMA SamePanelsKeep ==
    ASSUME PanelsOK, StopInv, UNCHANGED <<op, panels>>
    PROVE  PanelsOK' /\ StopInv'
BY DEF PanelsOK, StopInv, ShownAsTold, is_running, panels

\* A close asks the operation to stop only by asking its panel.
LEMMA CloseAsks ==
    ASSUME NEW user_close, closeEvent(user_close)
    PROVE  UNCHANGED panels \/ request_cancel
BY DEF closeEvent, waits_already, start_close

LEMMA StopStep ==
    ASSUME PanelsOK, StopInv, Next
    PROVE  PanelsOK' /\ StopInv'
<1>1. CASE start_fit \/ start_mcmc
    <2>. USE DEF PanelsOK, StopInv, ShownAsTold, is_running, Panels, _begin, _require_idle, Untold
    <2>1. CASE start_fit
        BY <1>1, <2>1 DEF start_fit
    <2>2. CASE start_mcmc
        BY <1>1, <2>2 DEF start_mcmc
    <2>. QED BY <1>1, <2>1, <2>2
<1>2. CASE Cancel
    BY <1>2, CancelKeeps DEF Cancel, run_state
<1>3. CASE ForceStop
    BY <1>3, ForceKeeps DEF ForceStop, run_state
<1>4. CASE _toggle_pause
    BY <1>4 DEF _toggle_pause, run_state, PanelsOK, StopInv, ShownAsTold, is_running, Panels
<1>5. CASE AnswerChain
    <2>1. op' = op /\ (UNCHANGED panels \/ tell_cancel("mcmc"))
        BY <1>5 DEF AnswerChain, run_state
    <2>2. tell_cancel("mcmc") => UNCHANGED paused
        BY DEF tell_cancel
    <2>. QED BY <2>1, <2>2, CancelKeeps, SamePanelsKeep
<1>6. CASE JobEvent
    <2>1. CASE _publish_checkpoint \/ _publish_fit_result \/ _publish_mcmc \/ no_result \/ progress
        <3>1. UNCHANGED <<op, panels>>
            BY <2>1 DEF _publish_checkpoint, _publish_fit_result, _publish_mcmc, no_result,
                   progress, run_state
        <3>. QED BY <3>1, SamePanelsKeep
    <2>2. CASE _finish
        BY <2>2 DEF _finish, Untold, PanelsOK, StopInv, ShownAsTold, is_running, Panels
    <2>. QED BY <1>6, <2>1, <2>2 DEF JobEvent
<1>7. CASE UserClose \/ Quit \/ ScheduledClose
    <2>1. op' = op
        BY <1>7 DEF UserClose, Quit, ScheduledClose, run_state
    <2>2. UNCHANGED panels \/ request_cancel
        BY <1>7, CloseAsks DEF UserClose, Quit, ScheduledClose
    <2>. QED BY <2>1, <2>2, CancelKeeps, SamePanelsKeep
<1>8. CASE AnswerExit \/ AnswerQuit
    <2>1. op' = op
        BY <1>8 DEF AnswerExit, AnswerQuit, run_state
    <2>2. UNCHANGED panels \/ request_cancel
        BY <1>8 DEF AnswerExit, AnswerQuit, start_close
    <2>. QED BY <2>1, <2>2, CancelKeeps, SamePanelsKeep
<1>9. CASE _force_prompt_finished
    <2>1. op' = op /\ (UNCHANGED panels \/ request_force_stop)
        BY <1>9 DEF _force_prompt_finished, run_state
    <2>. QED BY <2>1, ForceKeeps, SamePanelsKeep
<1>10. CASE close_cancel_deadline_reached \/ Edit \/ ToggleMidRun \/ StepMidRun \/ FileOperation \/ Autosave \/ Over
    <2>1. UNCHANGED <<op, panels>>
        BY <1>10 DEF close_cancel_deadline_reached, Edit, ToggleMidRun, StepMidRun, FileOperation,
           Autosave, Over,
               run_state, vars
    <2>. QED BY <2>1, SamePanelsKeep
<1>11. CASE Crash
    BY <1>11 DEF Crash, NoPanel, Untold, PanelsOK, StopInv, ShownAsTold, is_running, Panels
<1>. QED BY <1>1, <1>2, <1>3, <1>4, <1>5, <1>6, <1>7, <1>8, <1>9, <1>10, <1>11 DEF Next

(***************************************************************************)
(* The document under the window's actions.                                *)
(***************************************************************************)

\* An idle window that closes saves, gives up half way or drops the draft as it goes.
LEMMA IdleCloseKeeps ==
    ASSUME DocumentInv, released = "open", NEW user_close, _accept_idle_close(user_close)
    PROVE  DocumentInv'
<1>1. CASE dirty /\ UNCHANGED <<document, released>>
    BY <1>1, UnchangedKeeps DEF DocumentInv
<1>2. CASE \E p \in Paths : save_half_done(p) \/ save_project(p)
    BY <1>2, SaveKeeps DEF DocumentInv
<1>3. CASE \E how \in {"asked", "unasked"} : _release_workspace(how)
    <2>1. released' # "open"
        BY <1>3 DEF _release_workspace
    <2>. QED BY <1>3, <2>1, ReleaseKeeps DEF DocumentInv
<1>. QED BY <1>1, <1>2, <1>3 DEF _accept_idle_close, asked_close

LEMMA SameDocumentKeeps ==
    ASSUME DocumentInv, UNCHANGED <<document, released>>
    PROVE  DocumentInv'
BY UnchangedKeeps DEF DocumentInv

\* A close of a window whose operation runs leaves the document alone.
LEMMA CloseLeaves ==
    ASSUME NEW user_close, closeEvent(user_close)
    PROVE  \/ UNCHANGED <<document, released>>
           \/ ~is_running /\ _accept_idle_close(user_close)
BY DEF closeEvent

LEMMA ClosesTouch ==
    ASSUME UserClose \/ Quit \/ ScheduledClose \/ AnswerExit \/ AnswerQuit
    PROVE  /\ released = "open"
           /\ UNCHANGED run_state
           /\ \/ UNCHANGED <<document, released>>
              \/ ~is_running /\ \E user_close \in {TRUE, resumed} : _accept_idle_close(user_close)
<1>1. CASE UserClose
    BY <1>1, CloseLeaves DEF UserClose, Attended
<1>2. CASE Quit
    BY <1>2, CloseLeaves DEF Quit, Attended, _accept_idle_close
<1>3. CASE ScheduledClose
    BY <1>3, CloseLeaves DEF ScheduledClose
<1>4. CASE AnswerExit
    BY <1>4 DEF AnswerExit
<1>5. CASE AnswerQuit
    BY <1>5 DEF AnswerQuit
<1>. QED BY <1>1, <1>2, <1>3, <1>4, <1>5

\* What only the panels and the close sequence do.
Elsewhere ==
    \/ start_fit \/ start_mcmc \/ Cancel \/ ForceStop \/ _toggle_pause \/ AnswerChain
    \/ close_cancel_deadline_reached \/ _force_prompt_finished \/ Over

LEMMA ElsewhereLeaves ==
    ASSUME Elsewhere
    PROVE  UNCHANGED <<document, released>>
BY DEF Elsewhere, start_fit, start_mcmc, _begin, Cancel, ForceStop, _toggle_pause, AnswerChain,
       close_cancel_deadline_reached, _resume_pending_close, _force_prompt_finished, Over, vars, closing

LEMMA DocumentStep ==
    ASSUME DocumentInv, Next
    PROVE  DocumentInv'
<1>1. CASE Elsewhere
    BY <1>1, ElsewhereLeaves, SameDocumentKeeps
<1>2. CASE JobEvent
    <2>1. CASE _publish_checkpoint \/ _publish_fit_result
        <3>1. adopt_operation_result(written) /\ UNCHANGED released
            BY <2>1 DEF _publish_checkpoint, _publish_fit_result, closing
        <3>2. adopt_operation_result(TRUE) \/ adopt_operation_result(FALSE)
            BY <3>1 DEF adopt_operation_result, _commit
        <3>. QED BY <3>1, <3>2, CommitKeeps DEF DocumentInv
    <2>2. CASE _publish_mcmc
        <3>1. UNCHANGED released /\ (replace_project \/ UNCHANGED document)
            BY <2>2 DEF _publish_mcmc, closing
        <3>. QED BY <3>1, CommitKeeps, SameDocumentKeeps DEF DocumentInv
    <2>3. CASE no_result \/ progress \/ _finish
        <3>1. UNCHANGED <<document, released>>
            BY <2>3 DEF no_result, progress, _finish, _resume_pending_close, closing
        <3>. QED BY <3>1, SameDocumentKeeps
    <2>. QED BY <1>2, <2>1, <2>2, <2>3 DEF JobEvent
<1>3. CASE UserClose \/ Quit \/ ScheduledClose \/ AnswerExit \/ AnswerQuit
    BY <1>3, ClosesTouch, IdleCloseKeeps, SameDocumentKeeps
<1>4. CASE Edit \/ ToggleMidRun \/ StepMidRun
    <2>1. UNCHANGED released
        BY <1>4 DEF Edit, ToggleMidRun, StepMidRun, closing
    <2>2. DocumentTypeOK' /\ FilesAgree' /\ DraftHolds'
        BY <1>4, CommitKeeps, StepKeeps DEF Edit, ToggleMidRun, StepMidRun, DocumentInv
    <2>. QED BY <2>1, <2>2 DEF DocumentInv
<1>5. CASE FileOperation
    <2>1. UNCHANGED released /\ released = "open"
        BY <1>5 DEF FileOperation, closing, _require_idle, Attended
    <2>2. DocumentTypeOK' /\ FilesAgree' /\ DraftHolds'
        BY <1>5, <2>1, SaveKeeps, ReplacementKeeps DEF FileOperation, DocumentInv
    <2>. QED BY <2>1, <2>2 DEF DocumentInv
<1>6. CASE Autosave
    BY <1>6, AutosaveKeeps DEF Autosave, closing, DocumentInv
<1>7. CASE Crash
    BY <1>7, ReplacementKeeps DEF Crash, DocumentInv
<1>. QED BY <1>1, <1>2, <1>3, <1>4, <1>5, <1>6, <1>7 DEF Next, Elsewhere

(***************************************************************************)
(* What a run writes.                                                      *)
(***************************************************************************)

LEMMA SameRunKeeps ==
    ASSUME RunInv, UNCHANGED <<project, undos, op, tip, source, twin, written, stepped>>, ended => ended'
    PROVE  RunInv'
BY DEF RunInv, RunIsOneStep, is_running

LEMMA RunStep ==
    ASSUME TypeOK, RunInv, Next
    PROVE  RunInv'
<1>1. CASE start_fit \/ start_mcmc
    BY <1>1 DEF start_fit, start_mcmc, _begin, document, RunInv, RunIsOneStep, is_running, TypeOK
<1>2. CASE _publish_checkpoint \/ _publish_fit_result
    <2>1. op = "fit" /\ op' = op /\ ~ended /\ UNCHANGED <<source, twin, stepped>>
        BY <1>2 DEF _publish_checkpoint, _publish_fit_result
    <2>2. /\ project' = fresh /\ tip' = fresh
          /\ undos' = IF written THEN undos ELSE Push(undos, project)
        BY <1>2 DEF _publish_checkpoint, _publish_fit_result, adopt_operation_result, _commit
    <2>3. ~stepped => /\ project = tip
                      /\ written => undos # <<>> /\ Top(undos) = source
                      /\ ~written => tip = source
        BY <2>1 DEF RunInv, RunIsOneStep, is_running
    <2>4. Push(undos, project) # <<>> /\ Top(Push(undos, project)) = project
        BY PushFacts DEF TypeOK, DocumentTypeOK
    <2>5. ~stepped => undos' # <<>> /\ Top(undos') = source
        BY <2>2, <2>3, <2>4
    <2>6. (_publish_checkpoint => written') /\ (_publish_fit_result => ended')
        BY DEF _publish_checkpoint, _publish_fit_result
    <2>. QED BY <1>2, <2>1, <2>2, <2>5, <2>6 DEF RunInv, RunIsOneStep, is_running, Top
<1>3. CASE _publish_mcmc
    <2>1. op = "mcmc" /\ op' = op /\ UNCHANGED <<source, twin, stepped>>
        BY <1>3 DEF _publish_mcmc
    <2>2. CASE project \in {source, twin}
        <3>1. project' = fresh /\ tip' = fresh /\ undos' = Push(undos, project)
            BY <1>3, <2>2 DEF _publish_mcmc, replace_project, _commit
        <3>2. Push(undos, project) # <<>> /\ Top(Push(undos, project)) = project
            BY PushFacts DEF TypeOK, DocumentTypeOK
        <3>3. ~stepped => project = source
            BY <2>1, <2>2 DEF RunInv, is_running
        <3>. QED BY <2>1, <3>1, <3>2, <3>3 DEF RunInv, RunIsOneStep, is_running, Top
    <2>3. CASE project \notin {source, twin}
        BY <1>3, <2>1, <2>3 DEF _publish_mcmc, document, RunInv, RunIsOneStep, is_running
    <2>. QED BY <2>2, <2>3
<1>4. CASE no_result \/ progress
    BY <1>4, SameRunKeeps DEF no_result, progress, document, run_state
<1>5. CASE _finish
    BY <1>5 DEF _finish, RunInv, RunIsOneStep, is_running
<1>6. CASE UserClose \/ Quit \/ ScheduledClose \/ AnswerExit \/ AnswerQuit
    <2>1. CASE UNCHANGED document
        <3>1. UNCHANGED run_state
            BY <1>6, ClosesTouch
        <3>. QED BY <2>1, <3>1, SameRunKeeps DEF document, run_state
    <2>2. CASE ~is_running
        BY <1>6, <2>2, ClosesTouch DEF run_state, RunInv, RunIsOneStep, is_running
    <2>. QED BY <1>6, <2>1, <2>2, ClosesTouch
<1>7. CASE Edit \/ FileOperation
    BY <1>7 DEF Edit, FileOperation, _require_idle, run_state, RunInv, RunIsOneStep, is_running
<1>8. CASE Autosave
    BY <1>8, SameRunKeeps DEF Autosave, autosave_now, run_state
<1>9. CASE Cancel \/ ForceStop \/ _toggle_pause \/ AnswerChain \/ Over
    BY <1>9, SameRunKeeps DEF Cancel, ForceStop, _toggle_pause, AnswerChain, Over, vars,
           document, run_state
<1>10. CASE close_cancel_deadline_reached \/ _force_prompt_finished
    BY <1>10, SameRunKeeps DEF close_cancel_deadline_reached, _force_prompt_finished,
           document, run_state
<1>11. CASE Crash
    BY <1>11 DEF Crash, RunInv, RunIsOneStep, is_running
<1>12. CASE ToggleMidRun \/ StepMidRun
    BY <1>12 DEF ToggleMidRun, StepMidRun, RunInv, RunIsOneStep
<1>. QED BY <1>1, <1>2, <1>3, <1>4, <1>5, <1>6, <1>7, <1>8, <1>9, <1>10, <1>11, <1>12
     DEF Next, JobEvent

(***************************************************************************)
(* The close sequence.                                                     *)
(***************************************************************************)

\* Asking a fit to stop leaves it cancelled, and asking never forgets.
LEMMA AskedFacts ==
    ASSUME TypeOK, request_cancel
    PROVE  /\ op = "fit" => cancelled'["fit"]
           /\ cancelled["fit"] => cancelled'["fit"]
           /\ job'.force = job.force
<1>. USE DEF TypeOK, Panels
<1>1. CASE \E panel \in Panels : can_request_stop(panel) /\ tell_cancel(panel)
    <2>1. PICK panel \in Panels : can_request_stop(panel) /\ tell_cancel(panel)
        BY <1>1
    <2>2. op = panel /\ cancelled' = [cancelled EXCEPT ![panel] = TRUE]
        BY <2>1 DEF can_request_stop, tell_cancel
    <2>3. cancelled'[panel] /\ \A q \in Panels : cancelled[q] => cancelled'[q]
        BY <2>2
    <2>4. job' \in {job, [job EXCEPT !.cancel = TRUE]}
        BY <2>1 DEF tell_cancel
    <2>5. job'.force = job.force
        BY <2>4
    <2>. QED BY <2>2, <2>3, <2>5
<1>2. CASE UNCHANGED panels /\ (op = "fit" => cancelled["fit"])
    BY <1>2 DEF panels
<1>3. can_request_stop("mcmc") => op = "mcmc"
    BY DEF can_request_stop
<1>4. (\A panel \in Panels : ~can_request_stop(panel)) => (op = "fit" => cancelled["fit"])
    BY DEF can_request_stop
<1>. QED BY <1>1, <1>2, <1>3, <1>4 DEF request_cancel

\* Forcing forces whatever runs, but for a fit that was never asked to stop.
LEMMA ForcedFacts ==
    ASSUME TypeOK, StopInv, request_force_stop
    PROVE  /\ cancelled["fit"] => cancelled'["fit"]
           /\ job.force => job'.force
           /\ is_running => job'.force \/ (op = "fit" /\ ~cancelled["fit"])
           /\ ~is_running => job' = job
<1>. USE DEF TypeOK, Panels
<1>1. CASE \E panel \in Panels : can_force_stop(panel) /\ tell_force(panel)
    <2>1. PICK panel \in Panels : can_force_stop(panel) /\ tell_force(panel)
        BY <1>1
    <2>2. /\ op = panel /\ cancelled' = [cancelled EXCEPT ![panel] = TRUE]
          /\ job' = [job EXCEPT !.force = TRUE]
        BY <2>1 DEF can_force_stop, tell_force
    <2>3. \A q \in Panels : cancelled[q] => cancelled'[q]
        BY <2>2
    <2>4. job'.force
        BY <2>2
    <2>. QED BY <2>2, <2>3, <2>4 DEF is_running
<1>2. CASE UNCHANGED panels /\ \A panel \in Panels : ~can_force_stop(panel)
    BY <1>2 DEF panels, can_force_stop, StopInv, ShownAsTold, is_running
<1>. QED BY <1>1, <1>2 DEF request_force_stop

\* A close, or an answer to the question it asked, either leaves the wait as it
\* is or begins it with the deadline running and the operation asked to stop.
LEMMA CloseWaits ==
    ASSUME TypeOK, UserClose \/ Quit \/ ScheduledClose \/ AnswerExit \/ AnswerQuit
    PROVE  /\ UNCHANGED prompt
           /\ \/ UNCHANGED <<pending, deadline, panels>>
              \/ pending' = TRUE /\ deadline' = TRUE /\ request_cancel
BY DEF UserClose, Quit, ScheduledClose, AnswerExit, AnswerQuit, closeEvent, start_close,
       waits_already

LEMMA CloseReleases ==
    ASSUME CloseInv, UserClose \/ Quit \/ ScheduledClose \/ AnswerExit \/ AnswerQuit
    PROVE  /\ CloseIsSafe'
           /\ (scheduled /\ released = "open" /\ excuse = "none" => resumed)'
<1>. USE DEF CloseInv, CloseIsSafe, is_running, run_state
<1>1. CASE UserClose
    BY <1>1 DEF UserClose, Attended, closeEvent, _accept_idle_close, asked_close, _release_workspace
<1>2. CASE Quit
    BY <1>2 DEF Quit, Attended, closeEvent, _accept_idle_close, asked_close, _release_workspace
<1>3. CASE ScheduledClose
    BY <1>3 DEF ScheduledClose, closeEvent, _accept_idle_close, asked_close, _release_workspace
<1>4. CASE AnswerExit
    BY <1>4 DEF AnswerExit
<1>5. CASE AnswerQuit
    BY <1>5 DEF AnswerQuit, _accept_idle_close, asked_close, _release_workspace
<1>. QED BY <1>1, <1>2, <1>3, <1>4, <1>5

\* A step that leaves the close sequence and the operation alone, in a window still open.
LEMMA SameCloseKeeps ==
    ASSUME CloseInv, released = "open", UNCHANGED <<op, late, closing>>,
           cancelled["fit"] => cancelled'["fit"], job'.force = job.force
    PROVE  CloseInv'
BY DEF CloseInv, CloseIsSafe, WaitingHasAnEnd, is_running, closing

LEMMA CloseStep ==
    ASSUME TypeOK, StopInv, CloseInv, Next
    PROVE  CloseInv'
<1>1. CASE start_fit \/ start_mcmc
    <2>1. /\ op = "none" /\ op' \in Panels /\ late' = pending /\ released = "open" /\ job' = Untold
          /\ UNCHANGED closing
        BY <1>1 DEF start_fit, start_mcmc, _begin, _require_idle, Attended, is_running, Panels
    <2>2. pending => deadline
        BY <2>1 DEF CloseInv, WaitingHasAnEnd, is_running
    <2>. QED BY <2>1, <2>2 DEF CloseInv, CloseIsSafe, WaitingHasAnEnd, is_running, closing, Panels
<1>2. CASE Cancel \/ AnswerChain
    <2>1. /\ released = "open"
          /\ UNCHANGED <<op, late, pending, deadline, prompt, resumed, scheduled, released, excuse>>
        BY <1>2 DEF Cancel, AnswerChain, Attended, run_state
    <2>2. (cancelled["fit"] => cancelled'["fit"]) /\ job'.force = job.force
        <3>1. CASE Cancel
            BY <3>1, AskedFacts DEF Cancel
        <3>2. CASE AnswerChain /\ UNCHANGED panels
            BY <3>2 DEF panels
        <3>3. CASE tell_cancel("mcmc")
            <4>1. cancelled'["fit"] = cancelled["fit"]
                BY <3>3 DEF tell_cancel, TypeOK, Panels
            <4>2. job' \in {job, [job EXCEPT !.cancel = TRUE]}
                BY <3>3 DEF tell_cancel
            <4>3. job'.force = job.force
                BY <4>2 DEF TypeOK
            <4>. QED BY <4>1, <4>3
        <3>. QED BY <1>2, <3>1, <3>2, <3>3 DEF AnswerChain
    <2>. QED BY <2>1, <2>2 DEF CloseInv, CloseIsSafe, WaitingHasAnEnd, is_running
<1>3. CASE ForceStop
    <2>1. released = "open" /\ op # "none" /\ UNCHANGED <<op, late, closing>>
        BY <1>3 DEF ForceStop, Attended, run_state, can_force_stop, Panels
    <2>2. (cancelled["fit"] => cancelled'["fit"]) /\ (job.force => job'.force)
        BY <1>3, ForcedFacts DEF ForceStop
    <2>. QED BY <2>1, <2>2 DEF CloseInv, CloseIsSafe, WaitingHasAnEnd, is_running, closing
<1>4. CASE _toggle_pause
    <2>1. released = "open" /\ UNCHANGED <<op, late, closing, cancelled>>
        BY <1>4 DEF _toggle_pause, Attended, run_state
    <2>2. job'.force = job.force
        BY <1>4 DEF _toggle_pause, TypeOK
    <2>. QED BY <2>1, <2>2, SameCloseKeeps
<1>5. CASE JobEvent
    <2>1. CASE _publish_checkpoint \/ _publish_fit_result \/ _publish_mcmc \/ no_result \/ progress
        <3>1. UNCHANGED <<op, late, panels, closing>>
            BY <2>1 DEF _publish_checkpoint, _publish_fit_result, _publish_mcmc, no_result,
                   progress, run_state
        <3>. QED BY <1>5, <3>1, SameCloseKeeps DEF JobEvent, panels
    <2>2. CASE _finish
        <3>1. op' = "none" /\ job' = Untold /\ released = "open" /\ released' = released /\ excuse' = excuse
            BY <1>5, <2>2 DEF JobEvent, _finish, _resume_pending_close, closing
        <3>2. ~pending' /\ ~prompt'
            BY <2>2 DEF _finish, _resume_pending_close, closing, CloseInv
        <3>3. ~job'.force
            BY <3>1 DEF Untold
        <3>4. scheduled' => resumed' \/ (scheduled /\ resumed' = resumed)
            BY <2>2 DEF _finish, _resume_pending_close, closing
        <3>. QED BY <3>1, <3>2, <3>3, <3>4 DEF CloseInv, CloseIsSafe, WaitingHasAnEnd, is_running
    <2>. QED BY <1>5, <2>1, <2>2 DEF JobEvent
<1>6. CASE UserClose \/ Quit \/ ScheduledClose \/ AnswerExit \/ AnswerQuit
    <2>1. UNCHANGED <<op, late>> /\ released = "open"
        BY <1>6, ClosesTouch DEF run_state
    <2>2. UNCHANGED prompt /\ (\/ UNCHANGED <<pending, deadline, panels>>
                               \/ pending' = TRUE /\ deadline' = TRUE /\ request_cancel)
        BY <1>6, CloseWaits
    <2>3. CASE UNCHANGED <<pending, deadline, panels>>
        BY <1>6, <2>1, <2>2, <2>3, CloseReleases DEF CloseInv, WaitingHasAnEnd, is_running, panels
    <2>4. CASE pending' = TRUE /\ deadline' = TRUE /\ request_cancel
        <3>1. (op = "fit" => cancelled'["fit"]) /\ job'.force = job.force
            BY <2>4, AskedFacts
        <3>. QED BY <1>6, <2>1, <2>2, <2>4, <3>1, CloseReleases DEF CloseInv, WaitingHasAnEnd, is_running
    <2>. QED BY <2>2, <2>3, <2>4
<1>7. CASE close_cancel_deadline_reached
    <2>1. UNCHANGED <<op, late, panels, released, excuse>> /\ released = "open"
        BY <1>7 DEF close_cancel_deadline_reached, run_state, _resume_pending_close, closing
    <2>2. CASE ~pending \/ prompt
        BY <1>7, <2>1, <2>2 DEF close_cancel_deadline_reached, CloseInv, CloseIsSafe,
               WaitingHasAnEnd, is_running, panels
    <2>3. CASE ~(~pending \/ prompt) /\ ~is_running
        BY <1>7, <2>1, <2>3 DEF close_cancel_deadline_reached, _resume_pending_close, CloseInv,
               CloseIsSafe, WaitingHasAnEnd, is_running, panels
    <2>4. CASE ~(~pending \/ prompt) /\ is_running
        BY <1>7, <2>1, <2>4 DEF close_cancel_deadline_reached, CloseInv, CloseIsSafe,
               WaitingHasAnEnd, is_running, panels
    <2>. QED BY <2>2, <2>3, <2>4
<1>8. CASE _force_prompt_finished
    <2>1. /\ UNCHANGED <<op, late, resumed, scheduled, released, excuse>>
          /\ released = "open" /\ prompt /\ prompt' = FALSE
        BY <1>8 DEF _force_prompt_finished, run_state
    <2>2. is_running
        BY <2>1 DEF CloseInv
    <2>3. CASE pending /\ request_force_stop /\ UNCHANGED <<pending, deadline>>
        <3>1. /\ cancelled["fit"] => cancelled'["fit"]
              /\ job'.force \/ (op = "fit" /\ ~cancelled["fit"])
            BY <2>2, <2>3, ForcedFacts
        <3>. QED BY <2>1, <2>2, <2>3, <3>1 DEF CloseInv, CloseIsSafe, WaitingHasAnEnd, is_running
    <2>4. CASE pending' = FALSE /\ deadline' = FALSE /\ UNCHANGED panels
        BY <2>1, <2>2, <2>4 DEF CloseInv, CloseIsSafe, WaitingHasAnEnd, is_running, panels
    <2>. QED BY <1>8, <2>3, <2>4 DEF _force_prompt_finished
<1>9. CASE Edit \/ ToggleMidRun \/ StepMidRun \/ FileOperation \/ Autosave
    <2>1. released = "open" /\ UNCHANGED <<op, late, panels, closing>>
        BY <1>9 DEF Edit, ToggleMidRun, StepMidRun, FileOperation, Autosave, _require_idle, Attended, run_state
    <2>. QED BY <2>1, SameCloseKeeps DEF panels
<1>10. CASE Crash
    <2>1. ~job'.force
        BY <1>10 DEF Crash, Untold
    <2>. QED BY <1>10, <2>1 DEF Crash, CloseInv, CloseIsSafe, WaitingHasAnEnd, is_running
<1>11. CASE UNCHANGED vars
    BY <1>11 DEF vars, document, run_state, panels, closing, CloseInv, CloseIsSafe,
           WaitingHasAnEnd, is_running
<1>. QED BY <1>1, <1>2, <1>3, <1>4, <1>5, <1>6, <1>7, <1>8, <1>9, <1>10, <1>11 DEF Next, Over

(***************************************************************************)
(* Progress frames: what a batch shows of its events, by induction over    *)
(* the events.                                                             *)
(***************************************************************************)

Events == [key : {"a", "b", "durable"}, stage : {0, 1, 2}, at : Nat]
Batches == [shown : Seq(Events), waiting : Seq(Events)]

\* What is shown and what waits, as sets.
Held(acc) == {acc.shown[i] : i \in DOMAIN acc.shown} \cup {acc.waiting[i] : i \in DOMAIN acc.waiting}

\* What is shown after k events is in order, what waits comes after it, and
\* what is in neither gave way to a later frame of its dataset and stage.
Placed(events, k, acc) == \A x \in Held(acc) : x.at \in 1 .. k /\ x = events[x.at]
InReach(events, k, acc) ==
    \A i \in DOMAIN acc.waiting : \A m \in acc.waiting[i].at .. k : events[m].key # "durable"
OneEach(acc) == \A i, j \in DOMAIN acc.waiting : acc.waiting[i].key = acc.waiting[j].key => i = j
ShownInOrder(acc) ==
    \A i, j \in DOMAIN acc.shown :
      i < j /\ (acc.shown[i].key = acc.shown[j].key \/ "durable" \in {acc.shown[i].key, acc.shown[j].key})
        => acc.shown[i].at < acc.shown[j].at
WaitsBehind(acc) ==
    \A i \in DOMAIN acc.shown, j \in DOMAIN acc.waiting :
      acc.shown[i].key \in {acc.waiting[j].key, "durable"} => acc.shown[i].at < acc.waiting[j].at
Covered(events, k, acc) ==
    \A m \in 1 .. k : \E x \in Held(acc) :
      \/ x.at = m
      \/ /\ x.at > m /\ x.key = events[m].key /\ x.stage = events[m].stage
         /\ \A l \in m .. x.at : events[l].key # "durable"

Coalesced(events, k, acc) ==
    /\ acc \in Batches
    /\ Placed(events, k, acc) /\ Covered(events, k, acc)
    /\ InReach(events, k, acc) /\ OneEach(acc)
    /\ ShownInOrder(acc) /\ WaitsBehind(acc)

\* A sequence of numbered events.
Batch(events) ==
    /\ events \in Seq(Events)
    /\ \A i \in DOMAIN events : events[i].at = i

\* Before it is shown, what waits is put behind what was shown: in order.
LEMMA AllShown ==
    ASSUME NEW events, NEW k, NEW acc, Coalesced(events, k, acc)
    PROVE  LET all == acc.shown \o acc.waiting IN
           /\ all \in Seq(Events)
           /\ \A x : (\E i \in DOMAIN all : all[i] = x) <=> x \in Held(acc)
           /\ \A i, j \in DOMAIN all :
                i < j /\ (all[i].key = all[j].key \/ "durable" \in {all[i].key, all[j].key})
                  => all[i].at < all[j].at
<1> DEFINE all == acc.shown \o acc.waiting
           n == Len(acc.shown)
           m == Len(acc.waiting)
<1>0. acc \in Batches  BY DEF Coalesced
<1>1. /\ acc.shown \in Seq(Events) /\ acc.waiting \in Seq(Events) /\ n \in Nat /\ m \in Nat
      /\ DOMAIN acc.shown = 1 .. n /\ DOMAIN acc.waiting = 1 .. m
  BY <1>0 DEF Batches
<1>2. /\ all \in Seq(Events) /\ DOMAIN all = 1 .. n + m
      /\ \A i \in 1 .. n : all[i] = acc.shown[i]
      /\ \A i \in 1 .. m : all[n + i] = acc.waiting[i]
      /\ \A i \in 1 .. n + m : i \in 1 .. n \/ \E l \in 1 .. m : i = n + l
  <2> DEFINE T == Events
             s == acc.shown
             t == acc.waiting
  <2>1. s \in Seq(T) /\ t \in Seq(T)  BY <1>1
  <2> HIDE DEF T, s, t
  <2>2. /\ s \o t \in Seq(T) /\ DOMAIN (s \o t) = 1 .. Len(s) + Len(t)
        /\ \A i \in 1 .. Len(s) : (s \o t)[i] = s[i]
        /\ \A l \in 1 .. Len(t) : (s \o t)[Len(s) + l] = t[l]
        /\ \A i \in 1 .. Len(s) + Len(t) :
             i \in 1 .. Len(s) \/ \E l \in 1 .. Len(t) : i = Len(s) + l
    BY <2>1, Joined
  <2> QED BY <2>2 DEF T, s, t
<1> HIDE DEF all, n, m
<1>3. \A i \in 1 .. m : acc.waiting[i].key # "durable"
  <2> SUFFICES ASSUME NEW i \in 1 .. m PROVE acc.waiting[i].key # "durable"
    OBVIOUS
  <2> DEFINE x == acc.waiting[i]
  <2>1. x \in Held(acc)  BY <1>1 DEF Held
  <2>2. x.at \in 1 .. k /\ x = events[x.at]  BY <2>1 DEF Coalesced, Placed
  <2>3. x \in Events  BY <1>1
  <2>4. x.at \in Nat
    <3> HIDE DEF x
    <3> QED BY <2>3 DEF Events
  <2>5. \A l \in x.at .. k : events[l].key # "durable"  BY <1>1 DEF Coalesced, InReach
  <2> HIDE DEF x
  <2>6. x.at \in x.at .. k  BY <2>2, <2>4
  <2> QED BY <2>2, <2>5, <2>6 DEF x
<1>4. \A x : (\E i \in DOMAIN all : all[i] = x) <=> x \in Held(acc)
  <2> TAKE x
  <2>1. ASSUME NEW i \in DOMAIN all, all[i] = x PROVE x \in Held(acc)
    <3>1. CASE i \in 1 .. n  BY <1>1, <1>2, <2>1, <3>1 DEF Held
    <3>2. CASE \E l \in 1 .. m : i = n + l  BY <1>1, <1>2, <2>1, <3>2 DEF Held
    <3> QED BY <1>2, <3>1, <3>2
  <2>2. ASSUME x \in Held(acc) PROVE \E i \in DOMAIN all : all[i] = x
    <3>1. CASE \E i \in 1 .. n : x = acc.shown[i]
      <4>1. PICK i \in 1 .. n : x = acc.shown[i]  BY <3>1
      <4>2. i \in 1 .. n + m  BY <1>1
      <4> QED BY <1>2, <4>1, <4>2
    <3>2. CASE \E i \in 1 .. m : x = acc.waiting[i]
      <4>1. PICK i \in 1 .. m : x = acc.waiting[i]  BY <3>2
      <4>2. n + i \in 1 .. n + m  BY <1>1
      <4> QED BY <1>2, <4>1, <4>2
    <3> QED BY <1>1, <2>2, <3>1, <3>2 DEF Held
  <2> QED BY <2>1, <2>2
<1>5. ASSUME NEW i \in DOMAIN all, NEW j \in DOMAIN all, i < j,
             all[i].key = all[j].key \/ "durable" \in {all[i].key, all[j].key}
      PROVE  all[i].at < all[j].at
  <2>0. i \in Nat /\ j \in Nat  BY <1>1, <1>2
  <2>1. CASE i \in 1 .. n /\ j \in 1 .. n
    BY <1>1, <1>2, <1>5, <2>1 DEF Coalesced, ShownInOrder
  <2>2. CASE i \in 1 .. n /\ \E l \in 1 .. m : j = n + l
    <3>1. PICK l \in 1 .. m : j = n + l  BY <2>2
    <3>2. all[i] = acc.shown[i] /\ all[j] = acc.waiting[l]  BY <1>2, <2>2, <3>1
    <3>3. acc.shown[i].key \in {acc.waiting[l].key, "durable"}
      BY <1>3, <1>5, <3>2
    <3> QED BY <1>1, <2>2, <3>2, <3>3 DEF Coalesced, WaitsBehind
  <2>3. CASE \E l \in 1 .. m : i = n + l
    <3>1. PICK l \in 1 .. m : i = n + l  BY <2>3
    <3>2. j \notin 1 .. n  BY <1>1, <1>5, <2>0, <3>1
    <3>3. PICK o \in 1 .. m : j = n + o  BY <1>2, <3>2
    <3>4. all[i] = acc.waiting[l] /\ all[j] = acc.waiting[o]  BY <1>2, <3>1, <3>3
    <3>5. acc.waiting[l].key = acc.waiting[o].key  BY <1>3, <1>5, <3>4
    <3>6. l = o  BY <1>1, <3>5 DEF Coalesced, OneEach
    <3> QED BY <1>1, <1>5, <3>1, <3>3, <3>6
  <2> QED BY <1>2, <2>1, <2>2, <2>3
<1> QED BY <1>2, <1>4, <1>5 DEF all

\* No event is lost: what is no longer held gave way to the newest one.
LEMMA Newest ==
    ASSUME NEW events, Batch(events), NEW k \in Nat, k + 1 \in DOMAIN events,
           NEW acc, Coalesced(events, k, acc), NEW new,
           Held(new) \subseteq Held(acc) \cup {events[k + 1]}, events[k + 1] \in Held(new),
           \A x \in Held(acc) : \/ x \in Held(new)
                                \/ /\ x.key = events[k + 1].key /\ x.stage = events[k + 1].stage
                                   /\ \A l \in x.at .. k + 1 : events[l].key # "durable"
    PROVE  Placed(events, k + 1, new) /\ Covered(events, k + 1, new)
<1> DEFINE e == events[k + 1]
<1>1. e.at = k + 1  BY DEF Batch
<1>2. \A x \in Held(acc) : x.at \in 1 .. k /\ x = events[x.at]
  BY DEF Coalesced, Placed
<1>3. \A x \in Held(new) : x.at \in 1 .. k + 1 /\ x = events[x.at]
  <2> TAKE x \in Held(new)
  <2>1. CASE x = e  BY <1>1, <2>1
  <2>2. CASE x \in Held(acc)  BY <1>2, <2>2
  <2> QED BY <2>1, <2>2
<1>4. ASSUME NEW m \in 1 .. k + 1
      PROVE  \E x \in Held(new) :
                \/ x.at = m
                \/ /\ x.at > m /\ x.key = events[m].key /\ x.stage = events[m].stage
                   /\ \A l \in m .. x.at : events[l].key # "durable"
  <2>1. CASE m = k + 1  BY <1>1, <2>1
  <2>2. CASE m # k + 1
    <3>1. m \in 1 .. k  BY <2>2
    <3>2. PICK x \in Held(acc) :
            \/ x.at = m
            \/ /\ x.at > m /\ x.key = events[m].key /\ x.stage = events[m].stage
               /\ \A l \in m .. x.at : events[l].key # "durable"
      BY <3>1 DEF Coalesced, Covered
    <3>3. CASE x \in Held(new)  BY <3>2, <3>3
    <3>4. CASE x \notin Held(new)
      <4>1. /\ x.key = e.key /\ x.stage = e.stage
            /\ \A l \in x.at .. k + 1 : events[l].key # "durable"
        BY <3>4
      <4>2. x.at \in 1 .. k /\ x = events[x.at]  BY <1>2
      <4>3. e.at > m  BY <1>1, <3>1
      <4>4. e.key = events[m].key /\ e.stage = events[m].stage
        BY <3>2, <4>1, <4>2
      <4>5. \A l \in m .. e.at : events[l].key # "durable"
        <5> TAKE l \in m .. e.at
        <5>1. l \in m .. k + 1  BY <1>1
        <5>2. CASE x.at = m  BY <4>1, <5>1, <5>2
        <5>3. CASE x.at # m
          <6>1. l \in m .. x.at \/ l \in x.at .. k + 1  BY <4>2, <5>1
          <6> QED BY <3>2, <4>1, <5>3, <6>1
        <5> QED BY <5>2, <5>3
      <4> HIDE DEF e
      <4> QED BY <4>3, <4>4, <4>5 DEF e
    <3> QED BY <3>3, <3>4
  <2> QED BY <2>1, <2>2
<1> QED BY <1>3, <1>4 DEF Placed, Covered

\* What is known of one batch.
LEMMA Coalescing ==
    ASSUME NEW events, NEW k, NEW acc, Coalesced(events, k, acc)
    PROVE  /\ acc.shown \in Seq(Events) /\ acc.waiting \in Seq(Events)
           /\ Len(acc.shown) \in Nat /\ Len(acc.waiting) \in Nat
           /\ DOMAIN acc.shown = 1 .. Len(acc.shown)
           /\ DOMAIN acc.waiting = 1 .. Len(acc.waiting)
           /\ \A x \in Held(acc) : x.at \in 1 .. k /\ x = events[x.at]
BY DEF Coalesced, Batches, Placed

\* A durable event waits for all frames before it.
LEMMA DurableKeeps ==
    ASSUME NEW events, Batch(events), NEW k \in Nat, k + 1 \in DOMAIN events,
           NEW acc, Coalesced(events, k, acc), events[k + 1].key = "durable"
    PROVE  Coalesced(events, k + 1, dispatch(acc, events[k + 1]))
<1> DEFINE e == events[k + 1]
           all == acc.shown \o acc.waiting
           more == Append(all, e)
           new == dispatch(acc, e)
<1>1. new = [shown |-> more, waiting |-> <<>>]  BY DEF dispatch
<1>2. e \in Events /\ e.at = k + 1  BY DEF Batch
<1>3. /\ all \in Seq(Events)
      /\ \A x : (\E i \in DOMAIN all : all[i] = x) <=> x \in Held(acc)
      /\ \A i, j \in DOMAIN all :
           i < j /\ (all[i].key = all[j].key \/ "durable" \in {all[i].key, all[j].key})
             => all[i].at < all[j].at
  BY AllShown
<1> HIDE DEF all
<1> DEFINE n == Len(all)
<1>4. /\ more \in Seq(Events) /\ DOMAIN more = 1 .. n + 1 /\ n \in Nat
      /\ \A i \in 1 .. n : more[i] = all[i]
      /\ more[n + 1] = e /\ DOMAIN all = 1 .. n
  BY <1>2, <1>3, Appended
<1> HIDE DEF e, more, new
<1>5. new.shown = more /\ new.waiting = <<>> /\ DOMAIN new.waiting = {}
      /\ new \in Batches
  BY <1>1, <1>4 DEF Batches
<1> HIDE DEF n
<1>6. Held(new) = Held(acc) \cup {e}
  <2>1. \A x : x \in Held(new) <=> \E i \in DOMAIN more : more[i] = x
    BY <1>5 DEF Held
  <2>2. ASSUME NEW x \in Held(new) PROVE x \in Held(acc) \cup {e}
    <3>1. PICK i \in DOMAIN more : more[i] = x  BY <2>1
    <3>2. i \in 1 .. n \/ i = n + 1  BY <1>4
    <3> QED BY <1>3, <1>4, <3>1, <3>2
  <2>3. e \in Held(new)
    <3>1. n + 1 \in DOMAIN more  BY <1>4
    <3> QED BY <1>4, <2>1, <3>1
  <2>4. ASSUME NEW x \in Held(acc) PROVE x \in Held(new)
    <3>1. PICK i \in DOMAIN all : all[i] = x  BY <1>3
    <3>2. i \in DOMAIN more /\ more[i] = x  BY <1>4, <3>1
    <3> QED BY <2>1, <3>2
  <2> QED BY <2>2, <2>3, <2>4
<1>7. Placed(events, k + 1, new) /\ Covered(events, k + 1, new)
  BY <1>6, Newest DEF e
<1>8. ASSUME NEW i \in DOMAIN more, NEW j \in DOMAIN more, i < j,
             more[i].key = more[j].key \/ "durable" \in {more[i].key, more[j].key}
      PROVE  more[i].at < more[j].at
  <2>1. i \in 1 .. n  BY <1>4, <1>8
  <2>2. CASE j \in 1 .. n  BY <1>3, <1>4, <1>8, <2>1, <2>2
  <2>3. CASE j = n + 1
    <3>1. more[i] \in Held(acc)  BY <1>3, <1>4, <2>1
    <3>2. more[i].at \in 1 .. k  BY <3>1 DEF Coalesced, Placed
    <3> QED BY <1>2, <1>4, <2>3, <3>2
  <2> QED BY <1>4, <2>2, <2>3
<1>9. /\ ShownInOrder(new) /\ WaitsBehind(new) /\ OneEach(new) /\ InReach(events, k + 1, new)
  BY <1>5, <1>8 DEF ShownInOrder, WaitsBehind, OneEach, InReach
<1>10. Coalesced(events, k + 1, new)
  BY <1>5, <1>7, <1>9 DEF Coalesced
<1> QED BY <1>10 DEF new, e

\* A dataset that left a stage shows the frames of it first.
LEMMA StageKeeps ==
    ASSUME NEW events, Batch(events), NEW k \in Nat, k + 1 \in DOMAIN events,
           NEW acc, Coalesced(events, k, acc), events[k + 1].key # "durable"
    PROVE  Coalesced(events, k + 1,
                     [shown |-> acc.shown \o acc.waiting, waiting |-> <<events[k + 1]>>])
<1> DEFINE e == events[k + 1]
           all == acc.shown \o acc.waiting
           new == [shown |-> all, waiting |-> <<e>>]
<1>2. e \in Events /\ e.at = k + 1  BY DEF Batch
<1>3. /\ all \in Seq(Events)
      /\ \A x : (\E i \in DOMAIN all : all[i] = x) <=> x \in Held(acc)
      /\ \A i, j \in DOMAIN all :
           i < j /\ (all[i].key = all[j].key \/ "durable" \in {all[i].key, all[j].key})
             => all[i].at < all[j].at
  BY AllShown
<1>4. new = [shown |-> all, waiting |-> <<e>>]  OBVIOUS
<1> HIDE DEF all, e, new
<1>5. /\ new.shown = all /\ new.waiting = <<e>> /\ DOMAIN new.waiting = {1} /\ new.waiting[1] = e
      /\ new \in Batches
  <2> DEFINE T == Events
  <2>1. e \in T  BY <1>2
  <2> HIDE DEF T
  <2>2. <<e>> \in Seq(T) /\ DOMAIN <<e>> = {1} /\ <<e>>[1] = e  BY <2>1
  <2>3. new.shown = all /\ new.waiting = <<e>>  BY <1>4
  <2>4. new \in Batches  BY <1>3, <1>4, <2>2 DEF T, Batches
  <2> QED BY <2>2, <2>3, <2>4
<1>6. Held(new) = Held(acc) \cup {e}
  <2>1. \A x : x \in Held(new) <=> (\E i \in DOMAIN all : all[i] = x) \/ x = e
    BY <1>5 DEF Held
  <2> QED BY <1>3, <2>1
<1>7. Placed(events, k + 1, new) /\ Covered(events, k + 1, new)
  <2>1. /\ Held(new) \subseteq Held(acc) \cup {events[k + 1]} /\ events[k + 1] \in Held(new)
        /\ \A x \in Held(acc) : x \in Held(new)
    BY <1>6 DEF e
  <2> QED BY <2>1, Newest
<1>8. \A m \in e.at .. k + 1 : events[m].key # "durable"
  BY <1>2 DEF e
<1>9. \A i \in DOMAIN all : all[i].at < e.at
  <2> TAKE i \in DOMAIN all
  <2>1. all[i] \in Held(acc)  BY <1>3
  <2>2. all[i].at \in 1 .. k  BY <2>1 DEF Coalesced, Placed
  <2> QED BY <1>2, <2>2
<1>10. /\ ShownInOrder(new) /\ WaitsBehind(new) /\ OneEach(new) /\ InReach(events, k + 1, new)
  BY <1>3, <1>5, <1>8, <1>9 DEF ShownInOrder, WaitsBehind, OneEach, InReach
<1>11. Coalesced(events, k + 1, new)
  BY <1>5, <1>7, <1>10 DEF Coalesced
<1> QED BY <1>11 DEF new, all, e

\* A frame takes the place of the one before it of its dataset and stage.
LEMMA PutKeeps ==
    ASSUME NEW events, Batch(events), NEW k \in Nat, k + 1 \in DOMAIN events,
           NEW acc, Coalesced(events, k, acc), events[k + 1].key # "durable",
           \A i \in DOMAIN acc.waiting :
              acc.waiting[i].key = events[k + 1].key => acc.waiting[i].stage = events[k + 1].stage
    PROVE  Coalesced(events, k + 1, [acc EXCEPT !.waiting = put(@, events[k + 1])])
<1> DEFINE new == [acc EXCEPT !.waiting = put(@, events[k + 1])]
           e == events[k + 1]
           old == acc.waiting
           held == put(old, e)
           n == Len(old)
<1>2. e \in Events /\ e.at = k + 1  BY DEF Batch
<1>3. /\ acc.shown \in Seq(Events) /\ old \in Seq(Events) /\ n \in Nat
      /\ DOMAIN old = 1 .. n
      /\ \A i \in 1 .. n : old[i] \in Held(acc)
      /\ \A i \in DOMAIN acc.shown : acc.shown[i] \in Held(acc)
      /\ \A x \in Held(acc) : x.at \in 1 .. k /\ x = events[x.at]
  BY Coalescing DEF Held
<1>4. acc = [shown |-> acc.shown, waiting |-> old]
  BY DEF Coalesced, Batches
<1>5. new.shown = acc.shown /\ new.waiting = held
      /\ new = [shown |-> acc.shown, waiting |-> held]
  BY <1>4
<1> HIDE DEF new
<1>6. \A i, j \in 1 .. n : old[i].key = old[j].key => i = j
  BY <1>3 DEF Coalesced, OneEach
<1>7. \A i \in 1 .. n : \A m \in old[i].at .. k : events[m].key # "durable"
  BY <1>3 DEF Coalesced, InReach
<1>8. \A i \in DOMAIN acc.shown, j \in 1 .. n :
         acc.shown[i].key \in {old[j].key, "durable"} => acc.shown[i].at < old[j].at
  BY <1>3 DEF Coalesced, WaitsBehind
\* What waits after the step: the new event in one place, the rest as it was.
<1>9. /\ held \in Seq(Events)
      /\ \A i \in DOMAIN held : held[i] = e \/ \E j \in 1 .. n : held[i] = old[j] /\ i = j
      /\ \E i \in DOMAIN held : held[i] = e
      /\ \A i \in 1 .. n : i \in DOMAIN held /\ (held[i] = old[i] \/ old[i].key = e.key)
      /\ \A i, j \in DOMAIN held : held[i].key = held[j].key => i = j
  <2>1. CASE \E i \in 1 .. n : old[i].key = e.key
    <3>1. held = [i \in 1 .. n |-> IF old[i].key = e.key THEN e ELSE old[i]]
      BY <1>3, <2>1 DEF put
    <3> HIDE DEF held, e, n
    <3>2. \A i \in 1 .. n : old[i] \in Events  BY <1>3
    <3> HIDE DEF old
    <3>3. held \in Seq(Events)  BY <1>2, <1>3, <3>1, <3>2
    <3>4. DOMAIN held = 1 .. n /\ \A i \in 1 .. n : held[i] = IF old[i].key = e.key THEN e ELSE old[i]
      BY <3>1
    <3>5. \A i, j \in DOMAIN held : held[i].key = held[j].key => i = j
      BY <1>6, <3>4
    <3> QED BY <2>1, <3>3, <3>4, <3>5
  <2>2. CASE \A i \in 1 .. n : old[i].key # e.key
    <3>1. held = Append(old, e)  BY <1>3, <2>2 DEF put
    <3>2. /\ held \in Seq(Events) /\ DOMAIN held = 1 .. n + 1
          /\ \A i \in 1 .. n : held[i] = old[i]
          /\ held[n + 1] = e
      <4> DEFINE T == Events
      <4>1. old \in Seq(T) /\ e \in T  BY <1>2, <1>3
      <4> HIDE DEF T, old, e, held
      <4> QED BY <3>1, <4>1, Appended DEF T
    <3> HIDE DEF held, e, n, old
    <3>3. \A i \in DOMAIN held : i \in 1 .. n \/ i = n + 1  BY <1>3, <3>2
    <3>4. n + 1 \in DOMAIN held /\ \A i \in 1 .. n : i \in DOMAIN held  BY <1>3, <3>2
    <3>5. \A i, j \in DOMAIN held : held[i].key = held[j].key => i = j
      BY <1>6, <2>2, <3>2, <3>3
    <3> QED BY <2>2, <3>2, <3>3, <3>4, <3>5
  <2> QED BY <2>1, <2>2
<1> HIDE DEF held
<1>10. new \in Batches  BY <1>3, <1>5, <1>9 DEF Batches
<1>11. \A i \in 1 .. n : old[i].key = e.key => old[i].stage = e.stage
  BY <1>3
<1> HIDE DEF e, n, old
<1>12. Held(new) = {acc.shown[i] : i \in DOMAIN acc.shown} \cup {held[i] : i \in DOMAIN held}
  BY <1>5 DEF Held
<1>13. Held(acc) = {acc.shown[i] : i \in DOMAIN acc.shown} \cup {old[i] : i \in 1 .. n}
  BY <1>3 DEF Held, old
<1>14. /\ Held(new) \subseteq Held(acc) \cup {e} /\ e \in Held(new)
  BY <1>9, <1>12, <1>13
<1>15. ASSUME NEW x \in Held(acc), x \notin Held(new)
       PROVE  /\ x.key = e.key /\ x.stage = e.stage
              /\ \A l \in x.at .. k + 1 : events[l].key # "durable"
  <2>1. PICK i \in 1 .. n : x = old[i]  BY <1>12, <1>13, <1>15
  <2>2. old[i].key = e.key  BY <1>9, <1>12, <1>15, <2>1
  <2>3. \A l \in x.at .. k : events[l].key # "durable"  BY <1>7, <2>1
  <2>4. events[k + 1].key # "durable"  OBVIOUS
  <2>5. \A l \in x.at .. k + 1 : l \in x.at .. k \/ l = k + 1
    <3>1. x.at \in 1 .. k  BY <1>3
    <3> QED BY <3>1
  <2> QED BY <1>11, <2>1, <2>2, <2>3, <2>4, <2>5
<1>16. Placed(events, k + 1, new) /\ Covered(events, k + 1, new)
  <2>1. \A x \in Held(acc) : \/ x \in Held(new)
                             \/ /\ x.key = e.key /\ x.stage = e.stage
                                /\ \A l \in x.at .. k + 1 : events[l].key # "durable"
    BY <1>15
  <2> QED BY <1>14, <2>1, Newest DEF e
<1>17. ASSUME NEW i \in DOMAIN held, NEW m \in held[i].at .. k + 1
       PROVE  events[m].key # "durable"
  <2>1. CASE held[i] = e  BY <1>2, <2>1 DEF e
  <2>2. CASE held[i] # e
    <3>1. PICK j \in 1 .. n : held[i] = old[j]  BY <1>9, <2>2
    <3>2. old[j].at \in 1 .. k  BY <1>3
    <3>3. m \in old[j].at .. k \/ m = k + 1  BY <1>17, <3>1, <3>2
    <3> QED BY <1>7, <3>1, <3>3
  <2> QED BY <2>1, <2>2
<1>18. ASSUME NEW i \in DOMAIN acc.shown, NEW j \in DOMAIN held,
              acc.shown[i].key \in {held[j].key, "durable"}
       PROVE  acc.shown[i].at < held[j].at
  <2>1. CASE held[j] = e
    <3>1. acc.shown[i].at \in 1 .. k  BY <1>3
    <3> QED BY <1>2, <2>1, <3>1
  <2>2. CASE held[j] # e
    <3>1. PICK l \in 1 .. n : held[j] = old[l]  BY <1>9, <2>2
    <3> QED BY <1>8, <1>18, <3>1
  <2> QED BY <2>1, <2>2
<1>19. \A i, j \in DOMAIN acc.shown :
         i < j /\ (acc.shown[i].key = acc.shown[j].key
                     \/ "durable" \in {acc.shown[i].key, acc.shown[j].key})
           => acc.shown[i].at < acc.shown[j].at
  BY DEF Coalesced, ShownInOrder
<1>20. /\ ShownInOrder(new) /\ WaitsBehind(new) /\ OneEach(new) /\ InReach(events, k + 1, new)
  BY <1>5, <1>9, <1>17, <1>18, <1>19 DEF ShownInOrder, WaitsBehind, OneEach, InReach
<1>21. Coalesced(events, k + 1, new)
  BY <1>10, <1>16, <1>20 DEF Coalesced
<1> QED BY <1>21 DEF new, e

\* One event, whatever it is.
LEMMA DispatchKeeps ==
    ASSUME NEW events, Batch(events), NEW k \in Nat, k + 1 \in DOMAIN events,
           NEW acc, Coalesced(events, k, acc)
    PROVE  Coalesced(events, k + 1, dispatch(acc, events[k + 1]))
<1> DEFINE e == events[k + 1]
<1>1. CASE e.key = "durable"  BY <1>1, DurableKeeps
<1>2. CASE /\ e.key # "durable"
           /\ \E i \in DOMAIN acc.waiting : /\ acc.waiting[i].key = e.key
                                            /\ acc.waiting[i].stage # e.stage
  <2>1. dispatch(acc, e) = [shown |-> acc.shown \o acc.waiting, waiting |-> <<e>>]
    BY <1>2 DEF dispatch
  <2> QED BY <1>2, <2>1, StageKeeps
<1>3. CASE /\ e.key # "durable"
           /\ \A i \in DOMAIN acc.waiting :
                acc.waiting[i].key = e.key => acc.waiting[i].stage = e.stage
  <2>1. dispatch(acc, e) = [acc EXCEPT !.waiting = put(@, e)]
    BY <1>3 DEF dispatch
  <2> QED BY <1>3, <2>1, PutKeeps
<1> QED BY <1>1, <1>2, <1>3

\* Whatever came before, the next event leaves two sequences of events.
LEMMA DispatchType ==
    ASSUME NEW acc \in Batches, NEW e \in Events PROVE dispatch(acc, e) \in Batches
<1> DEFINE T == Events
           s == acc.shown
           t == acc.waiting
<1>0. s \in Seq(T) /\ t \in Seq(T) /\ e \in T /\ acc = [shown |-> s, waiting |-> t]
  BY DEF Batches
<1>1. Batches = [shown : Seq(T), waiting : Seq(T)]  BY DEF Batches
<1> HIDE DEF T, s, t
<1>2. s \o t \in Seq(T) /\ <<e>> \in Seq(T) /\ <<>> \in Seq(T)  BY <1>0
<1>3. Append(s \o t, e) \in Seq(T)  BY <1>0, <1>2
<1>4. put(t, e) \in Seq(T)
  <2>1. CASE \E i \in DOMAIN t : t[i].key = e.key
    <3>1. put(t, e) = [i \in DOMAIN t |-> IF t[i].key = e.key THEN e ELSE t[i]]
      BY <2>1 DEF put
    <3>3. DOMAIN t = 1 .. Len(t) /\ Len(t) \in Nat  BY <1>0
    <3>2. \A i \in 1 .. Len(t) : t[i] \in T  BY <1>0
    <3> QED BY <1>0, <3>1, <3>2, <3>3
  <2>2. CASE ~ \E i \in DOMAIN t : t[i].key = e.key
    <3>1. put(t, e) = Append(t, e)  BY <2>2 DEF put
    <3> QED BY <1>0, <3>1
  <2> QED BY <2>1, <2>2
<1>5. dispatch(acc, e) \in {[shown |-> Append(s \o t, e), waiting |-> <<>>],
                            [shown |-> s \o t, waiting |-> <<e>>],
                            [shown |-> s, waiting |-> put(t, e)]}
  <2>1. [acc EXCEPT !.waiting = put(@, e)] = [shown |-> s, waiting |-> put(t, e)]
    BY <1>0
  <2>2. acc.shown = s /\ acc.waiting = t  BY DEF s, t
  <2> QED BY <2>1, <2>2 DEF dispatch
<1>6. \A x, y \in Seq(T) : [shown |-> x, waiting |-> y] \in Batches
  BY <1>1
<1>7. s \in Seq(T)  BY <1>0
<1> QED BY <1>2, <1>3, <1>4, <1>5, <1>6, <1>7

\* A batch is dispatched event by event.
LEMMA BatchDispatched ==
    ASSUME NEW events, Batch(events)
    PROVE  \E acc : /\ Coalesced(events, Len(events), acc)
                    /\ _dispatch_batch(events) = acc.shown \o acc.waiting
<1> DEFINE n == Len(events)
           start == [shown |-> <<>>, waiting |-> <<>>]
           step == [k \in 1 .. n |-> [acc \in Batches |-> dispatch(acc, events[k])]]
           Def(g) == g = [k \in 0 .. n |-> IF k = 0 THEN start ELSE dispatch(g[k - 1], events[k])]
           after == CHOOSE g : Def(g)
<1>1. n \in Nat /\ DOMAIN events = 1 .. n /\ \A k \in 1 .. n : events[k] \in Events
  BY DEF Batch
<1>2. start \in Batches
  <2> DEFINE T == Events
  <2> HIDE DEF T
  <2>1. <<>> \in Seq(T)  OBVIOUS
  <2> QED BY <2>1 DEF Batches, T
<1>3. step \in [1 .. n -> [Batches -> Batches]]
  BY <1>1, DispatchType
<1>4. PICK f : Recurses(f, n, Batches, start, step)
  <2> HIDE DEF n, start, step
  <2> QED BY <1>1, <1>2, <1>3, Recursion
<1>5. /\ f \in [0 .. n -> Batches] /\ f[0] = start
      /\ \A k \in 1 .. n : f[k] = step[k][f[k - 1]]
  <2> HIDE DEF step
  <2> QED BY <1>4 DEF Recurses
<1>6. \A k \in 1 .. n : f[k] = dispatch(f[k - 1], events[k])
  <2> TAKE k \in 1 .. n
  <2>1. k - 1 \in 0 .. n  BY <1>1
  <2>2. f[k - 1] \in Batches  BY <1>5, <2>1
  <2>3. step[k][f[k - 1]] = dispatch(f[k - 1], events[k])  BY <2>2
  <2> QED BY <1>5, <2>3
<1>7. Def(f)
  <2>1. \A k \in 0 .. n : f[k] = IF k = 0 THEN start ELSE dispatch(f[k - 1], events[k])
    BY <1>1, <1>5, <1>6
  <2> HIDE DEF start, n
  <2> QED BY <1>5, <2>1
<1>8. Def(after)  BY <1>7
<1>9. _dispatch_batch(events) = after[n].shown \o after[n].waiting
  BY DEF _dispatch_batch
<1> HIDE DEF after
<1>10. after[0] = start
       /\ \A k \in 0 .. n : k + 1 \in 1 .. n => after[k + 1] = dispatch(after[k], events[k + 1])
  <2> HIDE DEF start
  <2>1. 0 \in 0 .. n  BY <1>1
  <2>2. \A k \in 0 .. n : k + 1 \in 1 .. n => k + 1 \in 0 .. n /\ k + 1 # 0 /\ (k + 1) - 1 = k
    BY <1>1
  <2> QED BY <1>8, <2>1, <2>2
<1> DEFINE U == {k \in Nat : k <= n => Coalesced(events, k, after[k])}
<1>11. 0 \in U
  <2>1. Held(start) = {} /\ DOMAIN start.shown = {} /\ DOMAIN start.waiting = {}
    BY DEF Held
  <2> HIDE DEF start
  <2>2. Placed(events, 0, start) /\ InReach(events, 0, start) /\ OneEach(start)
        /\ ShownInOrder(start) /\ WaitsBehind(start)
    BY <2>1 DEF Placed, InReach, OneEach, ShownInOrder, WaitsBehind
  <2>3. Covered(events, 0, start)  BY DEF Covered
  <2> QED BY <1>2, <1>10, <2>2, <2>3 DEF Coalesced
<1>12. ASSUME NEW k \in U PROVE k + 1 \in U
  <2> SUFFICES ASSUME k + 1 <= n PROVE Coalesced(events, k + 1, after[k + 1])
    OBVIOUS
  <2>1. k \in Nat /\ k \in 0 .. n /\ k + 1 \in 1 .. n /\ k <= n  BY <1>1
  <2>2. Coalesced(events, k, after[k])  BY <2>1
  <2> HIDE DEF U, n
  <2>3. Coalesced(events, k + 1, dispatch(after[k], events[k + 1]))
    BY <1>1, <2>1, <2>2, DispatchKeeps
  <2> QED BY <1>10, <2>1, <2>3
<1>13. U = Nat
  <2>1. U \in SUBSET Nat  OBVIOUS
  <2> HIDE DEF U
  <2> QED BY <1>11, <1>12, <2>1, Induct
<1>14. Coalesced(events, n, after[n])  BY <1>1, <1>13
<1> HIDE DEF n
<1> QED BY <1>9, <1>14 DEF n

\* What the panels count on holds of every batch there can be.
LEMMA BatchFaithful ==
    ASSUME NEW events, Batch(events)
    PROVE  FaithfulFrames(events, _dispatch_batch(events))
<1> DEFINE n == Len(events)
           shown == _dispatch_batch(events)
           at == [i \in DOMAIN shown |-> shown[i].at]
           Same(i, j) == events[i].key = events[j].key \/ "durable" \in {events[i].key, events[j].key}
<1>1. PICK acc : Coalesced(events, n, acc) /\ shown = acc.shown \o acc.waiting
  BY BatchDispatched
<1>2. /\ \A x : (\E i \in DOMAIN shown : shown[i] = x) <=> x \in Held(acc)
      /\ \A i, j \in DOMAIN shown :
           i < j /\ (shown[i].key = shown[j].key \/ "durable" \in {shown[i].key, shown[j].key})
             => shown[i].at < shown[j].at
  <2> HIDE DEF shown
  <2> DEFINE all == acc.shown \o acc.waiting
  <2>1. Coalesced(events, n, acc) /\ shown = all  BY <1>1
  <2>2. /\ \A x : (\E i \in DOMAIN all : all[i] = x) <=> x \in Held(acc)
        /\ \A i, j \in DOMAIN all :
             i < j /\ (all[i].key = all[j].key \/ "durable" \in {all[i].key, all[j].key})
               => all[i].at < all[j].at
    BY <2>1, AllShown
  <2> HIDE DEF all
  <2> QED BY <2>1, <2>2
<1>3. \A x \in Held(acc) : x.at \in 1 .. n /\ x = events[x.at]
  BY <1>1 DEF Coalesced, Placed
<1>4. n \in Nat /\ DOMAIN events = 1 .. n  BY DEF Batch
<1> HIDE DEF shown, n
<1>5. \A i \in DOMAIN shown : at[i] \in 1 .. n /\ shown[i] = events[at[i]] /\ at[i] = shown[i].at
  BY <1>2, <1>3
<1>6. Range(at) = {x.at : x \in Held(acc)}
  <2>1. Range(at) = {shown[i].at : i \in DOMAIN shown}  BY DEF Range
  <2> QED BY <1>2, <2>1
<1>7. DOMAIN at = DOMAIN shown  OBVIOUS
<1> HIDE DEF at
<1>8. \A i, j \in DOMAIN shown : i < j /\ Same(at[i], at[j]) => at[i] < at[j]
  BY <1>2, <1>5
<1>9. ASSUME NEW i \in DOMAIN events, i \notin Range(at)
      PROVE  \E j \in Range(at) :
                /\ j > i /\ events[j].key = events[i].key /\ events[j].stage = events[i].stage
                /\ \A k \in i .. j : events[k].key # "durable"
  <2>1. PICK x \in Held(acc) :
          \/ x.at = i
          \/ /\ x.at > i /\ x.key = events[i].key /\ x.stage = events[i].stage
             /\ \A l \in i .. x.at : events[l].key # "durable"
    BY <1>1, <1>4 DEF Coalesced, Covered
  <2>2. x.at \in Range(at) /\ x = events[x.at]  BY <1>3, <1>6
  <2>3. x.at # i  BY <1>9, <2>2
  <2> QED BY <2>1, <2>2, <2>3
<1> QED BY <1>8, <1>9 DEF FaithfulFrames, shown, at

\* The events of a batch are numbered as they come.
LEMMA NumberedBatch ==
    ASSUME NEW raw \in Seq(Frames \cup {Durable}) PROVE Batch(Numbered(raw))
<1> DEFINE events == Numbered(raw)
<1>1. DOMAIN raw = 1 .. Len(raw) /\ Len(raw) \in Nat
      /\ \A i \in DOMAIN raw : raw[i] \in Frames \cup {Durable}
  OBVIOUS
<1>2. \A x \in Frames \cup {Durable} : x.key \in {"a", "b", "durable"} /\ x.stage \in {0, 1, 2}
  BY DEF Frames, Durable
<1>3. events = [i \in 1 .. Len(raw) |-> [key |-> raw[i].key, stage |-> raw[i].stage, at |-> i]]
  BY <1>1 DEF Numbered
<1>4. \A i \in 1 .. Len(raw) :
        [key |-> raw[i].key, stage |-> raw[i].stage, at |-> i] \in Events
  BY <1>1, <1>2 DEF Events
<1> HIDE DEF events
<1>5. events \in Seq(Events)  BY <1>1, <1>3, <1>4
<1>6. \A i \in DOMAIN events : events[i].at = i  BY <1>3
<1> QED BY <1>5, <1>6 DEF Batch, events

\* No batch that the job's events can be cut into is shown out of order.
LEMMA ProjectedInOrder ==
    ASSUME SessionAssumption, NEW durables \in Seq({Durable}), NEW behind \in Nat,
           project_frames(durables, behind)
    PROVE  in_order => in_order'
<1>1. \A n \in Nat : Runs(n) \subseteq Seq(Frames)
  <2> TAKE n \in Nat
  <2>1. SeqOf(Frames, n) \subseteq Seq(Frames)  BY DEF SeqOf
  <2>2. <<>> \in Seq(Frames)  OBVIOUS
  <2> QED BY <2>1, <2>2 DEF Runs
<1>2. PICK first \in Runs(MaxFrames), rest \in Runs(behind) :
        LET events == Numbered(first \o durables \o rest)
        IN in_order' = (in_order /\ FaithfulFrames(events, _dispatch_batch(events)))
  BY DEF project_frames
<1>3. first \in Seq(Frames) /\ rest \in Seq(Frames)
  BY <1>1 DEF SessionAssumption
<1>4. first \o durables \o rest \in Seq(Frames \cup {Durable})
  <2> DEFINE T == Frames \cup {Durable}
  <2>1. \A s \in Seq(Frames) : s \in Seq(T)  OBVIOUS
  <2>2. \A s \in Seq({Durable}) : s \in Seq(T)  OBVIOUS
  <2>3. first \in Seq(T) /\ durables \in Seq(T) /\ rest \in Seq(T)  BY <1>3, <2>1, <2>2
  <2> HIDE DEF T
  <2>4. first \o durables \o rest \in Seq(T)  BY <2>3
  <2> QED BY <2>4 DEF T
<1> DEFINE events == Numbered(first \o durables \o rest)
<1>5. FaithfulFrames(events, _dispatch_batch(events))
  BY <1>4, NumberedBatch, BatchFaithful
<1> QED BY <1>2, <1>5

\* No step of the window shows a batch out of order.
LEMMA FramesStep == ASSUME SessionAssumption, in_order, [Next]_vars PROVE in_order'
<1>1. CASE \/ start_fit \/ start_mcmc \/ Cancel \/ ForceStop \/ _toggle_pause \/ AnswerChain
  BY <1>1 DEF start_fit, start_mcmc, _begin, Cancel, ForceStop, _toggle_pause, AnswerChain
<1>2. CASE JobEvent
  <2>1. <<Durable>> \in Seq({Durable}) /\ <<>> \in Seq({Durable})  OBVIOUS
  <2>2. CASE _publish_checkpoint \/ _publish_fit_result \/ progress
    BY <2>1, <2>2, ProjectedInOrder DEF _publish_checkpoint, _publish_fit_result, progress
  <2>3. CASE _publish_mcmc \/ no_result \/ _finish
    BY <2>3 DEF _publish_mcmc, no_result, _finish
  <2> QED BY <1>2, <2>2, <2>3 DEF JobEvent
<1>3. CASE \/ UserClose \/ AnswerExit \/ Quit \/ AnswerQuit \/ ScheduledClose
           \/ close_cancel_deadline_reached \/ _force_prompt_finished
  BY <1>3 DEF UserClose, AnswerExit, Quit, AnswerQuit, ScheduledClose,
     close_cancel_deadline_reached, _force_prompt_finished
<1>4. CASE Edit \/ ToggleMidRun \/ StepMidRun \/ FileOperation \/ Autosave \/ Crash
  BY <1>4 DEF Edit, ToggleMidRun, StepMidRun, FileOperation, Autosave, Crash
<1>5. CASE Over \/ UNCHANGED vars  BY <1>5 DEF Over, vars
<1> QED BY <1>1, <1>2, <1>3, <1>4, <1>5 DEF Next

(***************************************************************************)
(* The types of the rest, and the theorems.                                *)
(***************************************************************************)

FlagsOK ==
    /\ ended \in BOOLEAN /\ written \in BOOLEAN /\ late \in BOOLEAN /\ stepped \in BOOLEAN
    /\ pending \in BOOLEAN /\ deadline \in BOOLEAN /\ prompt \in BOOLEAN
    /\ resumed \in BOOLEAN /\ scheduled \in BOOLEAN

ValuesOK ==
    /\ source \in Contents /\ twin \in Contents /\ tip \in Contents
    /\ question \in {"none", "exit", "quit", "chain"}
    /\ released \in {"open", "asked", "unasked"}
    /\ excuse \in {"none", "quit", "overtaken"}
    /\ runs \in 0 .. MaxRuns /\ closes \in 0 .. MaxCloses /\ crashes \in 0 .. MaxCrashes

LEMMA FramesType ==
    ASSUME in_order \in BOOLEAN, NEW durables, NEW after, project_frames(durables, after)
    PROVE  in_order' \in BOOLEAN
BY DEF project_frames

LEMMA OrderStep ==
    ASSUME in_order \in BOOLEAN, Next
    PROVE  in_order' \in BOOLEAN
<1>1. CASE JobEvent
    BY <1>1, FramesType DEF JobEvent, _publish_checkpoint, _publish_fit_result, _publish_mcmc,
       no_result, progress, _finish
<1>2. CASE ~JobEvent
    BY <1>2 DEF Next, start_fit, start_mcmc, _begin, Cancel, ForceStop, _toggle_pause, AnswerChain,
       UserClose, AnswerExit, Quit, AnswerQuit, ScheduledClose, close_cancel_deadline_reached,
       _force_prompt_finished, Edit, ToggleMidRun, StepMidRun, FileOperation, Autosave, Crash, Over, vars
<1>. QED BY <1>1, <1>2

LEMMA FlagsStep ==
    ASSUME FlagsOK, Next
    PROVE  FlagsOK'
<1>. USE DEF FlagsOK
<1>1. CASE start_fit \/ start_mcmc
    BY <1>1, ZenonT(40) DEF start_fit, start_mcmc, _begin, closing
<1>2. CASE Cancel \/ ForceStop \/ _toggle_pause \/ AnswerChain
    BY <1>2, ZenonT(40) DEF Cancel, ForceStop, _toggle_pause, AnswerChain, run_state, closing
<1>3. CASE JobEvent
    <2>1. CASE _publish_checkpoint \/ _publish_fit_result \/ _publish_mcmc \/ no_result \/ progress
        BY <2>1, ZenonT(40) DEF _publish_checkpoint, _publish_fit_result, _publish_mcmc, no_result,
           progress, run_state, closing
    <2>2. CASE _finish
        BY <2>2, ZenonT(40) DEF _finish, _resume_pending_close, closing
    <2>. QED BY <1>3, <2>1, <2>2 DEF JobEvent
<1>4. CASE UserClose \/ Quit \/ ScheduledClose
    BY <1>4, ZenonT(40) DEF UserClose, Quit, ScheduledClose, closeEvent, start_close, waits_already, run_state
<1>5. CASE AnswerExit \/ AnswerQuit
    BY <1>5, ZenonT(40) DEF AnswerExit, AnswerQuit, start_close, run_state
<1>6. CASE close_cancel_deadline_reached
    BY <1>6, ZenonT(40) DEF close_cancel_deadline_reached, _resume_pending_close, run_state, closing
<1>7. CASE _force_prompt_finished
    BY <1>7, ZenonT(40) DEF _force_prompt_finished, run_state
<1>8. CASE Edit \/ ToggleMidRun \/ StepMidRun \/ FileOperation \/ Autosave \/ Over
    BY <1>8, ZenonT(40) DEF Edit, ToggleMidRun, StepMidRun, FileOperation, Autosave, Over, vars, run_state, closing
<1>9. CASE Crash
    BY <1>9, ZenonT(40) DEF Crash
<1>. QED BY <1>1, <1>2, <1>3, <1>4, <1>5, <1>6, <1>7, <1>8, <1>9 DEF Next

LEMMA ValuesStep ==
    ASSUME TypeOK, Next
    PROVE  ValuesOK'
<1>. USE SessionAssumption DEF TypeOK, ValuesOK
<1>1. CASE start_fit \/ start_mcmc
    BY <1>1 DEF start_fit, start_mcmc, _begin, closing, DocumentTypeOK
<1>2. CASE Cancel \/ AnswerChain
    BY <1>2 DEF Cancel, AnswerChain, request_cancel, run_state, counters
<1>3. CASE JobEvent
    <2>1. CASE _publish_checkpoint \/ _publish_fit_result \/ _publish_mcmc
        <3>1. tip' \in {tip, fresh} /\ UNCHANGED <<source, twin, closing, counters>>
            BY <2>1 DEF _publish_checkpoint, _publish_fit_result, _publish_mcmc
        <3>2. CanChange => fresh \in Contents
            BY DocumentAssumption DEF CanChange, fresh, Contents, DocumentTypeOK
        <3>3. tip' = fresh => CanChange \/ tip' = tip
            BY <2>1 DEF _publish_checkpoint, _publish_fit_result, _publish_mcmc,
               adopt_operation_result, replace_project
        <3>. QED BY <3>1, <3>2, <3>3 DEF closing, counters
    <2>2. CASE no_result \/ progress \/ _finish
        BY <2>2, ContentFacts DEF no_result, progress, _finish, _resume_pending_close, run_state,
           closing, counters
    <2>. QED BY <1>3, <2>1, <2>2 DEF JobEvent
<1>4. CASE UserClose \/ Quit \/ ScheduledClose
    BY <1>4 DEF UserClose, Quit, ScheduledClose, closeEvent, _accept_idle_close, asked_close,
       _release_workspace, start_close, waits_already, request_cancel, run_state, counters
<1>5. CASE AnswerExit \/ AnswerQuit
    BY <1>5 DEF AnswerExit, AnswerQuit, _accept_idle_close, asked_close, _release_workspace,
       start_close, request_cancel, run_state, counters
<1>6. CASE close_cancel_deadline_reached \/ _force_prompt_finished
    BY <1>6 DEF close_cancel_deadline_reached, _resume_pending_close, _force_prompt_finished,
       run_state, closing, counters
<1>7. CASE ForceStop \/ _toggle_pause \/ Edit \/ StepMidRun \/ FileOperation \/ Autosave \/ Over
    BY <1>7 DEF ForceStop, _toggle_pause, Edit, StepMidRun, FileOperation, Autosave, Over, vars,
       run_state, closing, counters
<1>8. CASE Crash
    BY <1>8, ContentFacts DEF Crash
<1>9. CASE ToggleMidRun
    <2>1. twin' \in {fresh, source} /\ CanChange /\ UNCHANGED <<source, tip, closing, counters>>
        BY <1>9 DEF ToggleMidRun, replace_project
    <2>2. fresh \in Contents
        BY <2>1, DocumentAssumption DEF CanChange, fresh, Contents, DocumentTypeOK
    <2>. QED BY <2>1, <2>2 DEF closing, counters
<1>. QED BY <1>1, <1>2, <1>3, <1>4, <1>5, <1>6, <1>7, <1>8, <1>9 DEF Next

LEMMA Initially == Init => IInv
<1>. SUFFICES ASSUME Init PROVE IInv
    OBVIOUS
<1>. USE ContentFacts, DocumentAssumption, SessionAssumption DEF Init, DocumentInit, WindowInit
<1>1. FlagsOK /\ in_order \in BOOLEAN /\ paused \in BOOLEAN /\ dirty \in BOOLEAN
      /\ drafted \in BOOLEAN /\ unsettled \in BOOLEAN
    BY Zenon DEF FlagsOK
<1>2. cancelled \in [Panels -> BOOLEAN] /\ forced \in [Panels -> BOOLEAN]
    BY DEF NoPanel
<1>3. job \in [cancel : BOOLEAN, force : BOOLEAN, pause : BOOLEAN]
    BY DEF Untold
<1>4. undos \in Seq(Contents) /\ Len(undos) <= MaxUndo /\ redos \in Seq(Contents)
    OBVIOUS
<1>5. ~dirty /\ ~drafted /\ ~pending /\ ~prompt /\ ~scheduled
    BY Zenon
<1>6. DocumentInv
    BY <1>1, <1>4, <1>5 DEF DocumentInv, DocumentTypeOK, FilesAgree, DraftHolds
<1>7. TypeOK
    BY <1>1, <1>2, <1>3, <1>6 DEF TypeOK, DocumentInv, FlagsOK
<1>8. StopInv
    BY DEF StopInv, ShownAsTold, is_running, NoPanel, Panels
<1>9. RunInv
    BY DEF RunInv, RunIsOneStep, is_running
<1>10. ~job.force
    BY DEF Untold
<1>11. CloseInv
    BY <1>5, <1>10 DEF CloseInv, WaitingHasAnEnd, CloseIsSafe, is_running
<1>. QED BY <1>6, <1>7, <1>8, <1>9, <1>11 DEF IInv

LEMMA Inductive == IInv /\ [Next]_vars => IInv'
<1>. SUFFICES ASSUME IInv, [Next]_vars PROVE IInv'
    OBVIOUS
<1>1. CASE Next
    <2>1. DocumentInv' /\ RunInv' /\ CloseInv'
        BY <1>1, DocumentStep, RunStep, CloseStep DEF IInv
    <2>2. PanelsOK' /\ StopInv'
        BY <1>1, StopStep DEF IInv, TypeOK, PanelsOK
    <2>3. FlagsOK' /\ ValuesOK' /\ in_order' \in BOOLEAN
        BY <1>1, FlagsStep, ValuesStep, OrderStep DEF IInv, TypeOK, FlagsOK
    <2>4. TypeOK'
        BY <2>1, <2>2, <2>3 DEF TypeOK, DocumentInv, PanelsOK, FlagsOK, ValuesOK
    <2>. QED BY <2>1, <2>2, <2>4 DEF IInv
<1>2. CASE UNCHANGED vars
    <2>1. UNCHANGED <<document, released>> /\ UNCHANGED <<op, panels>>
        BY <1>2 DEF vars, run_state, closing
    <2>2. DocumentInv' /\ PanelsOK' /\ StopInv'
        BY <2>1, SameDocumentKeeps, SamePanelsKeep DEF IInv, TypeOK, PanelsOK
    <2>3. RunInv'
        BY <1>2, SameRunKeeps DEF vars, document, run_state, IInv
    <2>4. CloseInv'
        BY <1>2 DEF IInv, vars, document, run_state, panels, closing, CloseInv, CloseIsSafe,
           WaitingHasAnEnd, is_running
    <2>5. FlagsOK' /\ ValuesOK' /\ in_order' \in BOOLEAN
        BY <1>2 DEF IInv, TypeOK, vars, run_state, closing, counters, FlagsOK, ValuesOK
    <2>6. TypeOK'
        BY <2>2, <2>5 DEF TypeOK, DocumentInv, PanelsOK, FlagsOK, ValuesOK
    <2>. QED BY <2>2, <2>3, <2>4, <2>6 DEF IInv
<1>. QED BY <1>1, <1>2

LEMMA IInvHolds == Spec => []IInv
<1>1. Init => IInv
    BY Initially
<1>2. IInv /\ [Next]_vars => IInv'
    BY Inductive
<1>. QED BY <1>1, <1>2, PTL DEF Spec

\* The window's state has its types whatever the bounds on runs, closes and crashes.
THEOREM TypeCorrect == Spec => []TypeOK
<1>1. IInv => TypeOK
    BY DEF IInv
<1>. QED BY <1>1, IInvHolds, PTL

\* A document that does not call itself unsaved holds what is in its file.
THEOREM CleanDocuments == Spec => []CleanMeansOnDisk
<1>1. IInv => CleanMeansOnDisk
    BY DEF IInv, DocumentInv, FilesAgree, CleanMeansOnDisk
<1>. QED BY <1>1, IInvHolds, PTL

\* Unsaved work that autosave has seen stays in the draft of the open project.
THEOREM DraftsHold == Spec => []AutosavedWorkSurvives
<1>1. IInv => AutosavedWorkSurvives
    BY DEF IInv, DocumentInv, DraftHolds, AutosavedWorkSurvives
<1>. QED BY <1>1, IInvHolds, PTL

\* A run replaces only what it began with or wrote, in one undo step, unless the user
\* changes the project meanwhile.
THEOREM RunsUndoAsOne == Spec => []RunIsOneStep
<1>1. IInv => RunIsOneStep
    BY DEF IInv, RunInv
<1>. QED BY <1>1, IInvHolds, PTL

\* The panels show of the running operation what it was told.
THEOREM PanelsTell == Spec => []ShownAsTold
<1>1. IInv => ShownAsTold
    BY DEF IInv, StopInv
<1>. QED BY <1>1, IInvHolds, PTL

\* A waiting close has a deadline, a prompt or a forced operation to end its wait.
THEOREM WaitsEnd == Spec => []WaitingHasAnEnd
<1>1. IInv => WaitingHasAnEnd
    BY DEF IInv, CloseInv
<1>. QED BY <1>1, IInvHolds, PTL

\* No window closes over a running operation, nor unasked but in the two known races.
THEOREM ClosesAreSafe == Spec => []CloseIsSafe
<1>1. IInv => CloseIsSafe
    BY DEF IInv, CloseInv
<1>. QED BY <1>1, IInvHolds, PTL

\* No batch of events, however long and wherever polling cuts it, shows a frame out of
\* its dataset's order or across a durable event, or drops one but for a later one of
\* its dataset and stage.
THEOREM FramesInOrder == Spec => []FramesKeepOrder
<1>1. Init => FramesKeepOrder  BY DEF Init, FramesKeepOrder
<1>2. FramesKeepOrder /\ [Next]_vars => FramesKeepOrder'
  BY FramesStep, SessionAssumption DEF FramesKeepOrder
<1> QED BY <1>1, <1>2, PTL DEF Spec
=============================================================================
