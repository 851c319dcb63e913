----------------------------- MODULE FitSession -----------------------------
(***************************************************************************)
(* The window while operations run: the controllers that poll a job        *)
(* (gui/fitting/controller.py), the fit panel and the MCMC panel that ask  *)
(* it to pause or stop and write its results into the document, and the    *)
(* close sequence of the window (gui/main_window.py) with its questions,   *)
(* its deadline and its force prompt. The document is ProjectDocument.     *)
(*                                                                         *)
(* A job is the event stream EventStream promises: checkpoints, at most    *)
(* one outcome, the end. Polling cuts it into batches; nothing of the      *)
(* window runs between two events of a batch that could not run between    *)
(* two polls, so each action delivers one durable event, with the progress *)
(* frames of its batch around it.                                          *)
(*                                                                         *)
(* A question box runs a nested event loop: the timers go on under it and  *)
(* the user can do nothing else. One asked of an idle window is answered   *)
(* in the step that asks it.                                               *)
(***************************************************************************)
EXTENDS ProjectDocument, FiniteSets, SequencesExt

CONSTANTS MaxRuns,      \* bound: operations started
          MaxCloses,    \* bound: closes and quits asked for
          MaxDeeds,     \* bound: both together
          MaxCrashes,   \* bound: processes lost
          MaxFrames     \* bound: progress frames before a durable event

ASSUME SessionAssumption ==
    /\ MaxRuns \in Nat /\ MaxCloses \in Nat /\ MaxDeeds \in Nat
    /\ MaxCrashes \in Nat /\ MaxFrames \in Nat

Panels == {"fit", "mcmc"}

VARIABLES
    op,             \* the panel whose controller has a job, or "none"
    ended,          \* the job has reported its outcome
    source,         \* the project the job began with, the new project without one
    twin,           \* history: that project in the other expert mode, once toggled
    tip,            \* history: the content the job began with or wrote last
    written,        \* _run_written_back
    late,           \* history: the job was started while a close waited
    stepped,        \* history: the user changed the project while the job ran
    cancelled,      \* _cancel_requested of each panel
    forced,         \* _force_requested of each panel
    paused,         \* _paused of the fit panel
    job,            \* what the job was told
    question,       \* the question box that is open
    pending,        \* _close_pending
    deadline,       \* _close_cancel_timer runs
    prompt,         \* _force_close_prompt is open
    resumed,        \* _resume_user_close
    scheduled,      \* QTimer.singleShot(0, self.close) has not fired
    released,       \* "open", or how the window was released
    excuse,         \* history: why a close may come without its question
    in_order,       \* history: the frames of every batch kept their order
    runs, closes, crashes

panels == <<cancelled, forced, paused, job>>
closing == <<question, pending, deadline, prompt, resumed, scheduled, released, excuse>>
counters == <<runs, closes, crashes>>
run_state == <<op, ended, source, twin, tip, written, late, stepped>>
vars == <<document, run_state, panels, closing, in_order, counters>>

Untold == [cancel |-> FALSE, force |-> FALSE, pause |-> FALSE]
NoPanel == [p \in Panels |-> FALSE]

WindowInit ==
    /\ op = "none" /\ ended = FALSE
    /\ source = NewProject /\ twin = NewProject /\ tip = NewProject
    /\ written = FALSE /\ late = FALSE /\ stepped = FALSE
    /\ cancelled = NoPanel /\ forced = NoPanel
    /\ paused = FALSE /\ job = Untold
    /\ question = "none" /\ pending = FALSE /\ deadline = FALSE /\ prompt = FALSE
    /\ resumed = FALSE /\ scheduled = FALSE /\ released = "open" /\ excuse = "none"

Init ==
    /\ DocumentInit
    /\ WindowInit
    /\ in_order = TRUE
    /\ runs = 0 /\ closes = 0 /\ crashes = 0

is_running == op # "none"
Attended == released = "open" /\ question = "none" /\ ~prompt   \* the user can act
_require_idle == Attended /\ ~is_running

\* Bounds: the user works on the document before the first close or after a crash,
\* and after a crash on nothing else; frames are varied in a window that nobody is
\* closing and whose document is nearly as it began, for they change nothing else.
DocumentVaries == closes = 0 \/ crashes > 0
MoreDeeds == crashes = 0 /\ runs + closes < MaxDeeds
FramesVary == last <= 2 /\ question = "none" /\ closes = 0 /\ crashes = 0

----------------------------------------------------------------------------
(* Progress frames: one per stage of each dataset in a batch.              *)

Durable == [key |-> "durable", stage |-> 0]
Frames == [key : {"a", "b"}, stage : {1, 2}]

\* pending is the dict of the code: a key keeps its place, its value is the latest.
put(waiting, frame) ==
    IF \E i \in DOMAIN waiting : waiting[i].key = frame.key
    THEN [i \in DOMAIN waiting |-> IF waiting[i].key = frame.key THEN frame ELSE waiting[i]]
    ELSE Append(waiting, frame)

\* Mutant: a durable event does not wait for the frames before it.
BugDispatch(acc, event) ==
    IF event.key = "durable" THEN [acc EXCEPT !.shown = Append(@, event)]
    ELSE [acc EXCEPT !.waiting = put(@, event)]

dispatch(acc, event) ==
    IF event.key = "durable"
    THEN [shown |-> Append(acc.shown \o acc.waiting, event), waiting |-> <<>>]
    ELSE LET stage_left == \E i \in DOMAIN acc.waiting :
                               /\ acc.waiting[i].key = event.key
                               /\ acc.waiting[i].stage # event.stage
         IN IF stage_left
            THEN [shown |-> acc.shown \o acc.waiting, waiting |-> <<event>>]
            ELSE [acc EXCEPT !.waiting = put(@, event)]

_dispatch_batch(events) ==
    LET after[k \in 0 .. Len(events)] ==
          IF k = 0 THEN [shown |-> <<>>, waiting |-> <<>>]
          ELSE dispatch(after[k - 1], events[k])
        done == after[Len(events)]
    IN done.shown \o done.waiting

\* An event with its place in the batch.
Numbered(events) ==
    [i \in DOMAIN events |-> [key |-> events[i].key, stage |-> events[i].stage, at |-> i]]

\* What the panels may count on: nothing is shown out of its dataset's order or
\* across a durable event, and a frame is left out only for a later one of the
\* same dataset and stage, before the next durable event.
FaithfulFrames(events, shown) ==
    LET at == [i \in DOMAIN shown |-> shown[i].at]
        Same(i, j) == events[i].key = events[j].key \/ "durable" \in {events[i].key, events[j].key}
    IN /\ \A i, j \in DOMAIN shown : i < j /\ Same(at[i], at[j]) => at[i] < at[j]
       /\ \A i \in DOMAIN events : i \notin Range(at) =>
              \E j \in Range(at) :
                  /\ j > i /\ events[j].key = events[i].key /\ events[j].stage = events[i].stage
                  /\ \A k \in i .. j : events[k].key # "durable"

Runs(n) == IF FramesVary THEN SeqOf(Frames, n) ELSE {<<>>}

project_frames(durables, after) ==
    \E before \in Runs(MaxFrames), behind \in Runs(after) :
        LET events == Numbered(before \o durables \o behind)
        IN in_order' = (in_order /\ FaithfulFrames(events, _dispatch_batch(events)))

----------------------------------------------------------------------------
(* Starting an operation.                                                  *)

_begin(panel) ==
    /\ _require_idle
    /\ runs < MaxRuns /\ MoreDeeds
    /\ runs' = runs + 1
    /\ op' = panel /\ ended' = FALSE
    /\ source' = project /\ twin' = project /\ tip' = project
    /\ job' = Untold /\ late' = pending /\ stepped' = FALSE
    /\ UNCHANGED <<document, closing, in_order, closes, crashes>>

\* Mutant: the next run writes into the undo step of the last one.
BugStartFit == _begin("fit") /\ UNCHANGED <<written, cancelled, forced, paused>>

start_fit ==
    /\ _begin("fit")
    /\ written' = FALSE
    /\ UNCHANGED <<cancelled, forced, paused>>

\* Mutant: a stop asked too late is still shown for the next chain.
BugStartMcmc == _begin("mcmc") /\ UNCHANGED <<written, cancelled, forced, paused>>

start_mcmc ==
    /\ _begin("mcmc")
    /\ cancelled' = [cancelled EXCEPT !["mcmc"] = FALSE]
    /\ forced' = [forced EXCEPT !["mcmc"] = FALSE]
    /\ UNCHANGED <<written, paused>>

----------------------------------------------------------------------------
(* What the user asks of a running operation.                              *)

can_request_stop(panel) == op = panel /\ ~cancelled[panel]

tell_cancel(panel) ==
    /\ cancelled' = [cancelled EXCEPT ![panel] = TRUE]
    /\ job' = IF op = panel THEN [job EXCEPT !.cancel = TRUE] ELSE job
    /\ UNCHANGED <<forced, paused>>

\* The fit panel stops at once; a long chain is asked about first, and the
\* request goes on when the answer comes.
request_cancel ==
    \/ \E panel \in Panels : can_request_stop(panel) /\ tell_cancel(panel) /\ question' = "none"
    \/ can_request_stop("mcmc") /\ question' = "chain" /\ UNCHANGED panels
    \/ /\ \A panel \in Panels : ~can_request_stop(panel)
       /\ question' = "none" /\ UNCHANGED panels

can_force_stop(panel) ==
    /\ op = panel
    /\ ~forced[panel]
    /\ panel = "fit" => cancelled[panel]

tell_force(panel) ==
    /\ cancelled' = [cancelled EXCEPT ![panel] = TRUE]
    /\ forced' = [forced EXCEPT ![panel] = TRUE]
    /\ job' = [job EXCEPT !.force = TRUE]
    /\ UNCHANGED paused

request_force_stop ==
    \/ \E panel \in Panels : can_force_stop(panel) /\ tell_force(panel)
    \/ /\ \A panel \in Panels : ~can_force_stop(panel)
       /\ UNCHANGED panels

Cancel ==
    /\ Attended
    /\ \E panel \in Panels : can_request_stop(panel)
    /\ request_cancel
    /\ UNCHANGED <<document, run_state, pending, deadline, prompt, resumed, scheduled,
                   released, excuse, in_order, counters>>

ForceStop ==
    /\ Attended
    /\ \E panel \in Panels : can_force_stop(panel)
    /\ request_force_stop
    /\ UNCHANGED <<document, run_state, closing, in_order, counters>>

_toggle_pause ==
    /\ Attended
    /\ op = "fit" /\ ~cancelled["fit"]
    /\ paused' = ~paused
    /\ job' = [job EXCEPT !.pause = ~paused]
    /\ UNCHANGED <<document, run_state, cancelled, forced, closing, in_order, counters>>

\* The answer to the question about a long chain, which may have ended meanwhile.
AnswerChain ==
    /\ question = "chain" /\ ~prompt /\ released = "open"
    /\ question' = "none"
    /\ (tell_cancel("mcmc") \/ UNCHANGED panels)
    /\ UNCHANGED <<document, run_state, pending, deadline, prompt, resumed, scheduled,
                   released, excuse, in_order, counters>>

----------------------------------------------------------------------------
(* What the job's events do.                                               *)

\* Mutant: the close that waited goes on as the program's own.
BugResume ==
    IF pending
    THEN /\ deadline' = FALSE /\ prompt' = FALSE /\ pending' = FALSE
         /\ scheduled' = TRUE
         /\ UNCHANGED <<question, resumed, released, excuse>>
    ELSE UNCHANGED closing

\* running_changed(False), _resume_pending_close: the close that waited goes on.
_resume_pending_close ==
    IF pending
    THEN /\ deadline' = FALSE /\ prompt' = FALSE /\ pending' = FALSE
         /\ resumed' = TRUE /\ scheduled' = TRUE
         /\ UNCHANGED <<question, released, excuse>>
    ELSE UNCHANGED closing

\* A write the document refuses leaves it, and the undo step, as they were.
_publish_checkpoint ==
    /\ op = "fit" /\ ~ended
    /\ project_frames(<<Durable>>, 1)
    /\ adopt_operation_result(written)
    /\ written' = TRUE
    /\ tip' = fresh
    /\ UNCHANGED <<op, ended, source, twin, late, stepped, panels, closing, counters>>

_publish_fit_result ==
    /\ op = "fit" /\ ~ended
    /\ project_frames(<<Durable>>, 0)
    /\ adopt_operation_result(written)
    /\ tip' = fresh
    /\ ended' = TRUE
    /\ UNCHANGED <<op, source, twin, written, late, stepped, panels, closing, counters>>

\* Not written if the sampling inputs, all of the project but its view and its
\* expert mode, are no longer those the chain began with.
_publish_mcmc ==
    /\ op = "mcmc" /\ ~ended
    /\ IF project \in {source, twin}
       THEN replace_project /\ tip' = fresh
       ELSE UNCHANGED <<document, tip>>
    /\ ended' = TRUE
    /\ UNCHANGED <<op, source, twin, written, late, stepped, panels, closing, in_order, counters>>

\* Cancelled, failed, or a result that could not be written.
no_result ==
    /\ is_running /\ ~ended
    /\ ended' = TRUE
    /\ UNCHANGED <<document, op, source, twin, tip, written, late, stepped, panels,
                   closing, in_order, counters>>

progress ==
    /\ is_running /\ ~ended
    /\ project_frames(<<>>, 0)
    /\ UNCHANGED <<document, run_state, panels, closing, counters>>

\* The fit panel clears its stop state when its controller goes idle; the MCMC
\* panel clears its own only when the next chain starts.
_finish ==
    /\ is_running /\ ended
    /\ op' = "none" /\ ended' = FALSE
    /\ IF op = "fit"
       THEN /\ cancelled' = [cancelled EXCEPT !["fit"] = FALSE]
            /\ forced' = [forced EXCEPT !["fit"] = FALSE]
            /\ paused' = FALSE
       ELSE UNCHANGED <<cancelled, forced, paused>>
    /\ job' = Untold
    /\ source' = NewProject /\ twin' = NewProject /\ tip' = NewProject
    /\ late' = FALSE /\ stepped' = FALSE
    /\ _resume_pending_close
    /\ UNCHANGED <<document, written, in_order, counters>>

----------------------------------------------------------------------------
(* Closing the window.                                                     *)

\* _release_workspace: the draft goes, whatever the document holds.
_release_workspace(how) ==
    /\ released' = how
    /\ draft' = without(path)
    /\ UNCHANGED <<project, saved, path, dirty, undos, redos, last, disk, drafted, unsettled>>

\* resolve_unsaved_changes and the close that follows: saved, discarded or stayed.
asked_close ==
    \/ dirty /\ UNCHANGED <<document, released>>
    \/ dirty /\ UNCHANGED released /\ \E p \in Paths : save_half_done(p)
    \/ dirty /\ released' = "asked" /\ \E p \in Paths : save_project(p)
    \/ _release_workspace("asked")

_accept_idle_close(user_close) ==
    IF user_close THEN asked_close ELSE _release_workspace("unasked")

\* The window waits for the operation to stop, five seconds at first.
start_close ==
    /\ pending' = TRUE /\ deadline' = TRUE
    /\ request_cancel

waits_already == UNCHANGED <<panels, question, pending, deadline>>

\* closeEvent. An idle window closes, a running one asks or, for a close the
\* program makes, starts to wait.
closeEvent(user_close) ==
    /\ resumed' = FALSE
    /\ IF ~is_running
       THEN _accept_idle_close(user_close) /\ UNCHANGED <<panels, question, pending, deadline>>
       ELSE /\ UNCHANGED <<document, released>>
            /\ IF pending THEN waits_already
               ELSE IF user_close
               THEN question' = "exit" /\ UNCHANGED <<panels, pending, deadline>>
               ELSE start_close

UserClose ==
    /\ Attended
    /\ closes < MaxCloses /\ MoreDeeds
    /\ closes' = closes + 1
    /\ excuse' = IF scheduled THEN "overtaken" ELSE excuse
    /\ closeEvent(TRUE)
    /\ UNCHANGED <<run_state, prompt, scheduled, in_order, runs, crashes>>

\* confirm_stop_for_exit of closeEvent: the operation may have ended meanwhile.
AnswerExit ==
    /\ question = "exit" /\ released = "open"
    /\ \/ question' = "none" /\ UNCHANGED <<panels, pending, deadline>>
       \/ start_close
    /\ UNCHANGED <<document, run_state, prompt, resumed, scheduled, released, excuse, in_order, counters>>

\* confirm_application_quit, and the close events that follow if it agrees.
Quit ==
    /\ Attended
    /\ closes < MaxCloses /\ MoreDeeds
    /\ closes' = closes + 1
    /\ IF pending THEN excuse' = "quit" /\ closeEvent(resumed)
       ELSE /\ UNCHANGED <<panels, pending, deadline, excuse>>
            /\ IF is_running
               THEN question' = "quit" /\ UNCHANGED <<document, released, resumed>>
               ELSE asked_close /\ UNCHANGED <<question, resumed>>
    /\ UNCHANGED <<run_state, prompt, scheduled, in_order, runs, crashes>>

AnswerQuit ==
    /\ question = "quit" /\ released = "open"
    /\ \/ question' = "none" /\ UNCHANGED <<document, released, panels, pending, deadline, resumed, excuse>>
       \/ /\ excuse' = "quit"
          /\ resumed' = FALSE
          /\ IF ~is_running
             THEN /\ _accept_idle_close(resumed)
                  /\ question' = "none" /\ UNCHANGED <<panels, pending, deadline>>
             ELSE start_close /\ UNCHANGED <<document, released>>
    /\ UNCHANGED <<run_state, prompt, scheduled, in_order, counters>>

\* The zero timer of a close that waited.
ScheduledClose ==
    /\ scheduled /\ released = "open"
    /\ scheduled' = FALSE
    /\ closeEvent(resumed)
    /\ UNCHANGED <<run_state, prompt, excuse, in_order, counters>>

\* Mutant: the deadline does nothing once the operation has ended.
BugDeadline ==
    /\ deadline /\ released = "open"
    /\ deadline' = FALSE
    /\ prompt' = (prompt \/ (pending /\ is_running))
    /\ UNCHANGED <<document, run_state, panels, question, pending, resumed, scheduled,
                   released, excuse, in_order, counters>>

close_cancel_deadline_reached ==
    /\ deadline /\ released = "open"
    /\ IF ~pending \/ prompt
       THEN deadline' = FALSE /\ UNCHANGED <<question, pending, prompt, resumed, scheduled, released, excuse>>
       ELSE IF ~is_running
       THEN _resume_pending_close
       ELSE /\ deadline' = FALSE /\ prompt' = TRUE
            /\ UNCHANGED <<question, pending, resumed, scheduled, released, excuse>>
    /\ UNCHANGED <<document, run_state, panels, in_order, counters>>

\* The force prompt is answered: wait no longer, or force.
_force_prompt_finished ==
    /\ prompt /\ released = "open"
    /\ prompt' = FALSE
    /\ \/ /\ pending
          /\ request_force_stop
          /\ UNCHANGED <<pending, deadline>>
       \/ /\ pending' = FALSE /\ deadline' = FALSE
          /\ UNCHANGED panels
    /\ UNCHANGED <<document, run_state, question, resumed, scheduled, released, excuse, in_order, counters>>

----------------------------------------------------------------------------
(* The document's own operations, and the loss of the process.             *)

Edit ==
    /\ _require_idle /\ DocumentVaries
    /\ \/ replace_project
       \/ accept_source_update
       \/ undo
       \/ redo
    /\ UNCHANGED <<run_state, panels, closing, in_order, counters>>

\* The expert mode is an edit whose menu entry stays enabled while an operation runs.
\* Bound: once per run.
ToggleMidRun ==
    /\ Attended /\ is_running /\ DocumentVaries
    /\ ~stepped
    /\ replace_project
    /\ twin' = IF project = source THEN fresh ELSE source
    /\ stepped' = TRUE
    /\ UNCHANGED <<op, ended, source, tip, written, late, panels, closing, in_order, counters>>

\* A running operation disables the undo and redo actions, but every commit ends by
\* enabling them as the stacks are: from the first one of the run on they work again.
StepMidRun ==
    /\ Attended /\ is_running /\ DocumentVaries
    /\ tip # source \/ stepped
    /\ undo \/ redo
    /\ stepped' = TRUE
    /\ UNCHANGED <<op, ended, source, twin, tip, written, late, panels, closing, in_order, counters>>

FileOperation ==
    /\ _require_idle /\ DocumentVaries
    /\ \/ new_project
       \/ open_fails
       \/ \E p \in Paths : open_project(p) \/ save_project(p) \/ save_half_done(p)
    /\ UNCHANGED <<run_state, panels, closing, in_order, counters>>

Autosave ==
    /\ released = "open"
    /\ autosave_now
    /\ UNCHANGED <<run_state, panels, closing, in_order, counters>>

\* The process dies; the program is started again on an empty project.
Crash ==
    /\ released = "open"
    /\ crashes < MaxCrashes
    /\ crashes' = crashes + 1
    /\ lost_process
    /\ op' = "none" /\ ended' = FALSE
    /\ source' = NewProject /\ twin' = NewProject /\ tip' = NewProject
    /\ written' = FALSE /\ late' = FALSE /\ stepped' = FALSE
    /\ cancelled' = NoPanel /\ forced' = NoPanel /\ paused' = FALSE /\ job' = Untold
    /\ question' = "none" /\ pending' = FALSE /\ deadline' = FALSE /\ prompt' = FALSE
    /\ resumed' = FALSE /\ scheduled' = FALSE
    /\ UNCHANGED <<released, excuse, in_order, runs, closes>>

\* A window nobody touches stays as it is.
Over == (released # "open" \/ _require_idle) /\ UNCHANGED vars

JobEvent ==
    /\ released = "open"
    /\ \/ _publish_checkpoint \/ _publish_fit_result \/ _publish_mcmc
       \/ no_result \/ progress \/ _finish

Next ==
    \/ start_fit \/ start_mcmc
    \/ Cancel \/ ForceStop \/ _toggle_pause \/ AnswerChain
    \/ JobEvent
    \/ UserClose \/ AnswerExit \/ Quit \/ AnswerQuit \/ ScheduledClose
    \/ close_cancel_deadline_reached \/ _force_prompt_finished
    \/ Edit \/ ToggleMidRun \/ StepMidRun \/ FileOperation \/ Autosave \/ Crash
    \/ Over

Spec == Init /\ [][Next]_vars

----------------------------------------------------------------------------
TypeOK ==
    /\ DocumentTypeOK
    /\ op \in Panels \cup {"none"} /\ ended \in BOOLEAN
    /\ source \in Contents /\ twin \in Contents /\ tip \in Contents
    /\ written \in BOOLEAN /\ late \in BOOLEAN
    /\ stepped \in BOOLEAN
    /\ cancelled \in [Panels -> BOOLEAN] /\ forced \in [Panels -> BOOLEAN]
    /\ paused \in BOOLEAN
    /\ job \in [cancel : BOOLEAN, force : BOOLEAN, pause : BOOLEAN]
    /\ question \in {"none", "exit", "quit", "chain"}
    /\ pending \in BOOLEAN /\ deadline \in BOOLEAN /\ prompt \in BOOLEAN
    /\ resumed \in BOOLEAN /\ scheduled \in BOOLEAN
    /\ released \in {"open", "asked", "unasked"}
    /\ excuse \in {"none", "quit", "overtaken"}
    /\ in_order \in BOOLEAN
    /\ runs \in 0 .. MaxRuns /\ closes \in 0 .. MaxCloses /\ crashes \in 0 .. MaxCrashes

\* While the window lives, unsaved work that autosave has seen is in the draft of
\* the open project, whatever opens, saves and runs come and fail in between
\* (gui/project/autosave.py:75-96).
AutosavedWorkSurvives ==
    released = "open" /\ drafted /\ dirty /\ path # NoPath => draft[path] = project

\* What a run writes replaces only the project it began with or its own last
\* write, and all of it is one undo step back to that project, unless the user changes
\* the project meanwhile (gui/document.py:243-256, gui/fitting/panel.py:463-472).
RunIsOneStep ==
    is_running /\ ~stepped =>
        /\ project = tip
        /\ tip # source => undos # <<>> /\ Top(undos) = source

\* A run whose last write is in the document can be undone: the project it began with
\* is still in the undo list (the comments at gui/fitting/panel.py:464 and
\* gui/document.py:237-239).
RunCanBeUndone ==
    is_running /\ tip # source /\ project = tip => source \in Range(undos)

\* A panel shows a stop, a forced stop or a pause as asked exactly when the
\* operation that runs now was told so, also after a question answered too late
\* (gui/results/panel.py:773-812, gui/fitting/panel.py:315-366).
ShownAsTold ==
    is_running =>
        /\ cancelled[op] = (job.cancel \/ job.force)
        /\ forced[op] = job.force
        /\ op = "fit" => paused = job.pause

\* A window never closes over a running operation, nor drops unsaved work without
\* the question. Excepted are the two races of a close the program makes: a quit whose
\* question outlives the operation it is about, and a user's close that overtakes the
\* zero timer of an earlier one (gui/main_window.py:660-719, gui/project/dialogs.py:156).
CloseIsSafe ==
    released # "open" =>
        /\ ~is_running
        /\ released = "unasked" /\ dirty => excuse # "none"

\* A batch's frames are shown in their order, none across the durable event that
\* follows it, none left out but for a later one (gui/fitting/controller.py:150-185).
FramesKeepOrder == in_order

\* A close that waits for an operation has something that ends its wait: the
\* deadline, the force prompt or an operation that was forced. Only a fit started
\* while the window waits can leave it without one: nothing told it to stop, so the
\* prompt's force is not taken (gui/main_window.py:693-757, gui/fitting/panel.py:352).
WaitingHasAnEnd ==
    pending /\ released = "open" =>
        deadline \/ prompt \/ job.force \/ (op = "fit" /\ late)
=============================================================================
