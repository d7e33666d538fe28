------------------------------- MODULE JobPage -------------------------------
(***************************************************************************)
(* The page of a job: the query that caches it, the stage select, and the  *)
(* GenerationPanel with the refs of useGeneration, over jobs-service and   *)
(* the tasks that ai-service runs.  One action per callback.               *)
(*                                                                         *)
(* A task is its own progress here; GenerationTasks tells how it comes     *)
(* about, TaskStream how its status reaches a stream.  A tailored resume   *)
(* goes to resume-service, a brief to the job.  A call of a worker that    *)
(* dies stays out for ever, and what it has sent may still arrive.         *)
(***************************************************************************)
EXTENDS Jobs

CONSTANTS
  Tailors  \* runs of RESUME_TAILOR, which fetch the base resume first

PageOccasions ==
  { "select",   \* the user moves the job between stages
    "delete",   \* the user deletes the job
    "editor",   \* the user edits the description or the notes
    "generate", \* the user generates briefs
    "elsewhere",\* he does so in another tab
    "tailor",   \* the user tailors the resume
    "rerun",    \* the worker runs a task again, after a failure or a stall
    "leave",    \* the user leaves the page
    "network" } \* an apiFetch of the page fails, or its stream breaks off

Runs == Briefs \cup Tailors

ASSUME PageAssumption ==
  /\ Tailors \cap (Briefs \cup Stages \cup Changes \cup Edits \cup {None}) = {}
  /\ "delete" \notin Runs
  /\ Occasions \subseteq SUBSET (ServiceOccasions \cup PageOccasions)

VARIABLES
  task,       \* [Runs -> the progress of the task]
  ends,       \* [Runs -> the ends recorded of it, each told by an event]
  mounted,    \* the page is up and shows the job, and so GenerationPanel
  shown,      \* the snapshot of the job in the cache, and so on the page
  fetch,      \* the query's fetch: its progress, what it read, who awaits it
  select,     \* the change whose mutation is pending, or None
  deletion,   \* the progress of the page's own DELETE
  draft,      \* the text in the editors
  typed,      \* history: the last text the user typed into them, or None
  saving,     \* the edit whose mutation is pending, or None
  run,        \* [Runs -> a start() of the panel]
  running,    \* the state of useGeneration that disables the buttons
  cancelled, abortRef,  \* its refs
  aborted,    \* the runs whose own AbortController was aborted
  notice,     \* the run of which the panel says "Saved.", or None
  astray      \* history: runs begun after leaving, or that overlapped

pageVars == <<mounted, shown, fetch, select, deletion, draft, typed, saving, run, running, cancelled, abortRef,
              aborted, notice, astray>>
taskVars == <<task, ends>>
vars == <<jobVars, taskVars, pageVars>>

(* What get reads.  History: former, the briefs that had been the content   *)
(* by then and were it no longer.                                           *)
Snapshot == [brief : Briefs \cup {None}, jd : Texts, former : SUBSET Briefs]
Nothing == [brief |-> None, jd |-> None, former |-> {}]
Current == [brief |-> text, jd |-> job.jd, former |-> written \ {text}]

(* A fetch is awaited by runs of the panel, and by the deletion. *)
Fetch ==
  [ pc : {"none", "out", "read"}, got : Snapshot,
    awaitedBy : SUBSET (Runs \cup {"delete"}) ]
NoFetch == [pc |-> "none", got |-> Nothing, awaitedBy |-> {}]

Init ==
  /\ JobsInit
  /\ task = [g \in Runs |-> "none"]
  /\ ends = [g \in Runs |-> {}]
  /\ mounted = FALSE
  /\ shown = Nothing
  /\ fetch = NoFetch
  /\ select = None
  /\ deletion = "none"
  /\ draft = None
  /\ typed = None
  /\ saving = None
  /\ run = [g \in Runs |-> "none"]
  /\ running = FALSE
  /\ cancelled = FALSE
  /\ abortRef = None
  /\ aborted = {}
  /\ notice = None
  /\ astray = {}

-----------------------------------------------------------------------------
(* The tasks. *)

Submitted(g) == task' = [task EXCEPT ![g] = "queued"] /\ ends' = ends

(* Another tab asks for a brief. *)
GenerateElsewhere(g) ==
  /\ g \in Briefs
  /\ "elsewhere" \in may
  /\ job.row # "none"
  /\ task[g] = "none" /\ run[g] = "none"
  /\ Submitted(g)
  /\ UNCHANGED <<jobVars, pageVars>>

Handing(g) == task' = [task EXCEPT ![g] = "delivering"] /\ ends' = ends

(* The worker hands the text over: a brief by the client's call, ... *)
Finish(g) ==
  /\ task[g] = "queued"
  /\ Handing(g)
  /\ IF g \in Briefs THEN Deliver(<<g, 1>>) ELSE UNCHANGED jobVars
  /\ UNCHANGED pageVars

(* ... and once more, by another call, when it runs the task again: BullMQ  *)
(* retries a delivery, a record of the outcome or an event of it that       *)
(* failed, and runs a stalled job anew, whose old call may still be out.    *)
Rerun(g) ==
  /\ g \in Briefs
  /\ "rerun" \in may
  /\ task[g] \notin {"none", "queued"}
  /\ Handing(g)
  /\ \E k \in Rounds : /\ k > 1 /\ call[<<g, k - 1>>].pc # "idle"
                       /\ Deliver(<<g, k>>)
  /\ UNCHANGED pageVars

(* It records the outcome, a tailored resume's being another module's.  A   *)
(* brief that is delivered fails all the same when that cannot be recorded. *)
Settle(g) ==
  /\ task[g] = "delivering"
  /\ \E o \in {"succeeded", "failed"} :
       /\ g \in Briefs => \E k \in Rounds :
            call[<<g, k>>].pc \in IF o = "succeeded" THEN {"done"} ELSE {"done", "failed"}
       /\ task' = [task EXCEPT ![g] = o]
       /\ ends' = [ends EXCEPT ![g] = @ \cup {o}]
  /\ UNCHANGED <<jobVars, pageVars>>

-----------------------------------------------------------------------------
(* The query of the job. *)

editor == <<draft, typed, saving>>
panel == <<run, running, cancelled, abortRef, aborted, notice, astray>>

(* Mutant: an invalidation joins the fetch that is already out. *)
InvalidateAndJoin(who) ==
  fetch' = IF fetch.pc = "none" THEN [pc |-> "out", got |-> Nothing, awaitedBy |-> who]
           ELSE [fetch EXCEPT !.awaitedBy = @ \cup who]

(* invalidateQueries cancels a fetch that is out and starts another; whoever *)
(* awaited the first goes on with the second, or at once.                    *)
Invalidate(who) ==
  \E on \in {fetch.awaitedBy, {}} :
    fetch' = [pc |-> "out", got |-> Nothing, awaitedBy |-> who \cup on]

(* Mutant: the effect runs whenever the job is fetched. *)
SeedAlways(first, jd) == draft' = jd

(* The effect that seeds the editors runs when the job's id is new. *)
Seed(first, jd) == draft' = IF first THEN jd ELSE draft

(* The first fetch is in: the page shows the job. *)
Open ==
  /\ Live
  /\ ~mounted /\ run = [g \in Runs |-> "none"] /\ ~cancelled
  /\ mounted' = TRUE
  /\ shown' = Current
  /\ Seed(TRUE, Current.jd)
  /\ UNCHANGED <<jobVars, taskVars, fetch, select, deletion, typed, saving, panel>>

(* get reads the job with its artifacts. *)
ReadJob ==
  /\ fetch.pc = "out" /\ Live
  /\ fetch' = [fetch EXCEPT !.pc = "read", !.got = Current]
  /\ UNCHANGED <<jobVars, taskVars, mounted, shown, select, deletion, editor, panel>>

Loaded ==
  /\ fetch.pc = "read"
  /\ fetch' = NoFetch
  /\ shown' = fetch.got
  /\ Seed(FALSE, fetch.got.jd)
  /\ UNCHANGED <<jobVars, taskVars, mounted, select, deletion, typed, saving, panel>>

(* Mutant: the cleanup of useGeneration does not abort. *)
UnmountQuietly ==
  /\ mounted' = FALSE
  /\ cancelled' = TRUE
  /\ fetch' = NoFetch
  /\ notice' = None
  /\ UNCHANGED <<shown, select, run, running, abortRef, aborted, astray>>

(* The panel goes: the cleanup of useGeneration runs.  A fetch that nobody  *)
(* looks at any more is as good as none.                                    *)
Unmount ==
  /\ mounted' = FALSE
  /\ cancelled' = TRUE
  /\ aborted' = aborted \cup ({abortRef} \ {None})
  /\ fetch' = NoFetch
  /\ notice' = None
  /\ UNCHANGED <<shown, select, run, running, abortRef, astray>>

Leave ==
  /\ "leave" \in may
  /\ mounted
  /\ Unmount
  /\ UNCHANGED <<jobVars, taskVars, deletion, editor>>

(* A refetch that fails, and its retry too, puts an error in place of the   *)
(* whole page; so does a job that is gone.                                  *)
RefetchFails ==
  /\ mounted
  /\ \/ fetch.pc # "none" /\ "network" \in may
     \/ fetch.pc = "out" /\ job.row = "gone"
  /\ Unmount
  /\ UNCHANGED <<jobVars, taskVars, deletion, editor>>

(* The select, disabled while its mutation is pending. *)
ChooseStage(r, s) ==
  /\ "select" \in may
  /\ mounted
  /\ select = None
  /\ CheckStage(r, s)
  /\ select' = r
  /\ UNCHANGED <<taskVars, mounted, shown, fetch, deletion, editor, panel>>

(* onSuccess; nothing is shown of a failure. *)
StageChosen ==
  /\ select # None
  /\ change[select].pc \in {"ok", "missing", "error"}
  /\ IF change[select].pc = "ok" /\ mounted THEN Invalidate({}) ELSE fetch' = fetch
  /\ select' = None
  /\ UNCHANGED <<jobVars, taskVars, mounted, shown, deletion, editor, panel>>

(* A key is pressed in an editor, and the texts in them are new ones. *)
Type(t) ==
  /\ "editor" \in may
  /\ mounted
  /\ edit[t].pc = "none" /\ t # draft
  /\ draft' = t
  /\ typed' = t
  /\ UNCHANGED <<jobVars, taskVars, mounted, shown, fetch, select, deletion, saving, panel>>

Dirty == draft # shown.jd

(* "Save changes", disabled unless dirty and while its mutation is pending: *)
(* the PATCH carries what is in the editors.                                *)
Save(r) ==
  /\ "editor" \in may
  /\ mounted
  /\ Dirty /\ saving = None
  /\ CheckEdit(r, draft)
  /\ saving' = r
  /\ UNCHANGED <<taskVars, mounted, shown, fetch, select, deletion, draft, typed, panel>>

(* Its answer: a success refetches the job, a failure leaves the draft. *)
EditSaved ==
  /\ saving # None
  /\ edit[saving].pc \in {"ok", "missing", "error"}
  /\ IF edit[saving].pc = "ok" /\ mounted THEN Invalidate({}) ELSE fetch' = fetch
  /\ saving' = None
  /\ UNCHANGED <<jobVars, taskVars, mounted, shown, select, deletion, draft, typed, panel>>

(* "Delete permanently", disabled while its mutation is pending. *)
ConfirmDelete ==
  /\ "delete" \in may
  /\ mounted
  /\ deletion = "none"
  /\ deletion' = "out"
  /\ UNCHANGED <<jobVars, taskVars, mounted, shown, fetch, select, editor, panel>>

(* The DELETE deletes the job, or is a 404 after somebody else's. *)
DeleteJob ==
  /\ deletion = "out"
  /\ \/ Remove /\ deletion' = "ok"
     \/ ~Live /\ deletion' = "failed" /\ UNCHANGED jobVars
  /\ UNCHANGED <<taskVars, mounted, shown, fetch, select, editor, panel>>

(* Its answer: onSuccess awaits the queries it has invalidated, of which    *)
(* this page's is one; nothing is shown of a failure.                       *)
Deleted ==
  \/ /\ deletion = "ok"
     /\ deletion' = "refetch"
     /\ IF mounted THEN Invalidate({"delete"}) ELSE fetch' = fetch
     /\ UNCHANGED <<jobVars, taskVars, mounted, shown, select, editor, panel>>
  \/ /\ deletion = "failed"
     /\ deletion' = "none"
     /\ UNCHANGED <<jobVars, taskVars, mounted, shown, fetch, select, editor, panel>>

(* navigate("/"): the page is one of an error by then, or still shows the   *)
(* job when another invalidation has called the fetch off.                  *)
BackToBoard ==
  /\ deletion = "refetch"
  /\ "delete" \notin fetch.awaitedBy
  /\ deletion' = "none"
  /\ IF mounted THEN Unmount ELSE UNCHANGED <<mounted, shown, fetch, select, panel>>
  /\ UNCHANGED <<jobVars, taskVars, editor>>

-----------------------------------------------------------------------------
(* The panel. *)

Underway(g) == run[g] \in {"create", "stream", "poll"}
GoOn(g, pc) == run' = [run EXCEPT ![g] = pc]

query == <<mounted, shown, fetch, select, deletion, editor>>

(* generation.run up to its first await. *)
Begin(g) ==
  /\ GoOn(g, "create")
  /\ cancelled' = FALSE
  /\ running' = TRUE
  /\ abortRef' = g
  /\ LET others == {o \in Runs : Underway(o)}
     IN astray' = IF ~mounted \/ others # {} THEN astray \cup others \cup {g} ELSE astray
  /\ UNCHANGED aborted

(* The buttons are disabled while the hook runs, not before it does. *)
Clickable == mounted /\ ~running

(* A button: a brief runs at once, tailoring awaits the base resume. *)
Start(g) ==
  /\ (IF g \in Tailors THEN "tailor" ELSE "generate") \in may
  /\ Clickable
  /\ task[g] = "none" /\ run[g] = "none"
  /\ notice' = None
  /\ IF g \in Tailors
     THEN GoOn(g, "base") /\ UNCHANGED <<running, cancelled, abortRef, aborted, astray>>
     ELSE Begin(g)
  /\ UNCHANGED <<jobVars, taskVars, query>>

(* The base resume is in. *)
BaseLoaded(g) ==
  /\ run[g] = "base"
  /\ Begin(g)
  /\ UNCHANGED <<jobVars, taskVars, query, notice>>

(* It is empty, or the fetch of it failed. *)
BaseMissing(g) ==
  /\ run[g] = "base"
  /\ GoOn(g, "ended")
  /\ UNCHANGED <<jobVars, taskVars, query, running, cancelled, abortRef, aborted, notice, astray>>

(* The end of run(): its finally, and setState unless it was cancelled. *)
End(g, pc) ==
  /\ GoOn(g, pc)
  /\ abortRef' = None
  /\ running' = (running /\ cancelled)
  /\ UNCHANGED <<cancelled, aborted, notice, astray>>

(* createTask's answer; then the stream is opened, aborted or not. *)
TaskCreated(g) ==
  /\ run[g] = "create"
  /\ Submitted(g)
  /\ GoOn(g, "stream")
  /\ UNCHANGED <<jobVars, query, running, cancelled, abortRef, aborted, notice, astray>>

(* createTask is refused, or its answer lost: with a task of its own or not. *)
CreateFails(g) ==
  /\ "network" \in may
  /\ run[g] = "create"
  /\ Submitted(g) \/ UNCHANGED taskVars
  /\ End(g, "ended")
  /\ UNCHANGED <<jobVars, query>>

(* The stream throws, when it is aborted or breaks off. *)
StreamThrows(g) ==
  /\ run[g] = "stream"
  /\ g \in aborted \/ "network" \in may
  /\ IF cancelled THEN End(g, "ended")
     ELSE /\ GoOn(g, "poll")
          /\ UNCHANGED <<running, cancelled, abortRef, aborted, notice, astray>>
  /\ UNCHANGED <<jobVars, taskVars, query>>

(* A poll finds the run cancelled, or fails, or is the last of MAX_POLLS. *)
PollingEnds(g) ==
  /\ run[g] = "poll"
  /\ cancelled \/ "network" \in may
  /\ End(g, "ended")
  /\ UNCHANGED <<jobVars, taskVars, query>>

(* The terminal status comes, by an event, which may be late, or by a poll: *)
(* run() returns the text of a success, and start() awaits the query it has *)
(* invalidated.                                                             *)
Outcome(g) ==
  /\ \E o \in {"succeeded", "failed"} :
       /\ \/ run[g] = "stream" /\ g \notin aborted /\ o \in ends[g]
          \/ run[g] = "poll" /\ ~cancelled /\ task[g] = o
       /\ IF o = "succeeded" /\ ~cancelled
          THEN /\ End(g, "refetch")
               /\ IF g \in Briefs /\ mounted THEN Invalidate({g}) ELSE fetch' = fetch
          ELSE End(g, "ended") /\ fetch' = fetch
  /\ UNCHANGED <<jobVars, taskVars, mounted, shown, select, deletion, editor>>

(* The invalidation is over; a tailored resume's query is another one. *)
Saved(g) ==
  /\ run[g] = "refetch"
  /\ g \notin fetch.awaitedBy
  /\ GoOn(g, "ended")
  /\ notice' = IF mounted THEN g ELSE notice
  /\ UNCHANGED <<jobVars, taskVars, query, running, cancelled, abortRef, aborted, astray>>

Next ==
  \/ JobsNext /\ UNCHANGED <<taskVars, pageVars>>
  \/ \E g \in Runs : GenerateElsewhere(g) \/ Finish(g) \/ Rerun(g) \/ Settle(g)
  \/ Open \/ ReadJob \/ Loaded \/ Leave \/ RefetchFails \/ StageChosen
  \/ ConfirmDelete \/ DeleteJob \/ Deleted \/ BackToBoard
  \/ \E r \in Changes, s \in Stages : ChooseStage(r, s)
  \/ \E r \in Edits : Type(r) \/ Save(r)
  \/ EditSaved
  \/ \E g \in Runs :
       \/ Start(g) \/ BaseLoaded(g) \/ BaseMissing(g) \/ TaskCreated(g) \/ CreateFails(g)
       \/ StreamThrows(g) \/ PollingEnds(g) \/ Outcome(g) \/ Saved(g)

Spec == Init /\ [][Next]_vars

-----------------------------------------------------------------------------
TypeOK ==
  /\ JobsTypeOK
  /\ task \in [Runs -> {"none", "queued", "delivering", "succeeded", "failed"}]
  /\ ends \in [Runs -> SUBSET {"succeeded", "failed"}]
  /\ shown \in Snapshot
  /\ fetch \in Fetch
  /\ select \in Changes \cup {None}
  /\ deletion \in {"none", "out", "ok", "failed", "refetch"}
  /\ {draft, typed, saving} \subseteq Texts
  /\ run \in [Runs -> {"none", "base", "create", "stream", "poll", "refetch", "ended"}]
  /\ {mounted, running, cancelled} \subseteq BOOLEAN
  /\ {abortRef, notice} \subseteq Runs \cup {None}
  /\ aborted \cup astray \subseteq Runs

(* Who reads this has g before him, or what has taken its place. *)
UpTo(snapshot, g) == snapshot.brief = g \/ g \in snapshot.former

(* Under "Saved." stands the brief of that run, or one that another tab's   *)
(* task or a late PUT has put in its place by then, or no job; or a fetch   *)
(* is on its way that brings one.  It is never the page of before: none of  *)
(* the fetches that other callbacks start meanwhile hides the new text.     *)
SavedIsShown ==
  notice \in Briefs =>
    \/ UpTo(shown, notice)
    \/ fetch.pc = "out"
    \/ fetch.pc = "read" /\ UpTo(fetch.got, notice)

(* The editors are seeded "without clobbering in-progress edits": what the  *)
(* user typed stays in them through refetches, failed saves and the edits   *)
(* of other tabs, and the button says "Saved" of it only when the job has   *)
(* held that text.                                                          *)
TypingIsKept ==
  typed # None => draft = typed /\ (~Dirty => typed \in held)

(* "A component unmounting mid-generation must not leave a socket open": it *)
(* does not, except for runs that began after it, or beside another run.    *)
NoSocketAfterLeaving ==
  ~mounted => \A g \in Runs \ astray : run[g] = "stream" => g \in aborted
=============================================================================
