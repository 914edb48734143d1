---------------------------- MODULE RenderQueue ----------------------------
(***************************************************************************)
(* RenderQueue: callers mark calendars dirty, one worker thread renders    *)
(* each of them once its debounce has passed.                              *)
(*                                                                         *)
(* mutex_ is held by mark_dirty from first to last, and by the worker but  *)
(* for the time that it waits on wake_ or runs the callback; each stretch  *)
(* under the lock is one step.  steady_clock is an integer that Tick moves.*)
(***************************************************************************)
EXTENDS Integers, FiniteSets, Functions

CONSTANTS
    Ids,          \* calendar ids
    NoId,         \* no calendar id
    debounce_,    \* the debounce, in ticks
    MaxRevision,  \* bound of the model checker on the revision of a calendar
    MaxTime       \* bound of the model checker on the clock

ASSUME RenderQueueAssumption ==
    /\ Ids \subseteq Int
    /\ NoId \in Int \ Ids
    /\ debounce_ \in Nat
    /\ MaxRevision \in Nat
    /\ MaxTime \in Nat

VARIABLES
    now,      \* steady_clock::now()
    revision, \* calendar -> the revision last marked (the callers' side)
    pending_, \* calendar -> [revision, due]
    worker,   \* [pc, id, due, revision]: the locals of run()
    stopping, \* request_stop() was called
    handed    \* calendar -> the revision last handed to the callback, 0 for none

vars == <<now, revision, pending_, worker, stopping, handed>>

Resting == [pc |-> "loop", id |-> NoId, due |-> 0, revision |-> 0]

Init ==
    /\ now = 0
    /\ revision = [c \in Ids |-> 0]
    /\ pending_ = << >>
    /\ worker = Resting
    /\ stopping = FALSE
    /\ handed = [c \in Ids |-> 0]

Without(f, key) == Restrict(f, DOMAIN f \ {key})

-----------------------------------------------------------------------------
(* The callers                                                             *)

\* Mutant: the revision read before the change is marked.
MarkedBefore(c, rev) == [k \in DOMAIN pending_ \cup {c} |->
                    IF k = c THEN [revision |-> rev - 1, due |-> now + debounce_]
                    ELSE pending_[k]]

Marked(c, rev) == [k \in DOMAIN pending_ \cup {c} |->
                    IF k = c THEN [revision |-> rev, due |-> now + debounce_]
                    ELSE pending_[k]]

\* Calendar c is marked with its next revision.  The queue does not compare: that
\* the revisions of one calendar come in order, each once, is up to its callers.
\* (clear_my_data would not give them a new one, see Repository.clear_participant.)
mark_dirty(c) ==
    /\ revision[c] < MaxRevision
    /\ now + debounce_ <= MaxTime
    /\ revision' = [revision EXCEPT ![c] = @ + 1]
    /\ pending_' = Marked(c, revision[c] + 1)
    /\ UNCHANGED <<now, worker, stopping, handed>>

\* request_stop; stop() then waits for the worker to end.
stop ==
    /\ ~stopping
    /\ stopping' = TRUE
    /\ UNCHANGED <<now, revision, pending_, worker, handed>>

Tick ==
    /\ now < MaxTime
    /\ now' = now + 1
    /\ UNCHANGED <<revision, pending_, worker, stopping, handed>>

-----------------------------------------------------------------------------
(* The worker: run()                                                       *)

\* min_element takes the first of several entries that are due together, and
\* std::map is ordered by id.
Earliest == {c \in DOMAIN pending_ : \A k \in DOMAIN pending_ :
                \/ pending_[c].due < pending_[k].due
                \/ pending_[c].due = pending_[k].due /\ c <= k}

\* Mutant: the worker remembers a time after the due time.
SelectLate ==
    /\ worker.pc = "loop"
    /\ ~stopping
    /\ \E c \in Earliest :
          /\ pending_[c].due > now
          /\ worker' = [worker EXCEPT !.pc = "wait", !.id = c,
                                      !.due = pending_[c].due + 1]
    /\ UNCHANGED <<now, revision, pending_, stopping, handed>>

\* The head of the loop, with something pending but nothing due: remember which
\* is due first and when, and let go of the lock in wait_until.  With nothing
\* pending the worker sleeps on wake_.
Select ==
    /\ worker.pc = "loop"
    /\ ~stopping
    /\ \E c \in Earliest :
          /\ pending_[c].due > now
          /\ worker' = [worker EXCEPT !.pc = "wait", !.id = c, !.due = pending_[c].due]
    /\ UNCHANGED <<now, revision, pending_, stopping, handed>>

\* The entry of calendar c leaves the map, as it is by now, for the callback.
HandOver(c) ==
    /\ worker' = [worker EXCEPT !.pc = "render", !.id = c,
                                !.revision = pending_[c].revision]
    /\ handed' = [handed EXCEPT ![c] = pending_[c].revision]
    /\ pending_' = Without(pending_, c)
    /\ UNCHANGED <<now, revision, stopping>>

\* What is due first is due already: wait_until tests that before it waits, so the
\* lock is held from the selection to the removal.
TakeAtOnce ==
    /\ worker.pc = "loop"
    /\ ~stopping
    /\ \E c \in Earliest : pending_[c].due <= now /\ HandOver(c)

\* The wait ends at the remembered time, also if mark_dirty has moved the due
\* time of the entry since.
Take ==
    /\ worker.pc = "wait"
    /\ now >= worker.due
    /\ ~stopping
    /\ HandOver(worker.id)

\* Mutants: the entry is erased after the callback; a failed callback is marked
\* again; what the callback throws ends the worker.
RenderErases ==
    /\ worker.pc = "render"
    /\ worker' = Resting
    /\ pending_' = Without(pending_, worker.id)
    /\ UNCHANGED <<now, revision, stopping, handed>>
RenderRequeues ==
    /\ worker.pc = "render"
    /\ worker' = Resting
    /\ pending_' = Marked(worker.id, worker.revision)
    /\ UNCHANGED <<now, revision, stopping, handed>>
RenderDies ==
    /\ worker.pc = "render"
    /\ worker' = [Resting EXCEPT !.pc = "ended"]
    /\ UNCHANGED <<now, revision, pending_, stopping, handed>>

\* The callback returns; it ran without the lock.  If it throws, the exception
\* is swallowed and the loop goes on in the same way: nothing is retried.
Render ==
    /\ worker.pc = "render"
    /\ worker' = Resting
    /\ UNCHANGED <<now, revision, pending_, stopping, handed>>

\* Mutant: the timed wait does not look at the stop token.
EndOfLoop ==
    /\ stopping
    /\ worker.pc = "loop"
    /\ worker' = [Resting EXCEPT !.pc = "ended"]
    /\ UNCHANGED <<now, revision, pending_, stopping, handed>>

\* A stop ends either wait and the loop; what is pending stays undone.
End ==
    /\ stopping
    /\ worker.pc \in {"loop", "wait"}
    /\ worker' = [Resting EXCEPT !.pc = "ended"]
    /\ UNCHANGED <<now, revision, pending_, stopping, handed>>

Work == Select \/ TakeAtOnce \/ Take \/ Render \/ End

Next == stop \/ Tick \/ Work \/ \E c \in Ids : mark_dirty(c)

Spec == Init /\ [][Next]_vars

\* The worker thread is scheduled, and time passes.
FairSpec == Spec /\ WF_vars(Work) /\ WF_vars(Tick)

-----------------------------------------------------------------------------
(* Properties                                                              *)

TypeOK ==
    /\ now \in 0..MaxTime
    /\ revision \in [Ids -> 0..MaxRevision]
    /\ DOMAIN pending_ \subseteq Ids
    /\ pending_ \in [DOMAIN pending_ ->
                       [revision : 1..MaxRevision, due : 0..MaxTime]]
    /\ worker \in [pc : {"loop", "wait", "render", "ended"}, id : Ids \cup {NoId},
                    due : 0..MaxTime, revision : 0..MaxRevision]
    /\ stopping \in BOOLEAN
    /\ handed \in [Ids -> 0..MaxRevision]

\* The iterator selected survives the wait, in which callers change the map: its
\* entry is there and not due before the time the worker remembers.
SelectedStays ==
    worker.pc = "wait" => /\ worker.id \in DOMAIN pending_
                          /\ worker.due <= pending_[worker.id].due

\* Marks are merged, never lost: the newest revision of a calendar is waiting in
\* the queue or has been handed to the callback, whenever the mark fell into the
\* worker's wait, its callback or its stop.
NewestIsKept ==
    \A c \in Ids :
        revision[c] # handed[c] =>
            c \in DOMAIN pending_ /\ pending_[c].revision = revision[c]

\* If the marks of a calendar come with growing revisions, the callback sees them
\* in growing order, each once, across waits and callbacks: an older picture never
\* comes after a newer one (docs/architecture.md:276).
HandedGrows ==
    [][worker.pc # "render" /\ worker'.pc = "render" =>
          worker'.revision > handed[worker'.id]]_vars

\* A mark is served, unless the queue is stopped first: with this revision or
\* with a later one that replaced it.
MarksAreServed ==
    \A c \in Ids, r \in 1..MaxRevision :
        revision[c] >= r ~> handed[c] >= r \/ stopping

\* stop() returns: whatever the worker waits for, a stop ends it.
StopReturns == stopping ~> worker.pc = "ended"

\* A calendar is rendered only once its deadline has passed, which every mark
\* moves (docs/architecture.md:276: "updates its revision/deadline").
DeadlineRespected ==
    [][\A c \in Ids : handed'[c] # handed[c] => pending_[c].due <= now]_vars
=============================================================================
