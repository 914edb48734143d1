------------------------- MODULE RenderQueueProofs -------------------------
(***************************************************************************)
(* Proofs about RenderQueue, for any set of calendars and any debounce.    *)
(***************************************************************************)
EXTENDS RenderQueue, TLAPS

\* What the entries have in common with the callers and the callback: an entry
\* holds the newest revision, which the callback has not seen, and is due within
\* one debounce from now.
EntriesFresh ==
    /\ \A c \in DOMAIN pending_ :
          /\ pending_[c].revision = revision[c]
          /\ handed[c] < revision[c]
          /\ pending_[c].due <= now + debounce_
    /\ \A c \in Ids : handed[c] <= revision[c]

QueueInv == TypeOK /\ EntriesFresh /\ SelectedStays /\ NewestIsKept

-----------------------------------------------------------------------------
(* What taking an entry off the map does                                   *)

LEMMA WithoutFacts ==
    ASSUME NEW key
    PROVE  /\ DOMAIN Without(pending_, key) = DOMAIN pending_ \ {key}
           /\ \A k \in DOMAIN pending_ \ {key} :
                 Without(pending_, key)[k] = pending_[k]
BY DEF Without, Restrict

-----------------------------------------------------------------------------
(* Each step keeps the invariant                                           *)

LEMMA QueueInit == Init => QueueInv
<1> SUFFICES ASSUME Init PROVE QueueInv
    OBVIOUS
<1>1. DOMAIN pending_ = {}
    BY DEF Init
<1>2. TypeOK
  <2>1. pending_ \in [DOMAIN pending_ -> [revision : 1..MaxRevision, due : 0..MaxTime]]
      BY <1>1, DOMAIN pending_ = {} DEF Init
  <2>2. worker \in [pc : {"loop", "wait", "render", "ended"}, id : Ids \cup {NoId},
                     due : 0..MaxTime, revision : 0..MaxRevision]
      BY RenderQueueAssumption DEF Init, Resting
  <2>3. /\ now \in 0..MaxTime
        /\ revision \in [Ids -> 0..MaxRevision]
        /\ handed \in [Ids -> 0..MaxRevision]
        /\ stopping \in BOOLEAN
    <3>1. 0 \in 0..MaxTime /\ 0 \in 0..MaxRevision
        BY RenderQueueAssumption
    <3>2. [c \in Ids |-> 0] \in [Ids -> 0..MaxRevision]
        BY <3>1
    <3> QED
        BY <3>1, <3>2 DEF Init
  <2>4. DOMAIN pending_ \subseteq Ids
      BY <1>1
  <2> QED
      BY <2>1, <2>2, <2>3, <2>4 DEF TypeOK
<1>3. EntriesFresh /\ SelectedStays /\ NewestIsKept
    BY <1>1, RenderQueueAssumption
    DEF Init, EntriesFresh, SelectedStays, NewestIsKept, Resting
<1> QED
    BY <1>2, <1>3 DEF QueueInv

LEMMA MarkKeeps ==
    ASSUME QueueInv, NEW c \in Ids, mark_dirty(c)
    PROVE  QueueInv'
<1> DEFINE entry == [revision |-> revision[c] + 1, due |-> now + debounce_]
<1>1. /\ TypeOK /\ EntriesFresh /\ SelectedStays /\ NewestIsKept
      /\ debounce_ \in Nat /\ MaxRevision \in Nat /\ MaxTime \in Nat
    BY RenderQueueAssumption DEF QueueInv
<1>2. /\ DOMAIN pending_' = DOMAIN pending_ \cup {c}
      /\ pending_'[c] = entry
      /\ \A k \in DOMAIN pending_ : k # c => pending_'[k] = pending_[k]
  <2>1. pending_' = Marked(c, revision[c] + 1)
      BY DEF mark_dirty
  <2> QED
      BY <2>1 DEF Marked
<1>3. /\ revision' \in [Ids -> 0..MaxRevision]
      /\ revision'[c] = revision[c] + 1
      /\ \A k \in Ids : k # c => revision'[k] = revision[k]
    BY <1>1 DEF mark_dirty, TypeOK
<1>4. entry \in [revision : 1..MaxRevision, due : 0..MaxTime]
    BY <1>1 DEF mark_dirty, TypeOK
<1>5. TypeOK'
  <2>1. pending_' = [k \in DOMAIN pending_' |-> pending_'[k]]
      BY DEF mark_dirty, Marked
  <2>2. ASSUME NEW k \in DOMAIN pending_'
        PROVE  pending_'[k] \in [revision : 1..MaxRevision, due : 0..MaxTime]
      BY <1>1, <1>2, <1>4, <2>2 DEF TypeOK
  <2>3. pending_' \in [DOMAIN pending_' ->
                         [revision : 1..MaxRevision, due : 0..MaxTime]]
      BY <2>1, <2>2
  <2> QED
      BY <1>1, <1>2, <1>3, <2>3 DEF TypeOK, mark_dirty
<1>6. EntriesFresh'
  <2>1. UNCHANGED <<handed, now>>
      BY DEF mark_dirty
  <2>2. handed[c] <= revision[c] /\ handed[c] \in Nat /\ revision[c] \in Nat
      BY <1>1 DEF EntriesFresh, TypeOK
  <2>3. ASSUME NEW k \in DOMAIN pending_'
        PROVE  /\ pending_'[k].revision = revision'[k]
               /\ handed[k] < revision'[k]
               /\ pending_'[k].due <= now + debounce_
    <3>1. CASE k = c
        BY <1>1, <1>2, <1>3, <2>2, <3>1 DEF TypeOK
    <3>2. CASE k # c
        BY <1>1, <1>2, <1>3, <3>2 DEF EntriesFresh, TypeOK
    <3> QED
        BY <3>1, <3>2
  <2>4. \A k \in Ids : handed[k] <= revision'[k]
      BY <1>1, <1>3, <2>2 DEF EntriesFresh
  <2> QED
      BY <2>1, <2>3, <2>4 DEF EntriesFresh
<1>7. SelectedStays'
  <2> SUFFICES ASSUME worker.pc = "wait"
               PROVE  /\ worker.id \in DOMAIN pending_'
                      /\ worker.due <= pending_'[worker.id].due
      BY DEF mark_dirty, SelectedStays
  <2>1. /\ worker.id \in DOMAIN pending_
        /\ worker.due <= pending_[worker.id].due
        /\ pending_[worker.id].due <= now + debounce_
      BY <1>1 DEF SelectedStays, EntriesFresh
  <2>2. /\ worker.due \in Int /\ pending_[worker.id].due \in Int
        /\ now + debounce_ \in Int
      BY <1>1, <2>1 DEF TypeOK
  <2>3. CASE worker.id = c
      BY <1>2, <2>1, <2>2, <2>3
  <2>4. CASE worker.id # c
      BY <1>2, <2>1, <2>4
  <2> QED
      BY <2>3, <2>4
<1>8. NewestIsKept'
  <2>1. ASSUME NEW k \in Ids, revision'[k] # handed[k]
        PROVE  k \in DOMAIN pending_' /\ pending_'[k].revision = revision'[k]
    <3>1. CASE k = c
        BY <1>2, <1>3, <3>1
    <3>2. CASE k # c
        BY <1>1, <1>2, <1>3, <2>1, <3>2 DEF NewestIsKept
    <3> QED
        BY <3>1, <3>2
  <2> QED
      BY <2>1 DEF NewestIsKept, mark_dirty
<1> QED
    BY <1>5, <1>6, <1>7, <1>8 DEF QueueInv

\* Whichever entry is handed over, at once or after a wait.
LEMMA HandOverKeeps ==
    ASSUME QueueInv, NEW c \in DOMAIN pending_, HandOver(c)
    PROVE  QueueInv'
<1> DEFINE rev == pending_[c].revision
<1>1. /\ TypeOK /\ EntriesFresh /\ SelectedStays /\ NewestIsKept
      /\ MaxRevision \in Nat
    BY RenderQueueAssumption DEF QueueInv
<1>2. c \in DOMAIN pending_ /\ c \in Ids
    BY <1>1 DEF TypeOK
<1>3. rev = revision[c] /\ rev \in 1..MaxRevision
    BY <1>1, <1>2 DEF EntriesFresh, TypeOK
<1>4. /\ DOMAIN pending_' = DOMAIN pending_ \ {c}
      /\ \A k \in DOMAIN pending_' : pending_'[k] = pending_[k]
    BY WithoutFacts DEF HandOver
<1>5. /\ handed' \in [Ids -> 0..MaxRevision]
      /\ handed'[c] = rev
      /\ \A k \in Ids : k # c => handed'[k] = handed[k]
    BY <1>1, <1>2, <1>3 DEF HandOver, TypeOK
<1>6. UNCHANGED <<now, revision, stopping>> /\ worker'.pc = "render"
    BY <1>1 DEF HandOver, TypeOK
<1>7. TypeOK'
  <2>1. worker' \in [pc : {"loop", "wait", "render", "ended"}, id : Ids \cup {NoId},
                      due : 0..MaxTime, revision : 0..MaxRevision]
    <3>1. worker' = [worker EXCEPT !.pc = "render", !.id = c, !.revision = rev]
        BY DEF HandOver
    <3>2. rev \in 0..MaxRevision
        BY <1>1, <1>3
    <3> HIDE DEF rev
    <3> QED
        BY <1>1, <1>2, <3>1, <3>2 DEF TypeOK
  <2>2. pending_' = [k \in DOMAIN pending_' |-> pending_'[k]]
      BY DEF HandOver, Without, Restrict
  <2>3. pending_' \in [DOMAIN pending_' ->
                         [revision : 1..MaxRevision, due : 0..MaxTime]]
      BY <1>1, <1>4, <2>2 DEF TypeOK
  <2> QED
      BY <1>1, <1>4, <1>5, <1>6, <2>1, <2>3 DEF TypeOK
<1>8. EntriesFresh'
  <2>1. ASSUME NEW k \in DOMAIN pending_'
        PROVE  /\ pending_'[k].revision = revision[k]
               /\ handed'[k] < revision[k]
               /\ pending_'[k].due <= now + debounce_
      BY <1>1, <1>4, <1>5 DEF EntriesFresh, TypeOK
  <2>2. \A k \in Ids : handed'[k] <= revision[k]
      BY <1>1, <1>3, <1>5 DEF EntriesFresh, TypeOK
  <2> QED
      BY <1>6, <2>1, <2>2 DEF EntriesFresh
<1>9. NewestIsKept'
  <2>1. ASSUME NEW k \in Ids, revision[k] # handed'[k]
        PROVE  k \in DOMAIN pending_' /\ pending_'[k].revision = revision[k]
      BY <1>1, <1>3, <1>4, <1>5, <2>1 DEF NewestIsKept
  <2> QED
      BY <1>6, <2>1 DEF NewestIsKept
<1> QED
    BY <1>6, <1>7, <1>8, <1>9 DEF QueueInv, SelectedStays

LEMMA SelectKeeps ==
    ASSUME QueueInv, Select
    PROVE  QueueInv'
<1>1. PICK c \in Earliest :
         worker' = [worker EXCEPT !.pc = "wait", !.id = c, !.due = pending_[c].due]
    BY DEF Select
<1>2. c \in DOMAIN pending_ /\ pending_[c].due \in 0..MaxTime /\ c \in Ids
    BY DEF Earliest, QueueInv, TypeOK
<1>3. UNCHANGED <<now, revision, pending_, stopping, handed>>
    BY DEF Select
<1>4. worker' \in [pc : {"loop", "wait", "render", "ended"}, id : Ids \cup {NoId},
                    due : 0..MaxTime, revision : 0..MaxRevision]
    BY <1>1, <1>2 DEF QueueInv, TypeOK
<1>5. worker'.id = c /\ worker'.due = pending_[c].due
    BY <1>1 DEF QueueInv, TypeOK
<1>6. TypeOK' /\ EntriesFresh' /\ NewestIsKept'
    BY <1>3, <1>4 DEF QueueInv, TypeOK, EntriesFresh, NewestIsKept
<1>7. SelectedStays'
    BY <1>2, <1>3, <1>5 DEF SelectedStays
<1> QED
    BY <1>6, <1>7 DEF QueueInv

LEMMA RestKeeps ==
    ASSUME QueueInv, Render \/ End
    PROVE  QueueInv'
<1>1. UNCHANGED <<now, revision, pending_, stopping, handed>>
    BY DEF Render, End
<1>2. /\ worker' \in [pc : {"loop", "wait", "render", "ended"}, id : Ids \cup {NoId},
                       due : 0..MaxTime, revision : 0..MaxRevision]
      /\ worker'.pc # "wait"
    BY RenderQueueAssumption DEF Render, End, Resting
<1>3. TypeOK' /\ EntriesFresh' /\ NewestIsKept'
    BY <1>1, <1>2 DEF QueueInv, TypeOK, EntriesFresh, NewestIsKept
<1> QED
    BY <1>2, <1>3 DEF QueueInv, SelectedStays

LEMMA TickKeeps ==
    ASSUME QueueInv, Tick
    PROVE  QueueInv'
<1>1. /\ now \in Int /\ MaxTime \in Nat /\ debounce_ \in Nat
      /\ now' = now + 1 /\ now' \in 0..MaxTime
    BY RenderQueueAssumption DEF Tick, QueueInv, TypeOK
<1>2. UNCHANGED <<revision, pending_, worker, stopping, handed>>
    BY DEF Tick
<1>3. \A c \in DOMAIN pending_ : pending_[c].due \in Int
    BY DEF QueueInv, TypeOK
<1>4. EntriesFresh'
    BY <1>1, <1>2, <1>3 DEF QueueInv, EntriesFresh
<1>5. TypeOK' /\ SelectedStays' /\ NewestIsKept'
    BY <1>1, <1>2 DEF QueueInv, TypeOK, SelectedStays, NewestIsKept
<1> QED
    BY <1>4, <1>5 DEF QueueInv

LEMMA QueueStep == QueueInv /\ [Next]_vars => QueueInv'
<1> SUFFICES ASSUME QueueInv, [Next]_vars PROVE QueueInv'
    OBVIOUS
<1>1. CASE stop \/ UNCHANGED vars
    BY <1>1 DEF stop, vars, QueueInv, TypeOK, EntriesFresh, SelectedStays, NewestIsKept
<1>2. CASE Tick
    BY <1>2, TickKeeps
<1>3. CASE Work
  <2>1. CASE TakeAtOnce
    <3>1. PICK c \in Earliest : HandOver(c)
        BY <2>1 DEF TakeAtOnce
    <3>2. c \in DOMAIN pending_
        BY DEF Earliest
    <3> QED
        BY <3>1, <3>2, HandOverKeeps
  <2>2. CASE Take
    <3>1. worker.id \in DOMAIN pending_ /\ HandOver(worker.id)
        BY <2>2 DEF Take, QueueInv, SelectedStays
    <3> QED
        BY <3>1, HandOverKeeps
  <2> QED
      BY <1>3, <2>1, <2>2, SelectKeeps, RestKeeps DEF Work
<1>4. ASSUME NEW c \in Ids, mark_dirty(c) PROVE QueueInv'
    BY <1>4, MarkKeeps
<1> QED
    BY <1>1, <1>2, <1>3, <1>4 DEF Next

-----------------------------------------------------------------------------
(* Theorems                                                                *)

LEMMA QueueAlways == Spec => []QueueInv
<1> QED
    BY QueueInit, QueueStep, PTL DEF Spec

\* The map, the clock and the locals of the worker have their types.
THEOREM QueueTypeCorrect == Spec => []TypeOK
<1>1. QueueInv => TypeOK
    BY DEF QueueInv
<1> QED
    BY <1>1, QueueAlways, PTL

\* The entry the worker waits for is still there when the wait ends, however
\* many marks came meanwhile: run() may use its iterator.
THEOREM SelectionSurvives == Spec => []SelectedStays
<1>1. QueueInv => SelectedStays
    BY DEF QueueInv
<1> QED
    BY <1>1, QueueAlways, PTL

\* The newest revision of each calendar is in the queue or was handed over.
THEOREM NothingIsLost == Spec => []NewestIsKept
<1>1. QueueInv => NewestIsKept
    BY DEF QueueInv
<1> QED
    BY <1>1, QueueAlways, PTL

\* A callback starts with the entry handed over, whose revision is above the last.
LEMMA HandOverGrows ==
    ASSUME QueueInv, Next, worker.pc # "render", worker'.pc = "render"
    PROVE  worker'.revision > handed[worker'.id]
<1>1. worker \in [pc : {"loop", "wait", "render", "ended"}, id : Ids \cup {NoId},
                   due : 0..MaxTime, revision : 0..MaxRevision]
    BY DEF QueueInv, TypeOK
<1>2. TakeAtOnce \/ Take
    BY <1>1 DEF Next, Work, Select, Render, End, Resting, stop, Tick, mark_dirty
<1>3. PICK c \in DOMAIN pending_ : HandOver(c)
    BY <1>2 DEF TakeAtOnce, Earliest, Take, QueueInv, SelectedStays
<1>4. worker'.id = c /\ worker'.revision = pending_[c].revision
    BY <1>1, <1>3 DEF HandOver
<1>5. /\ pending_[c].revision = revision[c] /\ handed[c] < revision[c]
      /\ revision[c] \in Int /\ handed[c] \in Int
    BY <1>3 DEF QueueInv, EntriesFresh, TypeOK
<1> QED
    BY <1>4, <1>5

\* If the marks of a calendar come with growing revisions, as mark_dirty has it here,
\* the callback sees them in growing order.
THEOREM OrderIsKept == Spec => HandedGrows
<1>1. QueueInv /\ [Next]_vars =>
        [worker.pc # "render" /\ worker'.pc = "render" =>
            worker'.revision > handed[worker'.id]]_vars
    BY HandOverGrows
<1> QED
    BY <1>1, QueueAlways, PTL DEF Spec, HandedGrows
=============================================================================
