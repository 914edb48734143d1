-------------------------- MODULE AvailabilityBook --------------------------
(***************************************************************************)
(* What the scheduling service promises about the availability it keeps,   *)
(* in terms of members and calendars only: no rows, no row ids, no cache,  *)
(* no calls in progress.  The book changes by one fact at a time; a member *)
(* leaves with all that he offered and a calendar goes with everything in  *)
(* it.  ScheduleService implements it (ServiceProperties, Book).           *)
(***************************************************************************)
EXTENDS Domain

CONSTANT Ids \* calendar ids

VARIABLES
    issued,  \* the calendar ids ever given out
    owner,   \* calendar -> its creator, for the calendars that exist
    members, \* <<calendar, user>>: who takes part in what
    offers   \* <<calendar, user, date, span>>: who is available when

vars == <<issued, owner, members, offers>>

\* A new book, or one that was kept before.
Init == /\ DOMAIN owner \subseteq issued
        /\ \A m \in members : m[1] \in DOMAIN owner
        /\ \A o \in offers : <<o[1], o[2]>> \in members

Publish(c, u) ==
    /\ c \notin issued
    /\ issued' = issued \cup {c}
    /\ owner' = [k \in DOMAIN owner \cup {c} |-> IF k = c THEN u ELSE owner[k]]
    /\ UNCHANGED <<members, offers>>

Join(c, u) ==
    /\ c \in DOMAIN owner
    /\ members' = members \cup {<<c, u>>}
    /\ UNCHANGED <<issued, owner, offers>>

Offer(c, u, d, s) ==
    /\ <<c, u>> \in members
    /\ offers' = offers \cup {<<c, u, d, s>>}
    /\ UNCHANGED <<issued, owner, members>>

Leave(c, u) ==
    /\ members' = members \ {<<c, u>>}
    /\ offers' = {o \in offers : ~(o[1] = c /\ o[2] = u)}
    /\ UNCHANGED <<issued, owner>>

Discard(c) ==
    /\ owner' = [k \in DOMAIN owner \ {c} |-> owner[k]]
    /\ members' = {m \in members : m[1] # c}
    /\ offers' = {o \in offers : o[1] # c}
    /\ UNCHANGED issued

Next == \E c \in Ids :
    \/ Discard(c)
    \/ \E u \in Users : \/ Publish(c, u)
                        \/ Join(c, u)
                        \/ Leave(c, u)
                        \/ \E d \in Dates, s \in Spans : Offer(c, u, d, s)

Spec == Init /\ [][Next]_vars
=============================================================================
