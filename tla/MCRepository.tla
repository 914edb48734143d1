---------------------------- MODULE MCRepository ----------------------------
(***************************************************************************)
(* Instances of Repository for TLC.                                        *)
(***************************************************************************)
EXTENDS Repository, TLC

CONSTANTS u1, ch1

MCGuildOf == (ch1 :> "g1")
MCConfigs ==
    {[month |-> [year |-> 2026, month |-> 8], timezone |-> "UTC",
      start_minute |-> 1080, end_minute |-> 1200, slot_minutes |-> 60,
      week_start |-> "monday", modes |-> {"anonymous", "alias"}]}
MCDates == {[year |-> 2026, month |-> 8, day |-> 5]}
MCSpans == {[start |-> 1080, end |-> 1140]}

MCAnonymous == {[mode |-> "anonymous", alias |-> NULL, name |-> NULL]}
=============================================================================
