------------------------------- MODULE Domain -------------------------------
(***************************************************************************)
(* The value types of include/horelac/domain/Models.hpp, and the values of *)
(* them that clients use.                                                  *)
(*                                                                         *)
(* Text is reduced to what the code decides on: an alias is its identity,  *)
(* its case-folded key and its length; a title and a description are their *)
(* lengths; a timezone is a string that may be empty.                      *)
(***************************************************************************)
EXTENDS LocalDates

CONSTANTS
    Users,      \* Discord users (snowflakes) acting on the bot
    Channels,   \* Discord channels
    GuildOf,    \* the guild each channel belongs to: Discord never moves one
    Configs,    \* the calendar configurations that clients ask for
    Dates,      \* the dates that clients name
    Spans,      \* the [start, end) spans of a day that clients name, in minutes
    Identities, \* how clients present themselves: [mode, alias, name]
    MessageIds, \* Discord messages
    Weeks,      \* display weeks that a stored message reference may name
    NULL        \* an absent optional

CalendarStates == {"open", "closed", "archived"}
IdentityModes  == {"anonymous", "alias", "discord_name"}
Responses      == {"attending", "maybe", "cannot_attend"}
WeekStarts     == {"monday", "sunday"}

Guilds == {GuildOf[ch] : ch \in Channels}

Optional(S) == S \cup {NULL}

CalendarConfig ==
    [month : [year : Int, month : Int], timezone : STRING,
     start_minute : Int, end_minute : Int, slot_minutes : Int,
     week_start : WeekStarts, modes : SUBSET IdentityModes]

Date  == [year : Int, month : Int, day : Int]
Span  == [start : Int, end : Int]
Alias == [text : STRING, key : STRING, length : Nat]

Identity == [mode : IdentityModes, alias : Alias \cup {NULL},
             name : STRING \cup {NULL}]

ASSUME DomainAssumption ==
    /\ GuildOf \in [Channels -> Guilds]
    /\ \A c \in Configs : c \in CalendarConfig
    /\ \A d \in Dates : d \in Date
    /\ \A s \in Spans : s \in Span
    /\ \A i \in Identities : i \in Identity
    /\ Weeks \subseteq Nat
    /\ NULL \notin Alias \cup STRING \cup Nat
=============================================================================
