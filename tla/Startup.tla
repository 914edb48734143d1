------------------------------- MODULE Startup -------------------------------
(***************************************************************************)
(* main(): the configuration, the database connection and migrate().       *)
(*                                                                         *)
(* The container is restarted whenever the process exits                   *)
(* (docker-compose.yml, restart: unless-stopped), with the environment it  *)
(* had, on the database file that the last process left.                   *)
(***************************************************************************)
EXTENDS Naturals, Sequences

CONSTANT StartMayFail \* whether a statement of the start may fail

VARIABLES
    env,      \* the environment: what each variable holds, "" when it is not set
    process,  \* how far main() has come
    schema,   \* what is committed: tables, indexes and the row of version 1
    staged,   \* what the open transaction sees
    next,     \* the statement of Script that is next
    enforced, \* whether the connection enforces foreign keys
    ended     \* why the last process ended, until the next one serves

startup == <<env, process, schema, staged, next, enforced, ended>>

\* The statements of the one script of migrate(), none of them with IF NOT EXISTS.
Script == << "guilds", "channels", "calendars", "calendar_moderators",
             "participants", "availability_intervals", "calendar_messages",
             "events", "event_attendance", "reminder_jobs",
             "idx_calendars_guild_channel_state", "idx_intervals_calendar_date",
             "idx_intervals_participant_date", "idx_calendar_messages_message",
             "idx_events_guild_start", "idx_reminders_due" >>

Whole == {"schema_migrations", "version"} \cup {Script[k] : k \in DOMAIN Script}

-----------------------------------------------------------------------------
Running == process # "down"

\* An exception reaches main(), or the process is killed: the transaction that
\* is open, if any, is never committed.
Exit(reason) ==
    /\ process' = "down"
    /\ ended' = reason
    /\ staged' = {}
    /\ next' = 1
    /\ enforced' = FALSE
    /\ UNCHANGED <<env, schema>>

Fails == StartMayFail /\ Exit("disk")

Proceed(step) == process' = step /\ UNCHANGED <<env, schema, ended>>

Launch ==
    /\ process = "down"
    /\ Proceed("launched")
    /\ UNCHANGED <<staged, next, enforced>>

\* "id" stands for the digits of a number that fits 64 bits and is not 0.
parse_snowflake(value) == value = "id"

ConfigOk == /\ env.DISCORD_TOKEN # ""
            /\ parse_snowflake(env.DISCORD_APPLICATION_ID)
            /\ env.DISCORD_DEV_GUILD_ID # "" => parse_snowflake(env.DISCORD_DEV_GUILD_ID)

from_environment ==
    /\ process = "launched"
    /\ \/ /\ ConfigOk
          /\ Proceed("configured")
          /\ UNCHANGED <<staged, next, enforced>>
       \/ ~ConfigOk /\ Exit("config")

\* The constructor of the repository: the file, then the pragmas.
OpenDatabase ==
    /\ process = "configured"
    /\ \/ /\ Proceed("open")
          /\ enforced' = TRUE
          /\ UNCHANGED <<staged, next>>
       \/ Fails

-----------------------------------------------------------------------------
(* migrate(): one transaction                                              *)

\* Mutant: every statement commits by itself.
StageCommitted(object) == /\ staged' = staged \cup {object}
                          /\ schema' = schema \cup {object}

Stage(object) == staged' = staged \cup {object} /\ UNCHANGED schema

BeginImmediate ==
    /\ process = "open"
    /\ \/ /\ Proceed("begun")
          /\ staged' = schema
          /\ UNCHANGED <<next, enforced>>
       \/ Fails

CreateVersions ==
    /\ process = "begun"
    /\ \/ /\ process' = "versioned"
          /\ Stage("schema_migrations")
          /\ UNCHANGED <<env, next, enforced, ended>>
       \/ Fails

\* A query that fails is taken for a database without version 1.
CheckVersion ==
    /\ process = "versioned"
    /\ \/ /\ "version" \in staged
          /\ Proceed("committing")
       \/ /\ "version" \notin staged \/ StartMayFail
          /\ Proceed("creating")
    /\ UNCHANGED <<staged, next, enforced>>

\* A table that is there already: with version 1 recorded, the query failed.
Because == IF "version" \in staged THEN "disk" ELSE "schema"

CreateNext ==
    /\ process = "creating"
    /\ \/ /\ Script[next] \notin staged
          /\ Stage(Script[next])
          /\ next' = next + 1
          /\ process' = IF next = Len(Script) THEN "recording" ELSE "creating"
          /\ UNCHANGED <<env, enforced, ended>>
       \/ Script[next] \in staged /\ Exit(Because)
       \/ Fails

\* Mutant: the version is not recorded.
ForgetVersion ==
    /\ process = "recording"
    /\ Proceed("committing")
    /\ UNCHANGED <<staged, next, enforced>>

InsertVersion ==
    /\ process = "recording"
    /\ \/ /\ process' = "committing"
          /\ Stage("version")
          /\ UNCHANGED <<env, next, enforced, ended>>
       \/ Fails

Commit ==
    /\ process = "committing"
    /\ \/ /\ process' = "migrated"
          /\ schema' = staged
          /\ staged' = {}
          /\ next' = 1
          /\ UNCHANGED <<env, enforced, ended>>
       \/ Fails

\* The service, the renderer and the bot are made; the bot runs.
Serve ==
    /\ process = "migrated"
    /\ process' = "serving"
    /\ ended' = "not"
    /\ UNCHANGED <<env, schema, staged, next, enforced>>

-----------------------------------------------------------------------------
Start ==
    /\ env \in [DISCORD_TOKEN : {"", "set"},
                DISCORD_APPLICATION_ID : {"", "bad", "id"},
                DISCORD_DEV_GUILD_ID : {"", "bad", "id"}]
    /\ process = "down"
    /\ schema = {}
    /\ staged = {}
    /\ next = 1
    /\ enforced = FALSE
    /\ ended = "not"

main == \/ Launch \/ from_environment \/ OpenDatabase \/ BeginImmediate
        \/ CreateVersions \/ CheckVersion \/ CreateNext \/ InsertVersion
        \/ Commit \/ Serve

Killed == Running /\ Exit("crash")
=============================================================================
