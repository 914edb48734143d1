---------------------------- MODULE HorelacProofs ----------------------------
(***************************************************************************)
(* The schema is created as a whole or not at all, wherever and however    *)
(* often the start of the program is cut off.                              *)
(***************************************************************************)
EXTENDS Horelac, TLAPS

\* What the open transaction holds after the first n statements of Script.
Created(n) == {"schema_migrations"} \cup {Script[k] : k \in 1..n}

\* What main() relies on at each of its steps.  An open transaction sees the
\* committed schema and the statements made so far; it is complete when it is
\* committed.  At "creating" it may also hold everything already: the query of
\* the version failed, and the first CREATE TABLE will.
StartInv ==
    /\ schema \in {{}, Whole}
    /\ process \in {"down", "launched", "configured", "open", "begun", "versioned",
                    "creating", "recording", "committing", "migrated", "serving"}
    /\ process \notin {"down", "launched", "configured"} => enforced = TRUE
    /\ process \notin {"creating", "recording", "committing"} => next = 1
    /\ process = "begun" => staged = schema
    /\ process = "versioned" => staged = schema \cup {"schema_migrations"}
    /\ process = "creating" => /\ next \in DOMAIN Script
                               /\ staged \in {Whole, Created(next - 1)}
    /\ process = "recording" => staged = Created(Len(Script))
    /\ process = "committing" => staged = Whole
    /\ process \in {"migrated", "serving"} => schema = Whole

\* Only bot.run() executes calls.
CallsWhileServing ==
    process # "serving" => \A t \in Threads : call[t].pc = "idle"

ProgramInv == StartInv /\ CallsWhileServing

-----------------------------------------------------------------------------
LEMMA ScriptFacts ==
    /\ Len(Script) \in Nat
    /\ DOMAIN Script = 1..Len(Script)
    /\ 1 \in DOMAIN Script
BY DEF Script

LEMMA WholeFacts ==
    /\ Whole = Created(Len(Script)) \cup {"version"}
    /\ Created(0) = {"schema_migrations"}
    /\ \A n \in Nat : Created(n) \cup {Script[n + 1]} = Created(n + 1)
<1>1. Whole = Created(Len(Script)) \cup {"version"}
    BY ScriptFacts DEF Whole, Created
<1>2. Created(0) = {"schema_migrations"}
    BY DEF Created
<1>3. ASSUME NEW n \in Nat PROVE Created(n) \cup {Script[n + 1]} = Created(n + 1)
  <2>1. 1..(n + 1) = 1..n \cup {n + 1}
      OBVIOUS
  <2> QED
      BY <2>1 DEF Created
<1> QED
    BY <1>1, <1>2, <1>3

\* An exit leaves the committed schema as it is.
LEMMA ExitKeeps ==
    ASSUME StartInv, NEW reason, Exit(reason)
    PROVE  StartInv'
BY DEF StartInv, Exit

\* One step of main(): nothing but Commit changes the schema, and what it
\* commits is complete.
LEMMA MainStep ==
    ASSUME StartInv, main
    PROVE  StartInv'
<1>1. CASE Launch
    BY <1>1 DEF Launch, Proceed, StartInv
<1>2. CASE from_environment
    BY <1>2, ExitKeeps DEF from_environment, Proceed, StartInv
<1>3. CASE OpenDatabase
    BY <1>3, ExitKeeps DEF OpenDatabase, Fails, Proceed, StartInv
<1>4. CASE BeginImmediate
    BY <1>4, ExitKeeps DEF BeginImmediate, Fails, Proceed, StartInv
<1>5. CASE CreateVersions
    BY <1>5, ExitKeeps DEF CreateVersions, Fails, Stage, StartInv
<1>6. CASE CheckVersion
  <2>1. CASE "version" \in staged /\ Proceed("committing")
    <3>1. staged = Whole
        BY <1>6, <2>1 DEF CheckVersion, StartInv, Whole
    <3> QED
        BY <1>6, <2>1, <3>1 DEF CheckVersion, Proceed, StartInv
  <2>2. CASE Proceed("creating")
    <3>1. staged \in {Whole, Created(0)}
        BY <1>6, WholeFacts DEF CheckVersion, StartInv, Whole
    <3> QED
        BY <1>6, <2>2, <3>1, ScriptFacts DEF CheckVersion, Proceed, StartInv
  <2> QED
      BY <1>6, <2>1, <2>2 DEF CheckVersion
<1>7. CASE CreateNext
  <2>1. CASE Script[next] \in staged /\ Exit(Because)
      BY <2>1, ExitKeeps
  <2>2. CASE Fails
      BY <2>2, ExitKeeps DEF Fails
  <2>3. CASE /\ Script[next] \notin staged
             /\ Stage(Script[next])
             /\ next' = next + 1
             /\ process' = IF next = Len(Script) THEN "recording" ELSE "creating"
             /\ UNCHANGED <<env, enforced, ended>>
    <3>1. next \in 1..Len(Script) /\ Len(Script) \in Nat
        BY <1>7, ScriptFacts DEF CreateNext, StartInv
    <3>2. staged = Created(next - 1)
        BY <1>7, <2>3, <3>1, ScriptFacts DEF CreateNext, StartInv, Whole
    <3>3. staged' = Created(next) /\ schema' = schema
      <4>1. Created(next - 1) \cup {Script[(next - 1) + 1]} = Created((next - 1) + 1)
          BY <3>1, WholeFacts
      <4>2. (next - 1) + 1 = next
          BY <3>1
      <4> QED
          BY <2>3, <3>2, <4>1, <4>2 DEF Stage
    <3>4. /\ schema \in {{}, Whole}
          /\ enforced' = TRUE
        BY <1>7, <2>3 DEF CreateNext, StartInv
    <3>5. CASE next = Len(Script)
      <4>1. process' = "recording"
          BY <2>3, <3>5
      <4> QED
          BY <3>3, <3>4, <3>5, <4>1 DEF StartInv, Whole
    <3>6. CASE next # Len(Script)
      <4>1. process' = "creating" /\ next' = next + 1
          BY <2>3, <3>6
      <4>2. next + 1 \in 1..Len(Script) /\ (next + 1) - 1 = next
          BY <3>1, <3>6
      <4>3. next' \in DOMAIN Script /\ next' - 1 = next
          BY <4>1, <4>2, ScriptFacts
      <4> QED
          BY <3>3, <3>4, <4>1, <4>3 DEF StartInv, Whole
    <3> QED
        BY <3>5, <3>6
  <2> QED
      BY <1>7, <2>1, <2>2, <2>3 DEF CreateNext
<1>8. CASE InsertVersion
  <2>1. CASE Fails
      BY <2>1, ExitKeeps DEF Fails
  <2>2. CASE process' = "committing" /\ Stage("version") /\ UNCHANGED <<env, next, enforced, ended>>
    <3>1. staged' = Whole
        BY <1>8, <2>2, WholeFacts DEF InsertVersion, Stage, StartInv
    <3> QED
        BY <1>8, <2>2, <3>1 DEF InsertVersion, Stage, StartInv
  <2> QED
      BY <1>8, <2>1, <2>2 DEF InsertVersion
<1>9. CASE Commit
    BY <1>9, ExitKeeps DEF Commit, Fails, StartInv
<1>10. CASE Serve
    BY <1>10 DEF Serve, StartInv
<1> QED
    BY <1>1, <1>2, <1>3, <1>4, <1>5, <1>6, <1>7, <1>8, <1>9, <1>10 DEF main

LEMMA ProgramStep == ProgramInv /\ [ProgramNext]_program => ProgramInv'
<1> SUFFICES ASSUME ProgramInv, [ProgramNext]_program PROVE ProgramInv'
    OBVIOUS
<1>1. CASE Died
  <2>1. StartInv'
      BY <1>1, ExitKeeps DEF Died, Killed, ProgramInv
  <2>2. \A t \in Threads : call'[t].pc = "idle"
      BY <1>1 DEF Died, Crash, Idle
  <2> QED
      BY <2>1, <2>2 DEF ProgramInv, CallsWhileServing
<1>2. CASE Launched
  <2>1. StartInv' /\ call' = call
      BY <1>2, MainStep DEF Launched, ProgramInv, vars
  <2>2. process # "serving"
      BY <1>2 DEF Launched, main, Launch, from_environment, OpenDatabase,
                  BeginImmediate, CreateVersions, CheckVersion, CreateNext,
                  InsertVersion, Commit, Serve
  <2> QED
      BY <2>1, <2>2 DEF ProgramInv, CallsWhileServing
<1>3. ASSUME NEW t \in Threads, Served(t) PROVE ProgramInv'
  <2>1. process' = "serving" /\ UNCHANGED startup
      BY <1>3 DEF Served, Serving, startup
  <2> QED
      BY <2>1 DEF startup, ProgramInv, StartInv, CallsWhileServing, Whole, Created
<1>4. CASE UNCHANGED program
    BY <1>4 DEF program, startup, vars, ProgramInv, StartInv, CallsWhileServing,
                Whole, Created
<1> QED
    BY <1>1, <1>2, <1>3, <1>4 DEF ProgramNext

\* Whatever start was cut off where, the database has the whole schema or none
\* of it, and every call finds the whole schema and enforced foreign keys.
THEOREM SchemaWhole == ProgramSpec => []SchemaIsWhole
<1>1. ProgramInit => ProgramInv
  <2>1. Start => StartInv
      BY DEF Start, StartInv
  <2>2. Init => CallsWhileServing
      BY DEF Init, Idle, CallsWhileServing
  <2> QED
      BY <2>1, <2>2 DEF ProgramInit, ProgramInv
<1>2. ProgramInv /\ [ProgramNext]_program => ProgramInv'
    BY ProgramStep
<1>3. ProgramInv => SchemaIsWhole
    BY DEF ProgramInv, StartInv, CallsWhileServing, SchemaIsWhole
<1> QED
    BY <1>1, <1>2, <1>3, PTL DEF ProgramSpec

=============================================================================
