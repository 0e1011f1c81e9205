----------------------------- MODULE Migrations -----------------------------
(***************************************************************************)
(* The Alembic revisions of migrations/versions and the processes that run *)
(* them.  A schema is a set of objects; columns, keys and the constraints  *)
(* within CREATE TABLE go with their table.  migrations/env.py wraps all   *)
(* the revisions of one command in one transaction; its statements are     *)
(* steps, so that several runners and kills interleave with them.          *)
(***************************************************************************)
EXTENDS Integers, Sequences, SequencesExt

CONSTANTS
    Runners,      \* processes that run "alembic upgrade" or "downgrade"
    Targets,      \* the revisions they are asked for, 0 for "base"
    MaxRuns       \* bounds the number of commands

ASSUME MigrationsAssumption == Targets \subseteq 0 .. 4 /\ MaxRuns \in Nat

VARIABLES
    schema,       \* the committed objects
    version,      \* the committed row of alembic_version, 0 for none
    runner,       \* what each runner is doing
    runs          \* how many commands were started

vars == <<schema, version, runner, runs>>

-----------------------------------------------------------------------------
(* Statements.  "set_version" moves the row of alembic_version one revision.*)
Statement(do, what) == [do |-> do, what |-> what]

Create(what) == Statement("create", what)
Drop(what)   == Statement("drop", what)

(* DROP TYPE IF EXISTS, without and with CASCADE. *)
DropType(what)   == Statement("drop_if_exists", what)
DropTypeAll(what) == Statement("drop_cascade", what)

Each(Do(_), objects) == [i \in DOMAIN objects |-> Do(objects[i])]

(* What each table needs to be there: the tables its foreign keys refer to *)
(* and the type of its status.                                             *)
Tables ==
    [audit_events |-> {}, customers |-> {}, idempotency_records |-> {},
     subscriptions |-> {"customers", "subscription_state_enum"},
     payments |-> {"customers", "subscriptions", "payment_state_enum"},
     recovery_cases |-> {"customers", "payments", "recovery_state_enum"},
     recovery_attempts |-> {"recovery_cases", "attempt_state_enum"},
     recovery_decisions |-> {"recovery_attempts", "recovery_cases"},
     recovery_jobs |-> {"recovery_attempts", "recovery_cases", "job_state_enum"}]

(* The parts of tables that have a statement of their own. *)
Parts ==
    [ix_audit_events_correlation_id |-> "audit_events",
     ix_audit_events_entity_id |-> "audit_events",
     ix_audit_events_entity_type |-> "audit_events",
     ix_idempotency_records_idempotency_key |-> "idempotency_records",
     ix_active_recovery_case_per_payment |-> "recovery_cases",
     ix_recovery_jobs_poll |-> "recovery_jobs",
     chk_payment_amount_positive |-> "payments",
     chk_recovery_case_amount_positive |-> "recovery_cases",
     payload |-> "recovery_jobs",
     ix_recovery_attempts_case_id |-> "recovery_attempts",
     ix_recovery_cases_created_at |-> "recovery_cases",
     ix_recovery_decisions_case_id |-> "recovery_decisions",
     ix_recovery_jobs_case_id |-> "recovery_jobs"]

Types == <<"subscription_state_enum", "payment_state_enum", "recovery_state_enum",
           "attempt_state_enum", "job_state_enum">>

-----------------------------------------------------------------------------
(* a04bb93ae6eb, initial_schema.  CREATE TABLE creates the type first. *)
InitialSchema ==
    <<"audit_events", "ix_audit_events_correlation_id", "ix_audit_events_entity_id",
      "ix_audit_events_entity_type", "customers", "idempotency_records",
      "ix_idempotency_records_idempotency_key",
      "subscription_state_enum", "subscriptions", "payment_state_enum", "payments",
      "recovery_state_enum", "recovery_cases", "ix_active_recovery_case_per_payment",
      "attempt_state_enum", "recovery_attempts", "recovery_decisions",
      "job_state_enum", "recovery_jobs", "ix_recovery_jobs_poll">>

DropInitialSchema ==
    Each(DropType, Types)
    \o Each(Drop, <<"ix_recovery_jobs_poll", "recovery_jobs", "recovery_decisions",
                    "recovery_attempts", "ix_active_recovery_case_per_payment",
                    "recovery_cases", "payments", "subscriptions",
                    "ix_idempotency_records_idempotency_key", "idempotency_records",
                    "customers", "ix_audit_events_entity_type",
                    "ix_audit_events_entity_id", "ix_audit_events_correlation_id",
                    "audit_events">>)
    \o Each(DropType, Types)
    \o Each(DropTypeAll, Types)

(* 63505e2817ac, add_check_constraints. *)
CheckConstraints ==
    <<"chk_payment_amount_positive", "chk_recovery_case_amount_positive">>

(* Mutated: one constraint twice. *)
DropOneTwice == <<"chk_payment_amount_positive", "chk_payment_amount_positive">>

(* Its downgrade. *)
DropCheckConstraints ==
    <<"chk_recovery_case_amount_positive", "chk_payment_amount_positive">>

(* Mutated: the last index is forgotten. *)
ThreeIndexes ==
    <<"ix_recovery_attempts_case_id", "ix_recovery_cases_created_at",
      "ix_recovery_decisions_case_id">>

(* f649369deabb, add_indexes_for_scaling. *)
ScalingIndexes ==
    <<"ix_recovery_attempts_case_id", "ix_recovery_cases_created_at",
      "ix_recovery_decisions_case_id", "ix_recovery_jobs_case_id">>

DropScalingIndexes ==
    <<"ix_recovery_jobs_case_id", "ix_recovery_decisions_case_id",
      "ix_recovery_cases_created_at", "ix_recovery_attempts_case_id">>

(* upgrade() and downgrade() of the revisions, in their order; the third   *)
(* is 906b317e5e85, add_payload_to_recovery_jobs.                          *)
Upgrade == <<Each(Create, InitialSchema), Each(Create, CheckConstraints),
             <<Create("payload")>>, Each(Create, ScalingIndexes)>>

Downgrade == <<DropInitialSchema, Each(Drop, DropCheckConstraints),
               <<Drop("payload")>>, Each(Drop, DropScalingIndexes)>>

(* The revisions on the way from one to another: the statements of the      *)
(* next one, and where it leads.                                            *)
Script(at, to)   == IF at < to THEN Upgrade[at + 1] ELSE Downgrade[at]
Revision(at, to) == IF at < to THEN at + 1 ELSE at - 1

(* The next statement of a command.  The first command of all creates the   *)
(* table of the version; Alembic moves the version at the end of each       *)
(* revision.                                                                *)
NextStatement(me) ==
    IF me.prepare THEN Create("alembic_version")
    ELSE IF me.done + 1 \in DOMAIN Script(me.at, me.to)
         THEN Script(me.at, me.to)[me.done + 1]
    ELSE Statement("set_version", "alembic_version")

-----------------------------------------------------------------------------
(* PostgreSQL. *)
(* A transaction: its revision, the one it goes to, how many statements of  *)
(* the way to the next are done, what it made and dropped, its locks; and    *)
(* whether it ran alone, with the statement that was refused.                *)
Transaction(pc, prepare, at, to, alone, failed) ==
    [pc |-> pc, prepare |-> prepare, at |-> at, to |-> to, done |-> 0,
     made |-> {}, gone |-> {}, locks |-> {}, alone |-> alone, failed |-> failed]

None == Statement("none", "none")
Idle == Transaction("idle", FALSE, 0, 0, FALSE, None)

View(r) == (schema \ runner[r].gone) \cup runner[r].made

(* The tables needing object o, and the parts that go with it. *)
UsersOf(o, objects) == {t \in DOMAIN Tables \cap objects : o \in Tables[t]}
PartsOf(o, objects) == {x \in DOMAIN Parts \cap objects : Parts[x] = o}

(* The table a statement locks, or the type, and what a new table refers to. *)
Locked(s) == IF s.what \in DOMAIN Parts THEN {Parts[s.what]}
             ELSE IF s.what \in DOMAIN Tables THEN {s.what} \cup Tables[s.what]
             ELSE {s.what}

Needs(o) == IF o \in DOMAIN Parts THEN {Parts[o]}
            ELSE IF o \in DOMAIN Tables THEN Tables[o] ELSE {}

(* Does the statement succeed?  Alembic checks that it found the version it *)
(* expected in alembic_version.                                             *)
Allowed(r, s) ==
    LET objects == View(r)
    IN  CASE s.do = "create" -> s.what \notin objects /\ Needs(s.what) \subseteq objects
          [] s.do = "drop" -> s.what \in objects /\ UsersOf(s.what, objects) = {}
          [] s.do = "drop_if_exists" -> UsersOf(s.what, objects) = {}
          [] s.do = "set_version" ->
                "alembic_version" \in runner[r].locks \/ version = runner[r].at
          [] OTHER -> TRUE

(* What a transaction is after its statement. *)
After(r, s) ==
    LET me  == runner[r]
        out == {s.what} \cup PartsOf(s.what, View(r))
        it  == [me EXCEPT !.locks = @ \cup Locked(s)]
    IN  CASE s.do = "set_version" -> [it EXCEPT !.at = Revision(me.at, me.to), !.done = 0]
          [] me.prepare -> [it EXCEPT !.prepare = FALSE, !.made = @ \cup {s.what}]
          [] s.do = "create" /\ ~me.prepare ->
                [it EXCEPT !.done = @ + 1, !.made = @ \cup {s.what}, !.gone = @ \ {s.what}]
          [] OTHER -> [it EXCEPT !.done = @ + 1, !.made = @ \ out, !.gone = @ \cup out]

Others(r) == {q \in Runners \ {r} : runner[q].pc = "running"}

-----------------------------------------------------------------------------
Init == /\ schema = {} /\ version = 0 /\ runs = 0
        /\ runner = [r \in Runners |-> Idle]

(* context.run_migrations reads the version and plans the way to target.   *)
Begin(r, target) ==
    /\ runner[r].pc # "running"
    /\ runs < MaxRuns
    /\ target # version
    /\ runs' = runs + 1
    /\ runner' = [q \in Runners |->
          IF q = r THEN Transaction("running", "alembic_version" \notin schema,
                                    version, target, Others(r) = {}, None)
          ELSE [runner[q] EXCEPT !.alone = FALSE]]
    /\ UNCHANGED <<schema, version>>

(* A statement waits for the locks of others, which end with their          *)
(* transactions.                                                            *)
Reaches(r, s) ==
    /\ runner[r].pc = "running"
    /\ runner[r].at # runner[r].to
    /\ s = NextStatement(runner[r])
    /\ \A q \in Others(r) : Locked(s) \cap runner[q].locks = {}

(* It takes effect, seen by its own transaction only, *)
Execute(r) ==
    LET s == NextStatement(runner[r])
    IN  /\ Reaches(r, s)
        /\ Allowed(r, s)
        /\ runner' = [runner EXCEPT ![r] = After(r, s)]
        /\ UNCHANGED <<schema, version, runs>>

(* or is refused and the transaction rolled back. *)
Refuse(r) ==
    LET s == NextStatement(runner[r])
    IN  /\ Reaches(r, s)
        /\ ~Allowed(r, s)
        /\ runner' = [runner EXCEPT ![r] =
              Transaction("refused", FALSE, 0, 0, runner[r].alone, s)]
        /\ UNCHANGED <<schema, version, runs>>

(* Mutated: each statement is committed on its own. *)
KeepDone(r) == schema' = View(r) /\ UNCHANGED version

(* Nothing of a transaction is left. *)
DropAll(r) == r \in Runners /\ UNCHANGED <<schema, version>>

Commit(r) ==
    /\ runner[r].pc = "running"
    /\ runner[r].at = runner[r].to
    /\ schema' = View(r)
    /\ version' = runner[r].at
    /\ runner' = [runner EXCEPT ![r] = Idle]
    /\ UNCHANGED runs

(* A runner is killed, or is the victim of a deadlock; the transaction that *)
(* began with context.begin_transaction is rolled back.                     *)
Die(r) ==
    /\ runner[r].pc = "running"
    /\ DropAll(r)
    /\ runner' = [runner EXCEPT ![r] = Idle]
    /\ UNCHANGED runs

Next == \E r \in Runners : \/ \E target \in Targets : Begin(r, target)
                           \/ Execute(r)
                           \/ Refuse(r)
                           \/ Commit(r)
                           \/ Die(r)

Spec == Init /\ [][Next]_vars

-----------------------------------------------------------------------------
(* What the upgrades up to revision n leave behind. *)
What(script) == {script[k].what : k \in DOMAIN script}

SchemaAt(n) == UNION {What(Upgrade[i]) : i \in 1 .. n}

(* The objects the SQLAlchemy models declare. *)
Models == DOMAIN Tables \cup ToSet(Types) \cup DOMAIN Parts

(* The version row tells what is there: no kill, refusal or second runner  *)
(* leaves a schema between two revisions, nor does going down and up.      *)
VersionTellsSchema == schema \ {"alembic_version"} = SchemaAt(version)

(* At the last revision the tables are those the program maps. *)
HeadIsTheModels == version = 4 => schema = Models \cup {"alembic_version"}

(* A command that ran alone is refused only at dropping an enumeration type  *)
(* while tables still use it, which is how initial_schema's downgrade        *)
(* begins: the order of all other statements respects what they depend on.   *)
LoneRunSucceeds ==
    \A r \in Runners : runner[r].pc = "refused" /\ runner[r].alone
        => \E t \in ToSet(Types) :
              runner[r].failed = DropType(t) /\ UsersOf(t, schema) # {}
=============================================================================
