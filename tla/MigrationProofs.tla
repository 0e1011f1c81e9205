-------------------------- MODULE MigrationProofs --------------------------
(***************************************************************************)
(* What is proved of Migrations.                                           *)
(***************************************************************************)
EXTENDS Migrations, SequenceTheorems, TLAPS

-----------------------------------------------------------------------------
(* The scripts. *)
LEMMA UpgradeStatements ==
  /\ DOMAIN Upgrade = 1 .. 4
  /\ DOMAIN Upgrade[1] = 1 .. 20 /\ DOMAIN Upgrade[2] = 1 .. 2
  /\ DOMAIN Upgrade[3] = 1 .. 1 /\ DOMAIN Upgrade[4] = 1 .. 4
  /\ \A n \in 1 .. 4 : \A k \in DOMAIN Upgrade[n] : Upgrade[n][k] = Create(Upgrade[n][k].what)
<1>1. /\ DOMAIN Upgrade = 1 .. 4
      /\ Upgrade[1] = Each(Create, InitialSchema) /\ Upgrade[2] = Each(Create, CheckConstraints)
      /\ Upgrade[3] = <<Create("payload")>> /\ Upgrade[4] = Each(Create, ScalingIndexes)
  BY DEF Upgrade
<1>2. DOMAIN InitialSchema = 1 .. 20
  BY DEF InitialSchema
<1>3. DOMAIN CheckConstraints = 1 .. 2 /\ DOMAIN ScalingIndexes = 1 .. 4
  BY DEF CheckConstraints, ScalingIndexes
<1>4. /\ DOMAIN Upgrade[1] = 1 .. 20
      /\ \A k \in DOMAIN Upgrade[1] : Upgrade[1][k] = Create(InitialSchema[k])
  BY <1>1, <1>2 DEF Each
<1>5. /\ DOMAIN Upgrade[2] = 1 .. 2
      /\ \A k \in DOMAIN Upgrade[2] : Upgrade[2][k] = Create(CheckConstraints[k])
  BY <1>1, <1>3 DEF Each
<1>6. DOMAIN Upgrade[3] = 1 .. 1 /\ Upgrade[3][1] = Create("payload")
  BY <1>1
<1>7. /\ DOMAIN Upgrade[4] = 1 .. 4
      /\ \A k \in DOMAIN Upgrade[4] : Upgrade[4][k] = Create(ScalingIndexes[k])
  BY <1>1, <1>3 DEF Each
<1>8. \A x : Create(x).what = x
  BY DEF Create, Statement
<1>9. ASSUME NEW n \in 1 .. 4, NEW k \in DOMAIN Upgrade[n]
      PROVE  Upgrade[n][k] = Create(Upgrade[n][k].what)
  <2>1. \E x : Upgrade[n][k] = Create(x)
    BY <1>4, <1>5, <1>6, <1>7
  <2>2. QED
    BY <2>1, <1>8
<1>10. QED
  BY <1>1, <1>4, <1>5, <1>6, <1>7, <1>9

LEMMA DowngradeStatements ==
  /\ DOMAIN Downgrade = 1 .. 4
  /\ DOMAIN Downgrade[2] = 1 .. 2 /\ DOMAIN Downgrade[3] = 1 .. 1 /\ DOMAIN Downgrade[4] = 1 .. 4
  /\ \A k \in DOMAIN Downgrade[2] : Downgrade[2][k] = Drop(DropCheckConstraints[k])
  /\ Downgrade[3][1] = Drop("payload")
  /\ \A k \in DOMAIN Downgrade[4] : Downgrade[4][k] = Drop(DropScalingIndexes[k])
<1>1. /\ DOMAIN Downgrade = 1 .. 4
      /\ Downgrade[2] = Each(Drop, DropCheckConstraints)
      /\ Downgrade[3] = <<Drop("payload")>> /\ Downgrade[4] = Each(Drop, DropScalingIndexes)
  BY DEF Downgrade
<1>2. DOMAIN DropCheckConstraints = 1 .. 2 /\ DOMAIN DropScalingIndexes = 1 .. 4
  BY DEF DropCheckConstraints, DropScalingIndexes
<1>3. QED
  BY <1>1, <1>2 DEF Each

LEMMA TupleIsSeq ==
  ASSUME NEW S, NEW n \in Nat, NEW f \in [1 .. n -> S]
  PROVE  f \in Seq(S) /\ Len(f) = n
OBVIOUS

LEMMA FirstOfBoth ==
  ASSUME NEW S, NEW s \in Seq(S), NEW t \in Seq(S), Len(s) >= 1
  PROVE  s \o t \in Seq(S) /\ Len(s \o t) >= 1 /\ (s \o t)[1] = s[1]
<1>1. Len(s) \in Nat /\ Len(t) \in Nat
  BY LenProperties
<1>2. QED
  BY <1>1, ConcatProperties

(* The downgrade of initial_schema begins at a type. *)
LEMMA DowngradeOfInitialSchema ==
  1 \in DOMAIN Downgrade[1] /\ Downgrade[1][1] = DropType("subscription_state_enum")
<1> DEFINE names == <<"ix_recovery_jobs_poll", "recovery_jobs", "recovery_decisions",
                    "recovery_attempts", "ix_active_recovery_case_per_payment",
                    "recovery_cases", "payments", "subscriptions",
                    "ix_idempotency_records_idempotency_key", "idempotency_records",
                    "customers", "ix_audit_events_entity_type",
                    "ix_audit_events_entity_id", "ix_audit_events_correlation_id",
                    "audit_events">>
           types  == Each(DropType, Types)
           tables == Each(Drop, names)
           rest   == Each(DropTypeAll, Types)
           S == {types[i] : i \in 1 .. 5} \cup {tables[i] : i \in 1 .. 15}
                    \cup {rest[i] : i \in 1 .. 5}
<1>1. DOMAIN Types = 1 .. 5 /\ Types[1] = "subscription_state_enum"
  BY DEF Types
<1>2. DOMAIN names = 1 .. 15 /\ Downgrade[1] = types \o tables \o types \o rest
  <2>1. DOMAIN names = 1 .. 15
    OBVIOUS
  <2>2. DropInitialSchema = types \o tables \o types \o rest
    BY DEF DropInitialSchema
  <2>3. Downgrade[1] = DropInitialSchema
    BY DEF Downgrade
  <2>4. QED
    BY <2>1, <2>2, <2>3
<1>3. /\ types = [i \in 1 .. 5 |-> DropType(Types[i])]
      /\ tables = [i \in 1 .. 15 |-> Drop(names[i])]
      /\ rest = [i \in 1 .. 5 |-> DropTypeAll(Types[i])]
      /\ types[1] = DropType("subscription_state_enum")
  BY <1>1, <1>2 DEF Each
<1> HIDE DEF types, tables, rest, names
<1>4. types \in [1 .. 5 -> S] /\ rest \in [1 .. 5 -> S] /\ tables \in [1 .. 15 -> S]
  BY <1>3
<1> HIDE DEF S
<1>5. types \in Seq(S) /\ rest \in Seq(S) /\ tables \in Seq(S)
  BY <1>4, TupleIsSeq
<1>6. Len(types) >= 1
  <2>1. 5 \in Nat
    OBVIOUS
  <2>2. Len(types) = 5
    BY <1>4, <2>1, TupleIsSeq
  <2>3. QED
    BY <2>2
<1>7. /\ types \o tables \in Seq(S) /\ Len(types \o tables) >= 1
      /\ (types \o tables)[1] = types[1]
  BY <1>5, <1>6, FirstOfBoth
<1>8. /\ types \o tables \o types \in Seq(S) /\ Len(types \o tables \o types) >= 1
      /\ (types \o tables \o types)[1] = types[1]
  BY <1>5, <1>7, FirstOfBoth
<1>9. /\ Downgrade[1] \in Seq(S) /\ Len(Downgrade[1]) >= 1
      /\ Downgrade[1][1] = types[1]
  BY <1>2, <1>5, <1>8, FirstOfBoth
<1>10. QED
  BY <1>3, <1>9, LenProperties

-----------------------------------------------------------------------------
(* What the scripts name. *)
LEMMA PartsAreParts ==
  ASSUME NEW x \in DOMAIN Parts
  PROVE  /\ x \notin DOMAIN Tables /\ x # "alembic_version"
         /\ Parts[x] \in DOMAIN Tables
         /\ \A t \in DOMAIN Tables : x \notin Tables[t]
         /\ \A y \in DOMAIN Parts : Parts[y] # x
<1>1. /\ x \notin DOMAIN Tables /\ x # "alembic_version"
      /\ Parts[x] \in DOMAIN Tables
  BY DEF Parts, Tables
<1>2. \A t \in DOMAIN Tables : x \notin Tables[t]
  BY DEF Parts, Tables
<1>3. \A y \in DOMAIN Parts : Parts[y] \in DOMAIN Tables
  BY DEF Parts, Tables
<1>4. QED
  BY <1>1, <1>2, <1>3

LEMMA VersionTableIsApart ==
  /\ "alembic_version" \notin DOMAIN Tables /\ "alembic_version" \notin DOMAIN Parts
  /\ \A t \in DOMAIN Tables : "alembic_version" \notin Tables[t]
  /\ \A y \in DOMAIN Parts : Parts[y] # "alembic_version"
<1>1. "alembic_version" \notin DOMAIN Tables /\ "alembic_version" \notin DOMAIN Parts
  BY DEF Parts, Tables
<1>2. \A t \in DOMAIN Tables : "alembic_version" \notin Tables[t]
  BY DEF Tables
<1>3. \A y \in DOMAIN Parts : Parts[y] # "alembic_version"
  BY DEF Parts
<1>4. QED
  BY <1>1, <1>2, <1>3

LEMMA WhatIsCreated ==
  /\ What(Upgrade[1]) = {InitialSchema[k] : k \in 1 .. 20}
  /\ What(Upgrade[2]) = {"chk_payment_amount_positive", "chk_recovery_case_amount_positive"}
  /\ What(Upgrade[3]) = {"payload"}
  /\ What(Upgrade[4]) = {"ix_recovery_attempts_case_id", "ix_recovery_cases_created_at",
                         "ix_recovery_decisions_case_id", "ix_recovery_jobs_case_id"}
<1>1. /\ Upgrade[1] = Each(Create, InitialSchema) /\ Upgrade[2] = Each(Create, CheckConstraints)
      /\ Upgrade[3] = <<Create("payload")>> /\ Upgrade[4] = Each(Create, ScalingIndexes)
  BY DEF Upgrade
<1>2. DOMAIN InitialSchema = 1 .. 20
  BY DEF InitialSchema
<1>3. DOMAIN CheckConstraints = 1 .. 2 /\ DOMAIN ScalingIndexes = 1 .. 4
  BY DEF CheckConstraints, ScalingIndexes
<1>4. \A x : Create(x).what = x
  BY DEF Create, Statement
<1>5. What(Upgrade[1]) = {InitialSchema[k] : k \in 1 .. 20}
  BY <1>1, <1>2, <1>4 DEF Each, What
<1>6. What(Upgrade[2]) = {CheckConstraints[k] : k \in 1 .. 2}
  BY <1>1, <1>3, <1>4 DEF Each, What
<1>7. What(Upgrade[3]) = {"payload"}
  BY <1>1, <1>4 DEF What
<1>8. What(Upgrade[4]) = {ScalingIndexes[k] : k \in 1 .. 4}
  BY <1>1, <1>3, <1>4 DEF Each, What
<1>9. {CheckConstraints[k] : k \in 1 .. 2}
         = {"chk_payment_amount_positive", "chk_recovery_case_amount_positive"}
  BY DEF CheckConstraints
<1>10. {ScalingIndexes[k] : k \in 1 .. 4}
         = {"ix_recovery_attempts_case_id", "ix_recovery_cases_created_at",
            "ix_recovery_decisions_case_id", "ix_recovery_jobs_case_id"}
  BY DEF ScalingIndexes
<1>11. QED
  BY <1>5, <1>6, <1>7, <1>8, <1>9, <1>10

LEMMA WhatIsDropped ==
  /\ What(Downgrade[2]) = {"chk_payment_amount_positive", "chk_recovery_case_amount_positive"}
  /\ What(Downgrade[3]) = {"payload"}
  /\ What(Downgrade[4]) = {"ix_recovery_attempts_case_id", "ix_recovery_cases_created_at",
                           "ix_recovery_decisions_case_id", "ix_recovery_jobs_case_id"}
  /\ \A n \in 2 .. 4 : \A k \in DOMAIN Downgrade[n] :
        /\ Downgrade[n][k] = Drop(Downgrade[n][k].what)
        /\ \A i \in DOMAIN Downgrade[n] : i # k => Downgrade[n][i].what # Downgrade[n][k].what
<1>1. \A x : Drop(x).what = x
  BY DEF Drop, Statement
<1>2. What(Downgrade[2]) = {DropCheckConstraints[k] : k \in 1 .. 2}
  BY <1>1, DowngradeStatements DEF What
<1>3. What(Downgrade[3]) = {"payload"}
  BY <1>1, DowngradeStatements DEF What
<1>4. What(Downgrade[4]) = {DropScalingIndexes[k] : k \in 1 .. 4}
  BY <1>1, DowngradeStatements DEF What
<1>5. {DropCheckConstraints[k] : k \in 1 .. 2}
         = {"chk_payment_amount_positive", "chk_recovery_case_amount_positive"}
  BY DEF DropCheckConstraints
<1>6. {DropScalingIndexes[k] : k \in 1 .. 4}
         = {"ix_recovery_attempts_case_id", "ix_recovery_cases_created_at",
            "ix_recovery_decisions_case_id", "ix_recovery_jobs_case_id"}
  BY DEF DropScalingIndexes
<1>7. \A i, k \in 1 .. 2 : i # k => DropCheckConstraints[i] # DropCheckConstraints[k]
  BY DEF DropCheckConstraints
<1>8. \A i, k \in 1 .. 4 : i # k => DropScalingIndexes[i] # DropScalingIndexes[k]
  BY DEF DropScalingIndexes
<1>9. ASSUME NEW n \in 2 .. 4, NEW k \in DOMAIN Downgrade[n]
      PROVE  /\ Downgrade[n][k] = Drop(Downgrade[n][k].what)
             /\ \A i \in DOMAIN Downgrade[n] :
                   i # k => Downgrade[n][i].what # Downgrade[n][k].what
  <2>1. CASE n = 2
    BY <1>1, <1>7, <2>1, DowngradeStatements
  <2>2. CASE n = 3
    BY <1>1, <2>2, DowngradeStatements
  <2>3. CASE n = 4
    BY <1>1, <1>8, <2>3, DowngradeStatements
  <2>4. QED
    BY <2>1, <2>2, <2>3
<1>10. QED
  BY <1>2, <1>3, <1>4, <1>5, <1>6, <1>9

(* The schemas of the revisions. *)
LEMMA SchemaGrows ==
  /\ SchemaAt(0) = {}
  /\ \A n \in 0 .. 3 : SchemaAt(n + 1) = SchemaAt(n) \cup What(Upgrade[n + 1])
<1>1. SchemaAt(0) = {}
  BY DEF SchemaAt
<1>2. ASSUME NEW n \in 0 .. 3
      PROVE  SchemaAt(n + 1) = SchemaAt(n) \cup What(Upgrade[n + 1])
  <2>1. 1 .. n + 1 = (1 .. n) \cup {n + 1}
    OBVIOUS
  <2>2. QED
    BY <2>1 DEF SchemaAt
<1>3. QED
  BY <1>1, <1>2

LEMMA InitialObjects ==
  /\ SchemaAt(1) = {InitialSchema[k] : k \in 1 .. 20}
  /\ SchemaAt(1) \cap {"alembic_version", "payload", "chk_payment_amount_positive",
        "chk_recovery_case_amount_positive", "ix_recovery_attempts_case_id",
        "ix_recovery_cases_created_at", "ix_recovery_decisions_case_id",
        "ix_recovery_jobs_case_id"} = {}
  /\ {"subscriptions", "recovery_jobs", "recovery_attempts", "recovery_cases",
       "recovery_decisions", "payments"} \subseteq SchemaAt(1)
<1>1. SchemaAt(1) = {InitialSchema[k] : k \in 1 .. 20}
  <2>1. SchemaAt(0 + 1) = SchemaAt(0) \cup What(Upgrade[0 + 1])
    BY SchemaGrows
  <2>2. QED
    BY <2>1, SchemaGrows, WhatIsCreated
<1>2. {InitialSchema[k] : k \in 1 .. 20} =
        {"audit_events", "ix_audit_events_correlation_id", "ix_audit_events_entity_id",
         "ix_audit_events_entity_type", "customers", "idempotency_records",
         "ix_idempotency_records_idempotency_key",
         "subscription_state_enum", "subscriptions", "payment_state_enum", "payments",
         "recovery_state_enum", "recovery_cases", "ix_active_recovery_case_per_payment",
         "attempt_state_enum", "recovery_attempts", "recovery_decisions",
         "job_state_enum", "recovery_jobs", "ix_recovery_jobs_poll"}
  BY DEF InitialSchema
<1>3. QED
  BY <1>1, <1>2

LEMMA SchemasOfRevisions ==
  /\ SchemaAt(2) = SchemaAt(1)
        \cup {"chk_payment_amount_positive", "chk_recovery_case_amount_positive"}
  /\ SchemaAt(3) = SchemaAt(2) \cup {"payload"}
  /\ SchemaAt(4) = SchemaAt(3)
        \cup {"ix_recovery_attempts_case_id", "ix_recovery_cases_created_at",
              "ix_recovery_decisions_case_id", "ix_recovery_jobs_case_id"}
<1>1. /\ SchemaAt(1 + 1) = SchemaAt(1) \cup What(Upgrade[1 + 1])
      /\ SchemaAt(2 + 1) = SchemaAt(2) \cup What(Upgrade[2 + 1])
      /\ SchemaAt(3 + 1) = SchemaAt(3) \cup What(Upgrade[3 + 1])
  BY SchemaGrows
<1>2. QED
  BY <1>1, WhatIsCreated

LEMMA SchemaFacts ==
  ASSUME NEW n \in 0 .. 4
  PROVE  /\ "alembic_version" \notin SchemaAt(n)
         /\ n # 0 => {"subscriptions", "recovery_jobs", "recovery_attempts", "recovery_cases",
                      "recovery_decisions", "payments"} \subseteq SchemaAt(n)
<1>1. CASE n = 0
  BY <1>1, SchemaGrows
<1>2. CASE n # 0
  <2>1. \/ n = 1 \/ n = 2 \/ n = 3 \/ n = 4
    BY <1>2
  <2>2. QED
    BY <2>1, InitialObjects, SchemasOfRevisions
<1>3. QED
  BY <1>1, <1>2

(* Each downgrade but the first takes back its upgrade, part by part. *)
LEMMA DowngradeUndoes ==
  ASSUME NEW n \in 2 .. 4
  PROVE  /\ What(Downgrade[n]) = What(Upgrade[n])
         /\ What(Downgrade[n]) \subseteq DOMAIN Parts
         /\ What(Downgrade[n]) \subseteq SchemaAt(n)
         /\ SchemaAt(n) \ What(Downgrade[n]) = SchemaAt(n - 1)
<1>1. What(Downgrade[n]) = What(Upgrade[n])
  <2>1. n = 2 \/ n = 3 \/ n = 4
    OBVIOUS
  <2>2. QED
    BY <2>1, WhatIsCreated, WhatIsDropped
<1>2. What(Downgrade[n]) \subseteq DOMAIN Parts
  <2>1. {"chk_payment_amount_positive", "chk_recovery_case_amount_positive", "payload",
         "ix_recovery_attempts_case_id", "ix_recovery_cases_created_at",
         "ix_recovery_decisions_case_id", "ix_recovery_jobs_case_id"} \subseteq DOMAIN Parts
    BY DEF Parts
  <2>2. QED
    BY <2>1, WhatIsDropped
<1>3. SchemaAt(n) = SchemaAt(n - 1) \cup What(Downgrade[n])
  <2>1. n - 1 \in 0 .. 3 /\ (n - 1) + 1 = n
    OBVIOUS
  <2>2. SchemaAt((n - 1) + 1) = SchemaAt(n - 1) \cup What(Upgrade[(n - 1) + 1])
    BY <2>1, SchemaGrows
  <2>3. QED
    BY <1>1, <2>1, <2>2
<1>4. SchemaAt(n - 1) \cap What(Downgrade[n]) = {}
  <2>1. n = 2 \/ n = 3 \/ n = 4
    OBVIOUS
  <2>2. QED
    BY <2>1, InitialObjects, SchemasOfRevisions, WhatIsDropped
<1>5. QED
  BY <1>1, <1>2, <1>3, <1>4

(* The last revision is what the models declare. *)
LEMMA LastRevisionIsTheModels == SchemaAt(4) = Models
<1>1. SchemaAt(4) =
        {"audit_events", "ix_audit_events_correlation_id", "ix_audit_events_entity_id",
         "ix_audit_events_entity_type", "customers", "idempotency_records",
         "ix_idempotency_records_idempotency_key",
         "subscription_state_enum", "subscriptions", "payment_state_enum", "payments",
         "recovery_state_enum", "recovery_cases", "ix_active_recovery_case_per_payment",
         "attempt_state_enum", "recovery_attempts", "recovery_decisions",
         "job_state_enum", "recovery_jobs", "ix_recovery_jobs_poll",
         "chk_payment_amount_positive", "chk_recovery_case_amount_positive", "payload",
         "ix_recovery_attempts_case_id", "ix_recovery_cases_created_at",
         "ix_recovery_decisions_case_id", "ix_recovery_jobs_case_id"}
  <2>1. SchemaAt(1) = {InitialSchema[k] : k \in 1 .. 20}
    BY InitialObjects
  <2>2. SchemaAt(1) =
        {"audit_events", "ix_audit_events_correlation_id", "ix_audit_events_entity_id",
         "ix_audit_events_entity_type", "customers", "idempotency_records",
         "ix_idempotency_records_idempotency_key",
         "subscription_state_enum", "subscriptions", "payment_state_enum", "payments",
         "recovery_state_enum", "recovery_cases", "ix_active_recovery_case_per_payment",
         "attempt_state_enum", "recovery_attempts", "recovery_decisions",
         "job_state_enum", "recovery_jobs", "ix_recovery_jobs_poll"}
    BY <2>1 DEF InitialSchema
  <2>3. QED
    BY <2>2, SchemasOfRevisions
<1>2. DOMAIN Tables =
        {"audit_events", "customers", "idempotency_records", "subscriptions", "payments",
         "recovery_cases", "recovery_attempts", "recovery_decisions", "recovery_jobs"}
  BY DEF Tables
<1>3. DOMAIN Parts =
        {"ix_audit_events_correlation_id", "ix_audit_events_entity_id",
         "ix_audit_events_entity_type", "ix_idempotency_records_idempotency_key",
         "ix_active_recovery_case_per_payment", "ix_recovery_jobs_poll",
         "chk_payment_amount_positive", "chk_recovery_case_amount_positive", "payload",
         "ix_recovery_attempts_case_id", "ix_recovery_cases_created_at",
         "ix_recovery_decisions_case_id", "ix_recovery_jobs_case_id"}
  BY DEF Parts
<1>4. ToSet(Types) = {"subscription_state_enum", "payment_state_enum", "recovery_state_enum",
                      "attempt_state_enum", "job_state_enum"}
  BY DEF ToSet, Types
<1>5. QED
  BY <1>1, <1>2, <1>3, <1>4 DEF Models
(* The order of the upgrades respects what their objects need. *)
LEMMA InitialSchemaOrder ==
  ASSUME NEW k \in 1 .. 20
  PROVE  /\ \A i \in 1 .. 20 : i # k => InitialSchema[i] # InitialSchema[k]
         /\ Needs(InitialSchema[k]) \subseteq {InitialSchema[i] : i \in 1 .. k - 1}
<1>1. \A i \in 1 .. 20 : i # k => InitialSchema[i] # InitialSchema[k]
  BY DEF InitialSchema
<1>2. \A o \in {"audit_events", "customers", "idempotency_records", "subscription_state_enum", "payment_state_enum", "recovery_state_enum", "attempt_state_enum", "job_state_enum"} :
        Needs(o) = {}
  BY DEF Needs, Tables, Parts
<1>3. Needs("ix_audit_events_correlation_id") = {"audit_events"}
  BY DEF Needs, Tables, Parts
<1>4. Needs("ix_audit_events_entity_id") = {"audit_events"}
  BY DEF Needs, Tables, Parts
<1>5. Needs("ix_audit_events_entity_type") = {"audit_events"}
  BY DEF Needs, Tables, Parts
<1>6. Needs("ix_idempotency_records_idempotency_key") = {"idempotency_records"}
  BY DEF Needs, Tables, Parts
<1>7. Needs("ix_active_recovery_case_per_payment") = {"recovery_cases"}
  BY DEF Needs, Tables, Parts
<1>8. Needs("ix_recovery_jobs_poll") = {"recovery_jobs"}
  BY DEF Needs, Tables, Parts
<1>9. Needs("subscriptions") = {"customers", "subscription_state_enum"}
  BY DEF Needs, Tables, Parts
<1>10. Needs("payments") = {"customers", "subscriptions", "payment_state_enum"}
  BY DEF Needs, Tables, Parts
<1>11. Needs("recovery_cases") = {"customers", "payments", "recovery_state_enum"}
  BY DEF Needs, Tables, Parts
<1>12. Needs("recovery_attempts") = {"recovery_cases", "attempt_state_enum"}
  BY DEF Needs, Tables, Parts
<1>13. Needs("recovery_decisions") = {"recovery_attempts", "recovery_cases"}
  BY DEF Needs, Tables, Parts
<1>14. Needs("recovery_jobs") = {"recovery_attempts", "recovery_cases", "job_state_enum"}
  BY DEF Needs, Tables, Parts
<1>15. ASSUME k = 2 PROVE Needs(InitialSchema[k]) \subseteq {InitialSchema[i] : i \in 1 .. k - 1}
  BY <1>15, <1>3 DEF InitialSchema
<1>16. ASSUME k = 3 PROVE Needs(InitialSchema[k]) \subseteq {InitialSchema[i] : i \in 1 .. k - 1}
  BY <1>16, <1>4 DEF InitialSchema
<1>17. ASSUME k = 4 PROVE Needs(InitialSchema[k]) \subseteq {InitialSchema[i] : i \in 1 .. k - 1}
  BY <1>17, <1>5 DEF InitialSchema
<1>18. ASSUME k = 7 PROVE Needs(InitialSchema[k]) \subseteq {InitialSchema[i] : i \in 1 .. k - 1}
  BY <1>18, <1>6 DEF InitialSchema
<1>19. ASSUME k = 14 PROVE Needs(InitialSchema[k]) \subseteq {InitialSchema[i] : i \in 1 .. k - 1}
  BY <1>19, <1>7 DEF InitialSchema
<1>20. ASSUME k = 20 PROVE Needs(InitialSchema[k]) \subseteq {InitialSchema[i] : i \in 1 .. k - 1}
  BY <1>20, <1>8 DEF InitialSchema
<1>21. ASSUME k = 9 PROVE Needs(InitialSchema[k]) \subseteq {InitialSchema[i] : i \in 1 .. k - 1}
  BY <1>21, <1>9 DEF InitialSchema
<1>22. ASSUME k = 11 PROVE Needs(InitialSchema[k]) \subseteq {InitialSchema[i] : i \in 1 .. k - 1}
  BY <1>22, <1>10 DEF InitialSchema
<1>23. ASSUME k = 13 PROVE Needs(InitialSchema[k]) \subseteq {InitialSchema[i] : i \in 1 .. k - 1}
  BY <1>23, <1>11 DEF InitialSchema
<1>24. ASSUME k = 16 PROVE Needs(InitialSchema[k]) \subseteq {InitialSchema[i] : i \in 1 .. k - 1}
  BY <1>24, <1>12 DEF InitialSchema
<1>25. ASSUME k = 17 PROVE Needs(InitialSchema[k]) \subseteq {InitialSchema[i] : i \in 1 .. k - 1}
  BY <1>25, <1>13 DEF InitialSchema
<1>26. ASSUME k = 19 PROVE Needs(InitialSchema[k]) \subseteq {InitialSchema[i] : i \in 1 .. k - 1}
  BY <1>26, <1>14 DEF InitialSchema
<1>27. CASE k \in {1, 5, 6, 8, 10, 12, 15, 18}
  BY <1>2, <1>27 DEF InitialSchema
<1>28. QED
  BY <1>1, <1>15, <1>16, <1>17, <1>18, <1>19, <1>20, <1>21, <1>22, <1>23, <1>24, <1>25, <1>26, <1>27

LEMMA CreateOrder ==
  ASSUME NEW n \in 1 .. 4, NEW k \in DOMAIN Upgrade[n]
  PROVE  /\ Upgrade[n][k].what \notin SchemaAt(n - 1)
         /\ \A i \in 1 .. k - 1 : Upgrade[n][i].what # Upgrade[n][k].what
         /\ Needs(Upgrade[n][k].what) \subseteq
                SchemaAt(n - 1) \cup {Upgrade[n][i].what : i \in 1 .. k - 1}
<1>1. \A x : Create(x).what = x
  BY DEF Create, Statement
<1>2. /\ Upgrade[1] = Each(Create, InitialSchema) /\ Upgrade[2] = Each(Create, CheckConstraints)
      /\ Upgrade[3] = <<Create("payload")>> /\ Upgrade[4] = Each(Create, ScalingIndexes)
  BY DEF Upgrade
<1>3. /\ DOMAIN InitialSchema = 1 .. 20
      /\ DOMAIN CheckConstraints = 1 .. 2 /\ DOMAIN ScalingIndexes = 1 .. 4
  BY DEF InitialSchema, CheckConstraints, ScalingIndexes
<1>4. CASE n = 1
  <2>1. \A i \in 1 .. 20 : Upgrade[1][i].what = InitialSchema[i]
    BY <1>1, <1>2, <1>3 DEF Each
  <2>2. k \in 1 .. 20 /\ \A i \in 1 .. k - 1 : i \in 1 .. 20 /\ i # k
    BY <1>4, UpgradeStatements
  <2>3. {Upgrade[1][i].what : i \in 1 .. k - 1} = {InitialSchema[i] : i \in 1 .. k - 1}
    BY <2>1, <2>2
  <2>4. SchemaAt(n - 1) = {}
    BY <1>4, SchemaGrows
  <2>5. Needs(InitialSchema[k]) \subseteq {InitialSchema[i] : i \in 1 .. k - 1}
    BY <2>2, InitialSchemaOrder
  <2>6. \A i \in 1 .. k - 1 : InitialSchema[i] # InitialSchema[k]
    BY <2>2, InitialSchemaOrder
  <2>7. \A i \in 1 .. k - 1 : Upgrade[1][i].what # Upgrade[1][k].what
    BY <2>1, <2>2, <2>6
  <2>8. Needs(Upgrade[1][k].what) \subseteq {Upgrade[1][i].what : i \in 1 .. k - 1}
    BY <2>1, <2>2, <2>3, <2>5
  <2>9. QED
    BY <1>4, <2>4, <2>7, <2>8
<1>5. CASE n = 2
  <2>1. \A i \in 1 .. 2 : Upgrade[2][i].what = CheckConstraints[i]
    BY <1>1, <1>2, <1>3 DEF Each
  <2>2. k \in 1 .. 2 /\ \A i \in 1 .. k - 1 : i \in 1 .. 2 /\ i # k
    BY <1>5, UpgradeStatements
  <2>3. /\ CheckConstraints[1] # CheckConstraints[2]
        /\ \A i \in 1 .. 2 : CheckConstraints[i] \in
              {"chk_payment_amount_positive", "chk_recovery_case_amount_positive"}
    BY DEF CheckConstraints
  <2>4. /\ Needs("chk_payment_amount_positive") = {"payments"}
        /\ Needs("chk_recovery_case_amount_positive") = {"recovery_cases"}
    BY DEF Needs, Parts, Tables
  <2>5. \A i \in 1 .. k - 1 : Upgrade[2][i].what # Upgrade[2][k].what
    BY <2>1, <2>2, <2>3
  <2>6. Upgrade[2][k].what \notin SchemaAt(1) /\ Needs(Upgrade[2][k].what) \subseteq SchemaAt(1)
    BY <2>1, <2>2, <2>3, <2>4, InitialObjects
  <2>7. n - 1 = 1
    BY <1>5
  <2>8. QED
    BY <1>5, <2>5, <2>6, <2>7
<1>6. CASE n = 3
  <2>1. k = 1 /\ Upgrade[3][1].what = "payload"
    BY <1>1, <1>2, <1>6, UpgradeStatements
  <2>2. Needs("payload") = {"recovery_jobs"}
    BY DEF Needs, Parts, Tables
  <2>3. "payload" \notin SchemaAt(2) /\ "recovery_jobs" \in SchemaAt(2)
    BY InitialObjects, SchemasOfRevisions
  <2>4. n - 1 = 2
    BY <1>6
  <2>5. \A i \in 1 .. k - 1 : FALSE
    BY <2>1
  <2>6. QED
    BY <1>6, <2>1, <2>2, <2>3, <2>4, <2>5
<1>7. CASE n = 4
  <2>1. \A i \in 1 .. 4 : Upgrade[4][i].what = ScalingIndexes[i]
    BY <1>1, <1>2, <1>3 DEF Each
  <2>2. k \in 1 .. 4 /\ \A i \in 1 .. k - 1 : i \in 1 .. 4 /\ i # k
    BY <1>7, UpgradeStatements
  <2>3. /\ \A i, j \in 1 .. 4 : i # j => ScalingIndexes[i] # ScalingIndexes[j]
        /\ \A i \in 1 .. 4 : ScalingIndexes[i] \in
              {"ix_recovery_attempts_case_id", "ix_recovery_cases_created_at",
               "ix_recovery_decisions_case_id", "ix_recovery_jobs_case_id"}
    BY DEF ScalingIndexes
  <2>4. /\ Needs("ix_recovery_attempts_case_id") = {"recovery_attempts"}
        /\ Needs("ix_recovery_cases_created_at") = {"recovery_cases"}
        /\ Needs("ix_recovery_decisions_case_id") = {"recovery_decisions"}
        /\ Needs("ix_recovery_jobs_case_id") = {"recovery_jobs"}
    BY DEF Needs, Parts, Tables
  <2>5. \A i \in 1 .. k - 1 : Upgrade[4][i].what # Upgrade[4][k].what
    BY <2>1, <2>2, <2>3
  <2>6. Upgrade[4][k].what \notin SchemaAt(3) /\ Needs(Upgrade[4][k].what) \subseteq SchemaAt(3)
    BY <2>1, <2>2, <2>3, <2>4, InitialObjects, SchemasOfRevisions
  <2>7. n - 1 = 3
    BY <1>7
  <2>8. QED
    BY <1>7, <2>5, <2>6, <2>7
<1>8. QED
  BY <1>4, <1>5, <1>6, <1>7

-----------------------------------------------------------------------------
(* The inductive invariant. *)
Running(r) == runner[r].pc = "running"

IsRecord(me) ==
    me = [pc |-> me.pc, prepare |-> me.prepare, at |-> me.at, to |-> me.to,
          done |-> me.done, made |-> me.made, gone |-> me.gone,
          locks |-> me.locks, alone |-> me.alone, failed |-> me.failed]

IsRunner(me) ==
    /\ IsRecord(me)
    /\ me.prepare \in BOOLEAN /\ me.alone \in BOOLEAN
    /\ me.at \in 0 .. 4 /\ me.to \in 0 .. 4 /\ me.done \in Nat

AllAreRunners ==
    /\ runner = [r \in Runners |-> runner[r]]
    /\ \A r \in Runners : IsRunner(runner[r])

(* The objects a transaction has done on the way to its next revision, and *)
(* what its schema is then.                                                *)
Progress(me) == {Script(me.at, me.to)[k].what : k \in 1 .. me.done}

Reached(me) == IF me.at < me.to THEN SchemaAt(me.at) \cup Progress(me)
               ELSE SchemaAt(me.at) \ Progress(me)

(* Where a command can be: it never gets past the first statement of the   *)
(* downgrade of initial_schema.                                            *)
OnTheWay(r) ==
    LET me == runner[r]
    IN  /\ me.at = me.to => me.done = 0 /\ "alembic_version" \in me.locks
        /\ me.at # me.to => 1 .. me.done \subseteq DOMAIN Script(me.at, me.to)
        /\ me.to = 0 => me.at # 0 /\ version # 0 /\ (me.at = 1 => me.done = 0)
        /\ me.at # 0 /\ "alembic_version" \notin me.locks => version # 0
        /\ me.prepare => me.at = 0 /\ me.done = 0 /\ "alembic_version" \notin me.locks

(* Before it has locked the version, a transaction knows its own changes   *)
(* only; afterwards nobody else commits, and its whole view is known.      *)
OwnChanges(r) ==
    "alembic_version" \notin runner[r].locks =>
        /\ runner[r].made =
              IF runner[r].at < runner[r].to THEN Progress(runner[r]) ELSE {}
        /\ runner[r].gone =
              IF runner[r].at < runner[r].to THEN {} ELSE Progress(runner[r])

WholeView(r) ==
    "alembic_version" \in runner[r].locks =>
        View(r) \ {"alembic_version"} = Reached(runner[r])

SeesVersion(r) ==
    /\ "alembic_version" \notin runner[r].gone
    /\ runner[r].prepare \/ "alembic_version" \in View(r)

RunnerIsSound(r) == OnTheWay(r) /\ OwnChanges(r) /\ WholeView(r) /\ SeesVersion(r)

VersionIsSound ==
    /\ version \in 0 .. 4
    /\ "alembic_version" \notin schema => version = 0

LocksExclude ==
    \A q, r \in Runners : Running(q) /\ Running(r) /\ q # r =>
        runner[q].locks \cap runner[r].locks = {}

(* While a transaction is alone, what it read when it began still holds. *)
NothingElseRuns(r) ==
    runner[r].alone =>
        /\ Others(r) = {}
        /\ Running(r) /\ "alembic_version" \notin runner[r].locks =>
              /\ version = runner[r].at
              /\ runner[r].prepare = ("alembic_version" \notin schema)

MigrationInv ==
    /\ AllAreRunners
    /\ VersionTellsSchema
    /\ VersionIsSound
    /\ LocksExclude
    /\ \A r \in Runners : Running(r) => RunnerIsSound(r)
    /\ \A r \in Runners : NothingElseRuns(r)
    /\ LoneRunSucceeds

-----------------------------------------------------------------------------
(* The next statement of a command. *)
LEMMA StatementFields ==
  /\ \A x : Create(x).do = "create" /\ Create(x).what = x
  /\ \A x : Drop(x).do = "drop" /\ Drop(x).what = x
  /\ \A x : DropType(x).do = "drop_if_exists" /\ DropType(x).what = x
  /\ /\ Statement("set_version", "alembic_version").do = "set_version"
     /\ Statement("set_version", "alembic_version").what = "alembic_version"
BY DEF Create, Drop, DropType, Statement

LEMMA VersionLock ==
  /\ Locked(Create("alembic_version")) = {"alembic_version"}
  /\ Locked(Statement("set_version", "alembic_version")) = {"alembic_version"}
  /\ Needs("alembic_version") = {}
BY VersionTableIsApart, StatementFields DEF Locked, Needs

LEMMA OtherLocks ==
  ASSUME NEW s, s.what # "alembic_version"
  PROVE  "alembic_version" \notin Locked(s)
BY VersionTableIsApart DEF Locked

LEMMA Scripts ==
  ASSUME NEW me, me.at \in 0 .. 4, me.to \in 0 .. 4, me.at # me.to
  PROVE  /\ me.at < me.to => /\ me.at + 1 \in 1 .. 4
                             /\ Script(me.at, me.to) = Upgrade[me.at + 1]
                             /\ Revision(me.at, me.to) = me.at + 1
         /\ ~(me.at < me.to) => /\ me.at \in 1 .. 4
                                /\ Script(me.at, me.to) = Downgrade[me.at]
                                /\ Revision(me.at, me.to) = me.at - 1
BY DEF Script, Revision

(* Which statement that is, by where the command stands. *)
LEMMA UpgradeStep ==
  ASSUME NEW r \in Runners, IsRunner(runner[r]), runner[r].at < runner[r].to,
         ~runner[r].prepare, runner[r].done + 1 \in DOMAIN Upgrade[runner[r].at + 1]
  PROVE  NextStatement(runner[r]) =
             Create(Upgrade[runner[r].at + 1][runner[r].done + 1].what)
<1>1. /\ runner[r].at + 1 \in 1 .. 4
      /\ Script(runner[r].at, runner[r].to) = Upgrade[runner[r].at + 1]
  BY Scripts DEF IsRunner
<1>2. NextStatement(runner[r]) = Upgrade[runner[r].at + 1][runner[r].done + 1]
  BY <1>1 DEF NextStatement
<1>3. QED
  BY <1>1, <1>2, UpgradeStatements

LEMMA DowngradeStep ==
  ASSUME NEW r \in Runners, IsRunner(runner[r]), ~(runner[r].at < runner[r].to),
         runner[r].at # runner[r].to,
         ~runner[r].prepare, runner[r].done + 1 \in DOMAIN Downgrade[runner[r].at]
  PROVE  NextStatement(runner[r]) = Downgrade[runner[r].at][runner[r].done + 1]
<1>1. Script(runner[r].at, runner[r].to) = Downgrade[runner[r].at]
  BY Scripts DEF IsRunner
<1>2. QED
  BY <1>1 DEF NextStatement

LEMMA ScriptDomain ==
  ASSUME NEW me, me.at \in 0 .. 4, me.to \in 0 .. 4, me.at # me.to,
         me.at < me.to \/ me.at # 1
  PROVE  \E m \in Nat : DOMAIN Script(me.at, me.to) = 1 .. m
<1>1. CASE me.at < me.to
  <2>1. me.at + 1 \in 1 .. 4 /\ Script(me.at, me.to) = Upgrade[me.at + 1]
    BY <1>1, Scripts
  <2>2. me.at + 1 = 1 \/ me.at + 1 = 2 \/ me.at + 1 = 3 \/ me.at + 1 = 4
    BY <2>1
  <2>3. QED
    BY <2>1, <2>2, UpgradeStatements
<1>2. CASE ~(me.at < me.to)
  <2>1. me.at \in 2 .. 4 /\ Script(me.at, me.to) = Downgrade[me.at]
    BY <1>2, Scripts
  <2>2. me.at = 2 \/ me.at = 3 \/ me.at = 4
    BY <2>1
  <2>3. QED
    BY <2>1, <2>2, DowngradeStatements
<1>3. QED
  BY <1>1, <1>2

(* Progress, statement by statement. *)
LEMMA ProgressGrows ==
  ASSUME NEW me, NEW next, me.done \in Nat, next.done = me.done + 1,
         next.at = me.at, next.to = me.to
  PROVE  Progress(next) = Progress(me) \cup {Script(me.at, me.to)[me.done + 1].what}
<1>1. 1 .. me.done + 1 = (1 .. me.done) \cup {me.done + 1}
  OBVIOUS
<1>2. QED
  BY <1>1 DEF Progress

LEMMA NoProgress ==
  ASSUME NEW me, me.done = 0
  PROVE  Progress(me) = {}
BY DEF Progress

LEMMA WholeProgress ==
  ASSUME NEW me, me.at \in 0 .. 4, me.to \in 0 .. 4, me.done \in Nat, me.at # me.to,
         me.at < me.to \/ me.at # 1,
         1 .. me.done \subseteq DOMAIN Script(me.at, me.to),
         me.done + 1 \notin DOMAIN Script(me.at, me.to)
  PROVE  Progress(me) = What(Script(me.at, me.to))
<1>1. PICK m \in Nat : DOMAIN Script(me.at, me.to) = 1 .. m
  BY ScriptDomain
<1>2. me.done = m
  <2>1. me.done + 1 > m
    BY <1>1
  <2>2. me.done # 0 => me.done <= m
    <3>1. me.done # 0 => me.done \in 1 .. me.done
      OBVIOUS
    <3>2. QED
      BY <1>1, <3>1
  <2>3. QED
    BY <2>1, <2>2
<1>3. QED
  BY <1>1, <1>2 DEF Progress, What

(* When nothing was committed since a transaction read the version, it sees *)
(* what its revision and its own statements make.                           *)
LEMMA ViewOfTheReached ==
  ASSUME NEW r \in Runners, IsRunner(runner[r]), OnTheWay(r), OwnChanges(r),
         VersionTellsSchema, "alembic_version" \notin runner[r].locks,
         version = runner[r].at
  PROVE  View(r) \ {"alembic_version"} = Reached(runner[r])
<1> DEFINE me == runner[r]
<1>1. /\ me.at \in 0 .. 4 /\ me.to \in 0 .. 4 /\ me.done \in Nat
      /\ schema \ {"alembic_version"} = SchemaAt(me.at)
      /\ me.at # me.to
  BY DEF IsRunner, VersionTellsSchema, OnTheWay
<1>2. CASE me.at < me.to
  <2>1. me.made = Progress(me) /\ me.gone = {}
    BY <1>2 DEF OwnChanges
  <2>2. "alembic_version" \notin Progress(me)
    <3>1. /\ me.at + 1 \in 1 .. 4 /\ Script(me.at, me.to) = Upgrade[me.at + 1]
      BY <1>1, <1>2, Scripts
    <3>2. 1 .. me.done \subseteq DOMAIN Upgrade[me.at + 1]
      BY <1>1, <3>1 DEF OnTheWay
    <3>3. Progress(me) \subseteq What(Upgrade[me.at + 1])
      BY <3>1, <3>2 DEF Progress, What
    <3>4. What(Upgrade[me.at + 1]) \subseteq SchemaAt(me.at + 1)
      BY <3>1 DEF SchemaAt
    <3>5. "alembic_version" \notin SchemaAt(me.at + 1)
      BY <3>1, SchemaFacts
    <3>6. QED
      BY <3>3, <3>4, <3>5
  <2>3. QED
    BY <1>1, <1>2, <2>1, <2>2 DEF Reached, View
<1>3. CASE ~(me.at < me.to)
  <2>1. me.made = {} /\ me.gone = Progress(me)
    BY <1>3 DEF OwnChanges
  <2>2. QED
    BY <1>1, <1>3, <2>1 DEF Reached, View
<1>4. QED
  BY <1>2, <1>3

-----------------------------------------------------------------------------
(* What a statement makes of its transaction. *)
Moved(me, at, done, made, gone, locks) ==
    [pc |-> me.pc, prepare |-> FALSE, at |-> at, to |-> me.to, done |-> done,
     made |-> made, gone |-> gone, locks |-> locks, alone |-> me.alone,
     failed |-> me.failed]

LEMMA PrepareAfter ==
  ASSUME NEW r \in Runners, IsRunner(runner[r]), runner[r].prepare
  PROVE  After(r, Create("alembic_version")) =
           Moved(runner[r], runner[r].at, runner[r].done,
                 runner[r].made \cup {"alembic_version"}, runner[r].gone,
                 runner[r].locks \cup {"alembic_version"})
<1>1. Create("alembic_version").do # "set_version"
  BY StatementFields
<1>2. QED
  BY <1>1, StatementFields, VersionLock DEF After, Moved, IsRunner, IsRecord

LEMMA CreateAfter ==
  ASSUME NEW r \in Runners, IsRunner(runner[r]), ~runner[r].prepare, NEW x
  PROVE  After(r, Create(x)) =
           Moved(runner[r], runner[r].at, runner[r].done + 1,
                 runner[r].made \cup {x}, runner[r].gone \ {x},
                 runner[r].locks \cup Locked(Create(x)))
<1>1. Create(x).do = "create" /\ Create(x).what = x
  BY StatementFields
<1>2. QED
  BY <1>1 DEF After, Moved, IsRunner, IsRecord

LEMMA DropAfter ==
  ASSUME NEW r \in Runners, IsRunner(runner[r]), ~runner[r].prepare, NEW x \in DOMAIN Parts
  PROVE  After(r, Drop(x)) =
           Moved(runner[r], runner[r].at, runner[r].done + 1,
                 runner[r].made \ {x}, runner[r].gone \cup {x},
                 runner[r].locks \cup Locked(Drop(x)))
<1>1. Drop(x).do = "drop" /\ Drop(x).what = x
  BY StatementFields
<1>2. PartsOf(x, View(r)) = {}
  BY PartsAreParts DEF PartsOf
<1>3. QED
  BY <1>1, <1>2 DEF After, Moved, IsRunner, IsRecord

LEMMA SetVersionAfter ==
  ASSUME NEW r \in Runners, IsRunner(runner[r]), ~runner[r].prepare
  PROVE  After(r, Statement("set_version", "alembic_version")) =
           Moved(runner[r], Revision(runner[r].at, runner[r].to), 0,
                 runner[r].made, runner[r].gone, runner[r].locks \cup {"alembic_version"})
BY StatementFields, VersionLock DEF After, Moved, IsRunner, IsRecord

(* A statement that keeps its transaction sound keeps the invariant. *)
LEMMA StatementKeepsInvariant ==
  ASSUME MigrationInv, NEW r \in Runners, Running(r), NEW s, NEW me,
         \A q \in Others(r) : Locked(s) \cap runner[q].locks = {},
         runner' = [runner EXCEPT ![r] = me], UNCHANGED <<schema, version>>,
         IsRunner(me), me.pc = "running", me.alone = runner[r].alone,
         me.locks = runner[r].locks \cup Locked(s),
         "alembic_version" \notin me.locks =>
            me.at = runner[r].at /\ me.prepare = runner[r].prepare,
         RunnerIsSound(r)'
  PROVE  MigrationInv'
<1>1. /\ runner' = [q \in Runners |-> runner'[q]]
      /\ runner'[r] = me
      /\ \A q \in Runners \ {r} : runner'[q] = runner[q]
  BY DEF MigrationInv, AllAreRunners
<1>2. AllAreRunners'
  BY <1>1 DEF MigrationInv, AllAreRunners, IsRunner
<1>3. VersionTellsSchema' /\ VersionIsSound'
  BY DEF MigrationInv, VersionTellsSchema, VersionIsSound
<1>4. \A q \in Runners : Running(q)' <=> Running(q)
  BY <1>1 DEF Running
<1>5. LocksExclude'
  <2>1. \A q \in Runners \ {r} : Running(q) => me.locks \cap runner[q].locks = {}
    BY DEF MigrationInv, LocksExclude, Others, Running
  <2>2. QED
    BY <1>1, <1>4, <2>1 DEF MigrationInv, LocksExclude
<1>6. ASSUME NEW q \in Runners, Running(q)'
      PROVE  RunnerIsSound(q)'
  <2>1. CASE q = r
    BY <2>1
  <2>2. CASE q # r
    <3>1. runner'[q] = runner[q] /\ schema' = schema /\ version' = version
      BY <1>1, <2>2
    <3>2. RunnerIsSound(q)
      BY <1>4, <1>6 DEF MigrationInv
    <3>3. QED
      BY <3>1, <3>2
         DEF RunnerIsSound, OnTheWay, OwnChanges, WholeView, SeesVersion, View
  <2>3. QED
    BY <2>1, <2>2
<1>7. \A q \in Runners : Others(q)' = Others(q)
  BY <1>1, <1>4 DEF Others, Running
<1>8. \A q \in Runners \ {r} : ~runner[q].alone
  BY DEF MigrationInv, NothingElseRuns, Others, Running
<1>9. ASSUME NEW q \in Runners
      PROVE  NothingElseRuns(q)'
  <2>1. CASE q = r
    BY <1>1, <1>7, <2>1 DEF MigrationInv, NothingElseRuns, Running
  <2>2. CASE q # r
    BY <1>1, <1>8, <2>2 DEF NothingElseRuns
  <2>3. QED
    BY <2>1, <2>2
<1>10. LoneRunSucceeds'
  BY <1>1, <1>8 DEF LoneRunSucceeds
<1>11. QED
  BY <1>2, <1>3, <1>5, <1>6, <1>9, <1>10 DEF MigrationInv

-----------------------------------------------------------------------------
(* The statements one after the other. *)
LEMMA PrepareStep ==
  ASSUME MigrationInv, NEW r \in Runners, Execute(r), runner[r].prepare
  PROVE  MigrationInv'
<1> DEFINE me   == runner[r]
           s    == Create("alembic_version")
           next == Moved(me, me.at, me.done, me.made \cup {"alembic_version"},
                         me.gone, me.locks \cup {"alembic_version"})
<1>1. /\ Running(r) /\ me.at # me.to /\ NextStatement(me) = s
      /\ \A q \in Others(r) : Locked(s) \cap runner[q].locks = {}
      /\ Allowed(r, s) /\ UNCHANGED <<schema, version>>
  BY DEF Execute, Reaches, Running, NextStatement
<1>2. IsRunner(me) /\ RunnerIsSound(r) /\ runner = [q \in Runners |-> runner[q]]
  BY <1>1 DEF MigrationInv, AllAreRunners
<1>3. runner' = [runner EXCEPT ![r] = next] /\ runner'[r] = next
  BY <1>1, <1>2, PrepareAfter DEF Execute
<1>4. /\ IsRunner(next) /\ next.pc = "running" /\ next.alone = me.alone
      /\ next.locks = me.locks \cup Locked(s) /\ "alembic_version" \in next.locks
      /\ next.at = me.at /\ next.to = me.to /\ next.done = me.done /\ next.gone = me.gone
      /\ next.made = me.made \cup {"alembic_version"} /\ next.prepare = FALSE
  <2>1. me.at \in 0 .. 4 /\ me.done \in Nat /\ me.pc = "running"
    BY <1>1, <1>2 DEF IsRunner, Running
  <2>2. /\ IsRecord(next) /\ next.pc = me.pc /\ next.alone = me.alone
        /\ next.locks = me.locks \cup {"alembic_version"}
        /\ next.at = me.at /\ next.to = me.to /\ next.done = me.done /\ next.gone = me.gone
        /\ next.made = me.made \cup {"alembic_version"} /\ next.prepare = FALSE
    BY DEF Moved, IsRecord
  <2> HIDE DEF next
  <2>3. IsRunner(next)
    BY <1>2, <2>2 DEF IsRunner
  <2>4. QED
    BY <2>1, <2>2, <2>3, VersionLock
<1> HIDE DEF next
<1>5. /\ me.at = 0 /\ me.done = 0 /\ "alembic_version" \notin me.locks /\ me.at < me.to
      /\ me.made = {} /\ me.gone = {}
  BY <1>1, <1>2, NoProgress DEF RunnerIsSound, OnTheWay, OwnChanges, IsRunner
<1>6. version = 0
  BY <1>1, <1>5, StatementFields DEF Allowed, View, MigrationInv, VersionIsSound
<1>7. View(r) = schema /\ View(r)' = schema \cup {"alembic_version"}
  BY <1>1, <1>3, <1>4, <1>5 DEF View
<1>8. WholeView(r)'
  <2>1. Reached(next) = SchemaAt(0)
    BY <1>4, <1>5, NoProgress, SchemaGrows DEF Reached
  <2>2. schema \ {"alembic_version"} = SchemaAt(0)
    BY <1>6 DEF MigrationInv, VersionTellsSchema
  <2>3. QED
    BY <1>3, <1>7, <2>1, <2>2 DEF WholeView
<1>9. OnTheWay(r)'
  BY <1>1, <1>3, <1>4, <1>5 DEF OnTheWay
<1>10. OwnChanges(r)' /\ SeesVersion(r)'
  BY <1>3, <1>4, <1>5, <1>7 DEF OwnChanges, SeesVersion
<1>11. QED
  BY <1>1, <1>3, <1>4, <1>8, <1>9, <1>10, StatementKeepsInvariant DEF RunnerIsSound

LEMMA CreateStep ==
  ASSUME MigrationInv, NEW r \in Runners, Execute(r), ~runner[r].prepare,
         runner[r].at < runner[r].to,
         runner[r].done + 1 \in DOMAIN Upgrade[runner[r].at + 1]
  PROVE  MigrationInv'
<1> DEFINE me   == runner[r]
           x    == Upgrade[me.at + 1][me.done + 1].what
           s    == Create(x)
           next == Moved(me, me.at, me.done + 1, me.made \cup {x}, me.gone \ {x},
                         me.locks \cup Locked(s))
<1>1. /\ Running(r) /\ me.at # me.to /\ UNCHANGED <<schema, version>>
      /\ IsRunner(me) /\ RunnerIsSound(r) /\ runner = [q \in Runners |-> runner[q]]
  BY DEF Execute, Reaches, Running, MigrationInv, AllAreRunners
<1>2. NextStatement(me) = s
  BY <1>1, UpgradeStep
<1>3. /\ \A q \in Others(r) : Locked(s) \cap runner[q].locks = {}
      /\ runner' = [runner EXCEPT ![r] = next] /\ runner'[r] = next
  BY <1>1, <1>2, CreateAfter DEF Execute, Reaches
<1>4. /\ IsRunner(next) /\ next.pc = "running" /\ next.alone = me.alone
      /\ next.locks = me.locks \cup Locked(s)
      /\ next.at = me.at /\ next.to = me.to /\ next.done = me.done + 1
      /\ next.made = me.made \cup {x} /\ next.gone = me.gone \ {x} /\ next.prepare = FALSE
  <2>1. me.at \in 0 .. 4 /\ me.done + 1 \in Nat /\ me.pc = "running"
    BY <1>1 DEF IsRunner, Running
  <2>2. /\ IsRecord(next) /\ next.pc = me.pc /\ next.alone = me.alone
        /\ next.locks = me.locks \cup Locked(s)
        /\ next.at = me.at /\ next.to = me.to /\ next.done = me.done + 1
        /\ next.made = me.made \cup {x} /\ next.gone = me.gone \ {x} /\ next.prepare = FALSE
    BY DEF Moved, IsRecord
  <2> HIDE DEF next
  <2>3. IsRunner(next)
    BY <1>1, <2>1, <2>2 DEF IsRunner
  <2>4. QED
    BY <2>1, <2>2, <2>3
<1>5. /\ me.at + 1 \in 1 .. 4 /\ me.at \in 0 .. 4 /\ me.to \in 0 .. 4 /\ me.done \in Nat
      /\ Script(me.at, me.to) = Upgrade[me.at + 1]
  BY <1>1, Scripts DEF IsRunner
<1> HIDE DEF next
<1>6. x # "alembic_version"
  <2>1. x \in SchemaAt(me.at + 1)
    BY <1>5 DEF SchemaAt, What
  <2>2. QED
    BY <1>5, <2>1, SchemaFacts
<1>7. "alembic_version" \notin Locked(s)
  BY <1>6, StatementFields, OtherLocks
<1>8. Progress(next) = Progress(me) \cup {x}
  BY <1>4, <1>5, ProgressGrows
<1>9. View(r)' = View(r) \cup {x}
  BY <1>1, <1>3, <1>4 DEF View
<1>10. Reached(next) = Reached(me) \cup {x}
  BY <1>4, <1>8 DEF Reached
<1>11. OnTheWay(r)'
  <2>1. 1 .. me.done + 1 = (1 .. me.done) \cup {me.done + 1}
    BY <1>5
  <2>2. 1 .. next.done \subseteq DOMAIN Script(next.at, next.to)
    BY <1>1, <1>4, <1>5, <2>1 DEF RunnerIsSound, OnTheWay
  <2>3. /\ next.at # next.to /\ next.to # 0 /\ next.prepare = FALSE
        /\ next.at # 0 /\ "alembic_version" \notin next.locks => version # 0
    BY <1>1, <1>4, <1>5, <1>7 DEF RunnerIsSound, OnTheWay
  <2>4. QED
    BY <1>1, <1>3, <2>2, <2>3 DEF OnTheWay
<1>12. OwnChanges(r)'
  BY <1>1, <1>3, <1>4, <1>7, <1>8 DEF RunnerIsSound, OwnChanges
<1>13. WholeView(r)'
  BY <1>1, <1>3, <1>4, <1>6, <1>7, <1>9, <1>10 DEF RunnerIsSound, WholeView
<1>14. SeesVersion(r)'
  BY <1>1, <1>3, <1>4, <1>9 DEF RunnerIsSound, SeesVersion
<1>15. next.prepare = me.prepare
  BY <1>1, <1>4 DEF IsRunner
<1>16. RunnerIsSound(r)'
  BY <1>11, <1>12, <1>13, <1>14 DEF RunnerIsSound
<1>17. QED
  BY <1>1, <1>3, <1>4, <1>15, <1>16, StatementKeepsInvariant

LEMMA DropStep ==
  ASSUME MigrationInv, NEW r \in Runners, Execute(r), ~runner[r].prepare,
         ~(runner[r].at < runner[r].to), runner[r].at # 1,
         runner[r].done + 1 \in DOMAIN Downgrade[runner[r].at]
  PROVE  MigrationInv'
<1> DEFINE me   == runner[r]
           x    == Downgrade[me.at][me.done + 1].what
           s    == Drop(x)
           next == Moved(me, me.at, me.done + 1, me.made \ {x}, me.gone \cup {x},
                         me.locks \cup Locked(s))
<1>1. /\ Running(r) /\ me.at # me.to /\ UNCHANGED <<schema, version>>
      /\ IsRunner(me) /\ RunnerIsSound(r) /\ runner = [q \in Runners |-> runner[q]]
  BY DEF Execute, Reaches, Running, MigrationInv, AllAreRunners
<1>2. /\ me.at \in 2 .. 4 /\ me.to \in 0 .. 4 /\ me.done \in Nat
      /\ Script(me.at, me.to) = Downgrade[me.at]
  <2>1. me.at \in 0 .. 4 /\ me.to \in 0 .. 4 /\ me.done \in Nat
    BY <1>1 DEF IsRunner
  <2>2. QED
    BY <1>1, <2>1, Scripts
<1>3. NextStatement(me) = s /\ x \in What(Downgrade[me.at])
  BY <1>1, <1>2, DowngradeStep, WhatIsDropped DEF What
<1>4. x \in DOMAIN Parts /\ x # "alembic_version"
  BY <1>2, <1>3, DowngradeUndoes, VersionTableIsApart
<1>5. /\ \A q \in Others(r) : Locked(s) \cap runner[q].locks = {}
      /\ runner' = [runner EXCEPT ![r] = next] /\ runner'[r] = next
  BY <1>1, <1>3, <1>4, DropAfter DEF Execute, Reaches
<1>6. /\ IsRunner(next) /\ next.pc = "running" /\ next.alone = me.alone
      /\ next.locks = me.locks \cup Locked(s)
      /\ next.at = me.at /\ next.to = me.to /\ next.done = me.done + 1
      /\ next.made = me.made \ {x} /\ next.gone = me.gone \cup {x} /\ next.prepare = FALSE
  <2>1. me.at \in 0 .. 4 /\ me.done + 1 \in Nat /\ me.pc = "running"
    BY <1>1 DEF IsRunner, Running
  <2>2. /\ IsRecord(next) /\ next.pc = me.pc /\ next.alone = me.alone
        /\ next.locks = me.locks \cup Locked(s)
        /\ next.at = me.at /\ next.to = me.to /\ next.done = me.done + 1
        /\ next.made = me.made \ {x} /\ next.gone = me.gone \cup {x} /\ next.prepare = FALSE
    BY DEF Moved, IsRecord
  <2> HIDE DEF next
  <2>3. IsRunner(next)
    BY <1>1, <2>1, <2>2 DEF IsRunner
  <2>4. QED
    BY <2>1, <2>2, <2>3
<1> HIDE DEF next
<1>7. "alembic_version" \notin Locked(s)
  BY <1>4, StatementFields, OtherLocks
<1>8. Progress(next) = Progress(me) \cup {x}
  BY <1>2, <1>6, ProgressGrows
<1>9. View(r)' = View(r) \ {x}
  BY <1>1, <1>5, <1>6 DEF View
<1>10. Reached(next) = Reached(me) \ {x}
  BY <1>6, <1>8 DEF Reached
<1>11. OnTheWay(r)'
  <2>1. 1 .. me.done + 1 = (1 .. me.done) \cup {me.done + 1}
    BY <1>2
  <2>2. 1 .. next.done \subseteq DOMAIN Script(next.at, next.to)
    BY <1>1, <1>2, <1>6, <2>1 DEF RunnerIsSound, OnTheWay
  <2>3. QED
    BY <1>1, <1>2, <1>5, <1>6, <1>7, <2>2 DEF RunnerIsSound, OnTheWay
<1>12. OwnChanges(r)'
  BY <1>1, <1>5, <1>6, <1>7, <1>8 DEF RunnerIsSound, OwnChanges
<1>13. WholeView(r)'
  BY <1>1, <1>5, <1>6, <1>7, <1>9, <1>10 DEF RunnerIsSound, WholeView
<1>14. SeesVersion(r)'
  BY <1>1, <1>4, <1>5, <1>6, <1>9 DEF RunnerIsSound, SeesVersion
<1>15. next.prepare = me.prepare
  BY <1>1, <1>6 DEF IsRunner
<1>16. RunnerIsSound(r)'
  BY <1>11, <1>12, <1>13, <1>14 DEF RunnerIsSound
<1>17. QED
  BY <1>1, <1>5, <1>6, <1>15, <1>16, StatementKeepsInvariant

(* The tables that use the first type are seen at revision 1. *)
LEMMA TypeIsUsed ==
  ASSUME MigrationInv, NEW r \in Runners, Running(r), runner[r].at = 1, runner[r].to = 0
  PROVE  /\ runner[r].done = 0 /\ ~runner[r].prepare
         /\ NextStatement(runner[r]) = DropType("subscription_state_enum")
         /\ UsersOf("subscription_state_enum", View(r)) # {}
         /\ UsersOf("subscription_state_enum", schema) # {}
<1> DEFINE me == runner[r]
<1>1. IsRunner(me) /\ RunnerIsSound(r)
  BY DEF MigrationInv, AllAreRunners
<1>2. me.done = 0 /\ ~me.prepare /\ version # 0
  BY <1>1 DEF RunnerIsSound, OnTheWay
<1>3. NextStatement(me) = DropType("subscription_state_enum")
  BY <1>1, <1>2, DowngradeStep, DowngradeOfInitialSchema
<1>4. Progress(me) = {}
  BY <1>2, NoProgress
<1>5. "subscriptions" \in schema
  BY <1>2, SchemaFacts DEF MigrationInv, VersionIsSound, VersionTellsSchema
<1>6. "subscriptions" \in View(r)
  <2>1. CASE "alembic_version" \in me.locks
    <3>1. View(r) \ {"alembic_version"} = SchemaAt(1)
      BY <1>1, <1>4, <2>1 DEF RunnerIsSound, WholeView, Reached
    <3>2. QED
      BY <3>1, InitialObjects
  <2>2. CASE "alembic_version" \notin me.locks
    BY <1>1, <1>4, <1>5, <2>2 DEF RunnerIsSound, OwnChanges, View
  <2>3. QED
    BY <2>1, <2>2
<1>7. "subscriptions" \in DOMAIN Tables /\ "subscription_state_enum" \in Tables["subscriptions"]
  BY DEF Tables
<1>8. QED
  BY <1>2, <1>3, <1>5, <1>6, <1>7 DEF UsersOf

(* At the end of a revision, a transaction that holds the version, or finds *)
(* what it read, has what the revision stands for.                          *)
LEMMA VersionStep ==
  ASSUME MigrationInv, NEW r \in Runners, Execute(r), ~runner[r].prepare,
         runner[r].at < runner[r].to \/ runner[r].at # 1,
         runner[r].done + 1 \notin DOMAIN Script(runner[r].at, runner[r].to)
  PROVE  MigrationInv'
<1> DEFINE me   == runner[r]
           s    == Statement("set_version", "alembic_version")
           at   == Revision(me.at, me.to)
           next == Moved(me, at, 0, me.made, me.gone,
                         me.locks \cup {"alembic_version"})
<1>1. /\ Running(r) /\ me.at # me.to /\ UNCHANGED <<schema, version>>
      /\ IsRunner(me) /\ RunnerIsSound(r) /\ runner = [q \in Runners |-> runner[q]]
  BY DEF Execute, Reaches, Running, MigrationInv, AllAreRunners
<1>2. me.at \in 0 .. 4 /\ me.to \in 0 .. 4 /\ me.done \in Nat
  BY <1>1 DEF IsRunner
<1>3. NextStatement(me) = s
  BY DEF NextStatement
<1>4. /\ \A q \in Others(r) : Locked(s) \cap runner[q].locks = {}
      /\ Allowed(r, s)
      /\ runner' = [runner EXCEPT ![r] = next] /\ runner'[r] = next
  BY <1>1, <1>3, SetVersionAfter DEF Execute, Reaches
<1>5. /\ at \in 0 .. 4
      /\ me.at < me.to => at = me.at + 1 /\ me.at + 1 \in 1 .. 4
      /\ ~(me.at < me.to) => at = me.at - 1 /\ me.at \in 2 .. 4
  BY <1>1, <1>2, Scripts
<1> HIDE DEF at
<1>6. /\ IsRunner(next) /\ next.pc = "running" /\ next.alone = me.alone
      /\ next.locks = me.locks \cup Locked(s) /\ "alembic_version" \in next.locks
      /\ next.at = at /\ next.to = me.to /\ next.done = 0
      /\ next.made = me.made /\ next.gone = me.gone /\ next.prepare = FALSE
  <2>1. me.pc = "running"
    BY <1>1 DEF Running
  <2>2. /\ IsRecord(next) /\ next.pc = me.pc /\ next.alone = me.alone
        /\ next.locks = me.locks \cup {"alembic_version"}
        /\ next.at = at /\ next.to = me.to /\ next.done = 0
        /\ next.made = me.made /\ next.gone = me.gone /\ next.prepare = FALSE
    BY DEF Moved, IsRecord
  <2> HIDE DEF next
  <2>3. IsRunner(next)
    <3>1. next.at \in 0 .. 4 /\ next.done \in Nat
      BY <1>5, <2>2
    <3>2. next.prepare \in BOOLEAN
      BY <2>2
    <3>3. next.to \in 0 .. 4 /\ next.alone \in BOOLEAN
      BY <1>1, <2>2 DEF IsRunner
    <3>4. QED
      BY <2>2, <3>1, <3>2, <3>3 DEF IsRunner
  <2>4. QED
    BY <2>1, <2>2, <2>3, VersionLock
<1> HIDE DEF next
<1>7. View(r) \ {"alembic_version"} = Reached(me)
  <2>1. CASE "alembic_version" \in me.locks
    BY <1>1, <2>1 DEF RunnerIsSound, WholeView
  <2>2. CASE "alembic_version" \notin me.locks
    <3>1. version = me.at
      BY <1>4, <2>2, StatementFields DEF Allowed
    <3>2. QED
      BY <1>1, <2>2, <3>1, ViewOfTheReached DEF RunnerIsSound, MigrationInv
  <2>3. QED
    BY <2>1, <2>2
<1>8. View(r)' = View(r)
  BY <1>1, <1>4, <1>6 DEF View
<1>9. Reached(me) = SchemaAt(at)
  <2>1. Progress(me) = What(Script(me.at, me.to))
    BY <1>1, <1>2, WholeProgress DEF RunnerIsSound, OnTheWay
  <2>2. CASE me.at < me.to
    <3>1. Script(me.at, me.to) = Upgrade[me.at + 1] /\ me.at \in 0 .. 3
      BY <1>1, <1>2, <1>5, <2>2, Scripts
    <3>2. QED
      BY <1>5, <2>1, <2>2, <3>1, SchemaGrows DEF Reached
  <2>3. CASE ~(me.at < me.to)
    <3>1. Script(me.at, me.to) = Downgrade[me.at]
      BY <1>1, <1>2, <2>3, Scripts
    <3>2. QED
      BY <1>5, <2>1, <2>3, <3>1, DowngradeUndoes DEF Reached
  <2>4. QED
    BY <2>2, <2>3
<1>10. Reached(next) = SchemaAt(at)
  <2>1. Progress(next) = {}
    BY <1>6, NoProgress
  <2>2. QED
    BY <1>6, <2>1 DEF Reached
<1>11. OnTheWay(r)'
  <2>1. next.done = 0 /\ 1 .. 0 = {}
    BY <1>6
  <2>2. next.to = 0 => next.at # 0 /\ version # 0
    <3>1. me.to = 0 => me.at # 0 /\ version # 0
      BY <1>1 DEF RunnerIsSound, OnTheWay
    <3>2. me.to = 0 => ~(me.at < me.to)
      BY <1>2
    <3>3. QED
      BY <1>5, <1>6, <3>1, <3>2
  <2>3. QED
    BY <1>1, <1>4, <1>6, <2>1, <2>2 DEF OnTheWay
<1>12. OwnChanges(r)' /\ WholeView(r)'
  BY <1>4, <1>6, <1>7, <1>8, <1>9, <1>10 DEF OwnChanges, WholeView
<1>13. SeesVersion(r)'
  BY <1>1, <1>4, <1>6, <1>8 DEF RunnerIsSound, SeesVersion
<1>14. RunnerIsSound(r)'
  BY <1>11, <1>12, <1>13 DEF RunnerIsSound
<1>15. QED
  BY <1>1, <1>4, <1>6, <1>14, StatementKeepsInvariant

LEMMA ExecuteKeepsInvariant ==
  ASSUME MigrationInv, NEW r \in Runners, Execute(r)
  PROVE  MigrationInv'
<1> DEFINE me == runner[r]
<1>1. Running(r) /\ me.at # me.to
  BY DEF Execute, Reaches, Running
<1>2. me.at \in 0 .. 4 /\ me.to \in 0 .. 4
  BY DEF MigrationInv, AllAreRunners, IsRunner
<1>3. CASE me.prepare
  BY <1>3, PrepareStep
<1>4. CASE ~me.prepare /\ me.at < me.to
  <2>1. Script(me.at, me.to) = Upgrade[me.at + 1]
    BY <1>1, <1>2, <1>4, Scripts
  <2>2. QED
    BY <1>4, <2>1, CreateStep, VersionStep
<1>5. CASE ~me.prepare /\ ~(me.at < me.to) /\ me.at # 1
  <2>1. Script(me.at, me.to) = Downgrade[me.at]
    BY <1>1, <1>2, <1>5, Scripts
  <2>2. QED
    BY <1>5, <2>1, DropStep, VersionStep
<1>6. CASE ~(me.at < me.to) /\ me.at = 1
  <2>1. me.to = 0
    BY <1>1, <1>2, <1>6
  <2>2. ~Allowed(r, NextStatement(me))
    <3>1. /\ NextStatement(me) = DropType("subscription_state_enum")
          /\ UsersOf("subscription_state_enum", View(r)) # {}
      BY <1>1, <1>6, <2>1, TypeIsUsed
    <3>2. QED
      BY <3>1, StatementFields DEF Allowed
  <2>3. QED
    BY <2>2 DEF Execute
<1>7. QED
  BY <1>3, <1>4, <1>5, <1>6

-----------------------------------------------------------------------------
(* A step after which a runner does nothing: other transactions are not     *)
(* disturbed when they are sound for what is committed then.                *)
LEMMA LeavingKeepsInvariant ==
  ASSUME MigrationInv, NEW r \in Runners, Running(r), NEW me,
         runner' = [runner EXCEPT ![r] = me], IsRunner(me), me.pc # "running",
         VersionTellsSchema', VersionIsSound',
         \A q \in Runners \ {r} : Running(q) => RunnerIsSound(q)',
         me.alone => Others(r) = {},
         me.pc = "refused" /\ me.alone
            => \E t \in ToSet(Types) : me.failed = DropType(t) /\ UsersOf(t, schema') # {}
  PROVE  MigrationInv'
<1>1. /\ runner' = [q \in Runners |-> runner'[q]]
      /\ runner'[r] = me
      /\ \A q \in Runners \ {r} : runner'[q] = runner[q]
  BY DEF MigrationInv, AllAreRunners
<1>2. AllAreRunners'
  BY <1>1 DEF MigrationInv, AllAreRunners, IsRunner, IsRecord
<1>3. ~Running(r)' /\ \A q \in Runners \ {r} : Running(q)' <=> Running(q)
  BY <1>1 DEF Running
<1>4. LocksExclude'
  BY <1>1, <1>3 DEF MigrationInv, LocksExclude
<1>5. \A q \in Runners : Running(q)' => RunnerIsSound(q)'
  BY <1>3
<1>6. Others(r)' = Others(r)
  BY <1>1 DEF Others
<1>7. \A q \in Runners \ {r} : ~runner[q].alone
  BY DEF MigrationInv, NothingElseRuns, Others, Running
<1>8. ASSUME NEW q \in Runners
      PROVE  NothingElseRuns(q)'
  <2>1. CASE q = r
    BY <1>1, <1>3, <1>6, <2>1 DEF NothingElseRuns
  <2>2. CASE q # r
    BY <1>1, <1>7, <2>2 DEF NothingElseRuns
  <2>3. QED
    BY <2>1, <2>2
<1>9. LoneRunSucceeds'
  BY <1>1, <1>7 DEF LoneRunSucceeds
<1>10. QED
  BY <1>2, <1>4, <1>5, <1>8, <1>9 DEF MigrationInv

LEMMA IdleIsRunner == IsRunner(Idle) /\ Idle.pc = "idle" /\ Idle.alone = FALSE
BY DEF Idle, Transaction, IsRunner, IsRecord

(* Nothing committed, the others see what they saw. *)
LEMMA OthersAreSound ==
  ASSUME MigrationInv, NEW r \in Runners, UNCHANGED <<schema, version>>,
         NEW q \in Runners, Running(q), runner'[q] = runner[q]
  PROVE  RunnerIsSound(q)'
BY DEF MigrationInv, RunnerIsSound, OnTheWay, OwnChanges, WholeView, SeesVersion, View

LEMMA DieKeepsInvariant ==
  ASSUME MigrationInv, NEW r \in Runners, Die(r)
  PROVE  MigrationInv'
<1>1. /\ Running(r) /\ UNCHANGED <<schema, version>>
      /\ runner' = [runner EXCEPT ![r] = Idle]
  BY DEF Die, DropAll, Running
<1>2. \A q \in Runners \ {r} : runner'[q] = runner[q]
  BY <1>1 DEF MigrationInv, AllAreRunners
<1>3. \A q \in Runners \ {r} : Running(q) => RunnerIsSound(q)'
  BY <1>1, <1>2, OthersAreSound
<1>4. VersionTellsSchema' /\ VersionIsSound'
  BY <1>1 DEF MigrationInv, VersionTellsSchema, VersionIsSound
<1> DEFINE me == Idle
<1>5. IsRunner(me) /\ me.pc = "idle" /\ me.alone = FALSE
  BY IdleIsRunner
<1>6. runner' = [runner EXCEPT ![r] = me]
  BY <1>1
<1> HIDE DEF me
<1>7. QED
  BY <1>1, <1>3, <1>4, <1>5, <1>6, LeavingKeepsInvariant

LEMMA CommitKeepsInvariant ==
  ASSUME MigrationInv, NEW r \in Runners, Commit(r)
  PROVE  MigrationInv'
<1>1. /\ Running(r) /\ runner[r].at = runner[r].to /\ schema' = View(r)
      /\ version' = runner[r].at /\ runner' = [runner EXCEPT ![r] = Idle]
  BY DEF Commit, Running
<1>2. IsRunner(runner[r]) /\ RunnerIsSound(r) /\ runner = [q \in Runners |-> runner[q]]
  BY <1>1 DEF MigrationInv, AllAreRunners
<1>3. /\ runner[r].at \in 1 .. 4 /\ runner[r].done = 0
      /\ "alembic_version" \in runner[r].locks /\ ~runner[r].prepare
  BY <1>1, <1>2 DEF RunnerIsSound, OnTheWay, IsRunner
<1>4. "alembic_version" \in schema'
  BY <1>1, <1>2, <1>3 DEF RunnerIsSound, SeesVersion
<1>5. VersionTellsSchema'
  <2>1. Progress(runner[r]) = {}
    BY <1>3, NoProgress
  <2>2. View(r) \ {"alembic_version"} = SchemaAt(runner[r].at)
    BY <1>2, <1>3, <2>1 DEF RunnerIsSound, WholeView, Reached
  <2>3. QED
    BY <1>1, <2>2 DEF VersionTellsSchema, SchemaAt
<1>6. VersionIsSound' /\ version' # 0
  BY <1>1, <1>3, <1>4 DEF VersionIsSound
<1>7. ASSUME NEW q \in Runners \ {r}, Running(q)
      PROVE  RunnerIsSound(q)'
  <2>1. runner'[q] = runner[q]
    BY <1>1, <1>2
  <2>2. "alembic_version" \notin runner[q].locks
    BY <1>1, <1>3, <1>7 DEF MigrationInv, LocksExclude
  <2>3. RunnerIsSound(q)
    BY <1>7 DEF MigrationInv
  <2>4. OnTheWay(q)'
    BY <1>6, <2>1, <2>3 DEF RunnerIsSound, OnTheWay
  <2>5. OwnChanges(q)' /\ WholeView(q)'
    BY <2>1, <2>2, <2>3 DEF RunnerIsSound, OwnChanges, WholeView
  <2>6. SeesVersion(q)'
    BY <1>4, <2>1, <2>3 DEF RunnerIsSound, SeesVersion, View
  <2>7. QED
    BY <2>4, <2>5, <2>6 DEF RunnerIsSound
<1> DEFINE me == Idle
<1>8. IsRunner(me) /\ me.pc = "idle" /\ me.alone = FALSE
  BY IdleIsRunner
<1>9. runner' = [runner EXCEPT ![r] = me]
  BY <1>1
<1> HIDE DEF me
<1>10. QED
  BY <1>1, <1>5, <1>6, <1>7, <1>8, <1>9, LeavingKeepsInvariant

-----------------------------------------------------------------------------
(* What is refused to a transaction that runs alone. *)
LEMMA AloneSeesTheReached ==
  ASSUME MigrationInv, NEW r \in Runners, Running(r), runner[r].alone
  PROVE  View(r) \ {"alembic_version"} = Reached(runner[r])
<1>1. /\ IsRunner(runner[r]) /\ RunnerIsSound(r) /\ NothingElseRuns(r) /\ VersionTellsSchema
  BY DEF MigrationInv, AllAreRunners
<1>2. CASE "alembic_version" \in runner[r].locks
  BY <1>1, <1>2 DEF RunnerIsSound, WholeView
<1>3. CASE "alembic_version" \notin runner[r].locks
  BY <1>1, <1>3, ViewOfTheReached DEF RunnerIsSound, NothingElseRuns
<1>4. QED
  BY <1>2, <1>3

LEMMA OnlyTypesAreRefused ==
  ASSUME MigrationInv, NEW r \in Runners, Refuse(r), runner[r].alone
  PROVE  runner[r].at = 1 /\ runner[r].to = 0
<1> DEFINE me == runner[r]
           s  == NextStatement(me)
<1>1. /\ Running(r) /\ me.at # me.to /\ ~Allowed(r, s)
      /\ IsRunner(me) /\ RunnerIsSound(r) /\ NothingElseRuns(r)
  BY DEF Refuse, Reaches, Running, MigrationInv, AllAreRunners
<1>2. me.at \in 0 .. 4 /\ me.to \in 0 .. 4 /\ me.done \in Nat
  BY <1>1 DEF IsRunner
<1>3. View(r) \ {"alembic_version"} = Reached(me)
  BY <1>1, AloneSeesTheReached
<1> SUFFICES ASSUME me.at < me.to \/ me.at # 1
             PROVE  FALSE
  BY <1>1, <1>2
<1>4. CASE me.prepare
  <2>1. s = Create("alembic_version")
    BY <1>4 DEF NextStatement
  <2>2. /\ me.at = 0 /\ me.done = 0 /\ "alembic_version" \notin me.locks
        /\ "alembic_version" \notin schema
    BY <1>1, <1>4 DEF RunnerIsSound, OnTheWay, NothingElseRuns
  <2>3. me.made = {}
    BY <1>1, <1>2, <2>2, NoProgress DEF RunnerIsSound, OwnChanges
  <2>4. "alembic_version" \notin View(r)
    BY <2>2, <2>3 DEF View
  <2>5. QED
    BY <1>1, <2>1, <2>4, StatementFields, VersionLock DEF Allowed
<1>5. CASE ~me.prepare /\ me.done + 1 \notin DOMAIN Script(me.at, me.to)
  <2>1. s = Statement("set_version", "alembic_version")
    BY <1>5 DEF NextStatement
  <2>2. "alembic_version" \notin me.locks => version = me.at
    BY <1>1 DEF NothingElseRuns
  <2>3. QED
    BY <1>1, <2>1, <2>2, StatementFields DEF Allowed
<1>6. CASE ~me.prepare /\ me.at < me.to /\ me.done + 1 \in DOMAIN Script(me.at, me.to)
  <2> DEFINE n == me.at + 1
             k == me.done + 1
             x == Upgrade[n][k].what
  <2>1. n \in 1 .. 4 /\ n - 1 = me.at /\ Script(me.at, me.to) = Upgrade[n] /\ k - 1 = me.done
    BY <1>1, <1>2, <1>6, Scripts
  <2>2. s = Create(x)
    BY <1>1, <1>6, <2>1, UpgradeStep
  <2>3. /\ x \notin SchemaAt(n - 1) /\ \A i \in 1 .. k - 1 : Upgrade[n][i].what # x
        /\ Needs(x) \subseteq SchemaAt(n - 1) \cup {Upgrade[n][i].what : i \in 1 .. k - 1}
    BY <1>6, <2>1, CreateOrder
  <2>4. Reached(me) = SchemaAt(n - 1) \cup {Upgrade[n][i].what : i \in 1 .. k - 1}
    BY <1>6, <2>1 DEF Reached, Progress
  <2>5. x # "alembic_version"
    <3>1. x \in SchemaAt(n)
      BY <1>6, <2>1 DEF SchemaAt, What
    <3>2. QED
      BY <2>1, <3>1, SchemaFacts
  <2> HIDE DEF x
  <2>6. x \notin Reached(me) /\ Needs(x) \subseteq Reached(me)
    BY <2>3, <2>4
  <2>7. x \notin View(r) /\ Needs(x) \subseteq View(r)
    BY <1>3, <2>5, <2>6
  <2>8. QED
    BY <1>1, <2>2, <2>7, StatementFields DEF Allowed
<1>7. CASE /\ ~me.prepare /\ ~(me.at < me.to) /\ me.at # 1
           /\ me.done + 1 \in DOMAIN Script(me.at, me.to)
  <2> DEFINE n == me.at
             k == me.done + 1
             x == Downgrade[n][k].what
  <2>1. /\ n \in 2 .. 4 /\ Script(me.at, me.to) = Downgrade[n] /\ k - 1 = me.done
        /\ \A i \in 1 .. k - 1 : i \in DOMAIN Downgrade[n] /\ i # k
    <3>1. n \in 2 .. 4 /\ Script(me.at, me.to) = Downgrade[n] /\ k - 1 = me.done
      BY <1>1, <1>2, <1>7, Scripts
    <3>2. 1 .. me.done \subseteq DOMAIN Script(me.at, me.to)
      BY <1>1 DEF RunnerIsSound, OnTheWay
    <3>3. \A i \in 1 .. k - 1 : i # k
      BY <1>2
    <3>4. QED
      BY <3>1, <3>2, <3>3
  <2>2. s = Drop(x) /\ x \in What(Downgrade[n])
        /\ \A i \in DOMAIN Downgrade[n] : i # k => Downgrade[n][i].what # x
    BY <1>1, <1>7, <2>1, DowngradeStep, WhatIsDropped DEF What
  <2>3. x \in DOMAIN Parts /\ x \in SchemaAt(n) /\ x # "alembic_version"
    BY <2>1, <2>2, DowngradeUndoes, VersionTableIsApart
  <2>4. Reached(me) = SchemaAt(n) \ {Downgrade[n][i].what : i \in 1 .. k - 1}
    BY <1>7, <2>1 DEF Reached, Progress
  <2>5. x \in View(r)
    BY <1>3, <2>1, <2>2, <2>3, <2>4
  <2>6. UsersOf(x, View(r)) = {}
    BY <2>3, PartsAreParts DEF UsersOf
  <2> HIDE DEF x
  <2>7. Drop(x).do = "drop" /\ Drop(x).what = x
    BY StatementFields
  <2>8. Allowed(r, Drop(x))
    BY <2>5, <2>6, <2>7 DEF Allowed
  <2>9. QED
    BY <1>1, <2>2, <2>8
<1>8. QED
  BY <1>4, <1>5, <1>6, <1>7

LEMMA RefuseKeepsInvariant ==
  ASSUME MigrationInv, NEW r \in Runners, Refuse(r)
  PROVE  MigrationInv'
<1> DEFINE s  == NextStatement(runner[r])
           me == Transaction("refused", FALSE, 0, 0, runner[r].alone, s)
<1>1. /\ Running(r) /\ UNCHANGED <<schema, version>>
      /\ runner' = [runner EXCEPT ![r] = me]
  BY DEF Refuse, Reaches, Running
<1>2. \A q \in Runners \ {r} : runner'[q] = runner[q]
  BY <1>1 DEF MigrationInv, AllAreRunners
<1>3. \A q \in Runners \ {r} : Running(q) => RunnerIsSound(q)'
  BY <1>1, <1>2, OthersAreSound
<1>4. VersionTellsSchema' /\ VersionIsSound'
  BY <1>1 DEF MigrationInv, VersionTellsSchema, VersionIsSound
<1>5. runner[r].alone \in BOOLEAN /\ NothingElseRuns(r)
  BY DEF MigrationInv, AllAreRunners, IsRunner
<1> HIDE DEF s
<1>6. /\ IsRunner(me) /\ me.pc = "refused" /\ me.alone = runner[r].alone /\ me.failed = s
  <2>1. /\ me.pc = "refused" /\ me.alone = runner[r].alone /\ me.failed = s
        /\ me.prepare = FALSE /\ me.at = 0 /\ me.to = 0 /\ me.done = 0
    BY DEF Transaction
  <2>2. IsRecord(me)
    BY DEF Transaction, IsRecord
  <2> HIDE DEF me
  <2>3. me.prepare \in BOOLEAN /\ me.alone \in BOOLEAN
    BY <1>5, <2>1
  <2>4. me.at \in 0 .. 4 /\ me.to \in 0 .. 4 /\ me.done \in Nat
    BY <2>1
  <2>5. QED
    BY <2>1, <2>2, <2>3, <2>4 DEF IsRunner
<1>7. runner[r].alone => Others(r) = {}
  BY <1>5 DEF NothingElseRuns
<1>8. ASSUME runner[r].alone
      PROVE  \E t \in ToSet(Types) : s = DropType(t) /\ UsersOf(t, schema') # {}
  <2>1. runner[r].at = 1 /\ runner[r].to = 0
    BY <1>8, OnlyTypesAreRefused
  <2>2. /\ s = DropType("subscription_state_enum")
        /\ UsersOf("subscription_state_enum", schema) # {}
    BY <1>1, <2>1, TypeIsUsed DEF s
  <2>3. "subscription_state_enum" \in ToSet(Types)
    BY DEF ToSet, Types
  <2>4. schema' = schema
    BY <1>1
  <2>5. QED
    BY <2>2, <2>3, <2>4
<1> HIDE DEF me
<1>9. QED
  BY <1>1, <1>3, <1>4, <1>6, <1>7, <1>8, LeavingKeepsInvariant

(* A command that begins has read what is committed. *)
LEMMA BeginKeepsInvariant ==
  ASSUME MigrationInv, NEW r \in Runners, NEW target \in Targets, Begin(r, target)
  PROVE  MigrationInv'
<1> DEFINE prepare == "alembic_version" \notin schema
           alone   == Others(r) = {}
           me == Transaction("running", prepare, version, target, alone, None)
           Waiting(q) == [runner[q] EXCEPT !.alone = FALSE]
<1>1. /\ ~Running(r) /\ target # version /\ UNCHANGED <<schema, version>>
      /\ target \in 0 .. 4 /\ version \in 0 .. 4
      /\ runner' = [q \in Runners |-> IF q = r THEN me ELSE Waiting(q)]
  BY MigrationsAssumption DEF Begin, Running, MigrationInv, VersionIsSound
<1>2. /\ me.pc = "running" /\ me.prepare = prepare /\ me.at = version /\ me.to = target
      /\ me.done = 0 /\ me.made = {} /\ me.gone = {} /\ me.locks = {}
      /\ me.alone = alone /\ IsRecord(me)
  BY DEF Transaction, IsRecord
<1>3. \A q \in Runners : IsRunner(runner[q])
  BY DEF MigrationInv, AllAreRunners
<1>4. ASSUME NEW q \in Runners
      PROVE  Waiting(q) =
                [pc |-> runner[q].pc, prepare |-> runner[q].prepare,
                 at |-> runner[q].at, to |-> runner[q].to, done |-> runner[q].done,
                 made |-> runner[q].made, gone |-> runner[q].gone,
                 locks |-> runner[q].locks, alone |-> FALSE, failed |-> runner[q].failed]
  <2>1. IsRecord(runner[q])
    BY <1>3 DEF IsRunner
  <2> DEFINE no == FALSE
  <2> HIDE DEF no
  <2>2. [runner[q] EXCEPT !.alone = no] =
           [pc |-> runner[q].pc, prepare |-> runner[q].prepare,
            at |-> runner[q].at, to |-> runner[q].to, done |-> runner[q].done,
            made |-> runner[q].made, gone |-> runner[q].gone,
            locks |-> runner[q].locks, alone |-> no, failed |-> runner[q].failed]
    BY <2>1 DEF IsRecord
  <2>3. QED
    BY <2>2 DEF no
<1> HIDE DEF me, Waiting
<1>5. /\ runner' = [q \in Runners |-> runner'[q]]
      /\ runner'[r] = me
      /\ \A q \in Runners \ {r} : runner'[q] = Waiting(q)
  BY <1>1
<1>6. \A q \in Runners \ {r} :
         /\ runner'[q].pc = runner[q].pc /\ runner'[q].prepare = runner[q].prepare
         /\ runner'[q].at = runner[q].at /\ runner'[q].to = runner[q].to
         /\ runner'[q].done = runner[q].done /\ runner'[q].made = runner[q].made
         /\ runner'[q].gone = runner[q].gone /\ runner'[q].locks = runner[q].locks
         /\ runner'[q].alone = FALSE /\ runner'[q].failed = runner[q].failed
         /\ IsRecord(runner'[q])
  BY <1>4, <1>5 DEF IsRecord
<1>7. IsRunner(me)
  <2>1. me.prepare \in BOOLEAN
    BY <1>2
  <2>2. me.alone \in BOOLEAN
    BY <1>2
  <2>3. me.at \in 0 .. 4 /\ me.to \in 0 .. 4 /\ me.done \in Nat
    BY <1>1, <1>2
  <2>4. QED
    BY <1>2, <2>1, <2>2, <2>3 DEF IsRunner
<1>8. \A q \in Runners \ {r} : IsRunner(runner'[q])
  <2> SUFFICES ASSUME NEW q \in Runners \ {r}
               PROVE  IsRunner(runner'[q])
    OBVIOUS
  <2>1. runner'[q].at \in 0 .. 4 /\ runner'[q].to \in 0 .. 4 /\ runner'[q].done \in Nat
    BY <1>3, <1>6 DEF IsRunner
  <2>2. runner'[q].prepare \in BOOLEAN
    BY <1>3, <1>6 DEF IsRunner
  <2>3. runner'[q].alone \in BOOLEAN
    BY <1>6
  <2>4. QED
    BY <1>6, <2>1, <2>2, <2>3 DEF IsRunner
<1>9. AllAreRunners'
  BY <1>5, <1>7, <1>8 DEF AllAreRunners, IsRunner, IsRecord
<1>10. VersionTellsSchema' /\ VersionIsSound'
  BY <1>1 DEF MigrationInv, VersionTellsSchema, VersionIsSound
<1>11. Running(r)' /\ \A q \in Runners \ {r} : Running(q)' <=> Running(q)
  BY <1>2, <1>5, <1>6 DEF Running
<1>12. LocksExclude'
  BY <1>2, <1>5, <1>6, <1>11 DEF MigrationInv, LocksExclude
<1>13. RunnerIsSound(r)'
  <2>1. View(r)' = schema
    BY <1>1, <1>2, <1>5 DEF View
  <2>2. OnTheWay(r)'
    <3>1. 1 .. me.done = {}
      BY <1>2
    <3>2. me.prepare => version = 0
      BY <1>2 DEF MigrationInv, VersionIsSound
    <3>3. QED
      BY <1>1, <1>2, <1>5, <3>1, <3>2 DEF OnTheWay
  <2>3. OwnChanges(r)' /\ WholeView(r)'
    <3>1. Progress(me) = {}
      BY <1>2, NoProgress
    <3>2. QED
      BY <1>2, <1>5, <3>1 DEF OwnChanges, WholeView
  <2>4. SeesVersion(r)'
    BY <1>2, <1>5, <2>1 DEF SeesVersion
  <2>5. QED
    BY <2>2, <2>3, <2>4 DEF RunnerIsSound
<1>14. ASSUME NEW q \in Runners \ {r}, Running(q)'
       PROVE  RunnerIsSound(q)'
  <2>1. RunnerIsSound(q)
    BY <1>11, <1>14 DEF MigrationInv
  <2>2. Progress(runner'[q]) = Progress(runner[q]) /\ Reached(runner'[q]) = Reached(runner[q])
    <3>1. /\ runner'[q].at = runner[q].at /\ runner'[q].to = runner[q].to
          /\ runner'[q].done = runner[q].done
      BY <1>6
    <3>2. Progress(runner'[q]) = Progress(runner[q])
      BY <3>1 DEF Progress
    <3>3. QED
      BY <3>1, <3>2 DEF Reached
  <2>3. View(q)' = View(q)
    BY <1>1, <1>6 DEF View
  <2>4. OnTheWay(q)'
    BY <1>1, <1>6, <2>1 DEF RunnerIsSound, OnTheWay
  <2>5. OwnChanges(q)' /\ WholeView(q)' /\ SeesVersion(q)'
    BY <1>6, <2>1, <2>2, <2>3 DEF RunnerIsSound, OwnChanges, WholeView, SeesVersion
  <2>6. QED
    BY <2>4, <2>5 DEF RunnerIsSound
<1>15. Others(r)' = Others(r)
  BY <1>6 DEF Others
<1>16. ASSUME NEW q \in Runners
       PROVE  NothingElseRuns(q)'
  <2>1. CASE q = r
    BY <1>1, <1>2, <1>5, <1>15, <2>1 DEF NothingElseRuns
  <2>2. CASE q # r
    BY <1>6, <2>2 DEF NothingElseRuns
  <2>3. QED
    BY <2>1, <2>2
<1>17. LoneRunSucceeds'
  BY <1>2, <1>5, <1>6 DEF LoneRunSucceeds
<1>18. QED
  BY <1>9, <1>10, <1>12, <1>13, <1>14, <1>16, <1>17 DEF MigrationInv

-----------------------------------------------------------------------------
LEMMA InitIsSound == Init => MigrationInv
<1> SUFFICES ASSUME Init PROVE MigrationInv
  OBVIOUS
<1>1. /\ schema = {} /\ version = 0 /\ runner = [q \in Runners |-> runner[q]]
      /\ \A q \in Runners : runner[q] = Idle
  BY DEF Init
<1>2. \A q \in Runners : IsRunner(runner[q]) /\ runner[q].pc = "idle" /\ ~runner[q].alone
  BY <1>1, IdleIsRunner
<1>3. AllAreRunners
  BY <1>1, <1>2 DEF AllAreRunners
<1>4. VersionTellsSchema /\ VersionIsSound
  BY <1>1, SchemaGrows DEF VersionTellsSchema, VersionIsSound
<1>5. \A q \in Runners : ~Running(q)
  BY <1>2 DEF Running
<1>6. QED
  BY <1>2, <1>3, <1>4, <1>5
     DEF MigrationInv, LocksExclude, NothingElseRuns, LoneRunSucceeds

LEMMA NextKeepsInvariant == MigrationInv /\ [Next]_vars => MigrationInv'
<1> SUFFICES ASSUME MigrationInv, [Next]_vars PROVE MigrationInv'
  OBVIOUS
<1>1. ASSUME NEW r \in Runners, NEW target \in Targets, Begin(r, target)
      PROVE  MigrationInv'
  BY <1>1, BeginKeepsInvariant
<1>2. ASSUME NEW r \in Runners, Execute(r)
      PROVE  MigrationInv'
  BY <1>2, ExecuteKeepsInvariant
<1>3. ASSUME NEW r \in Runners, Refuse(r)
      PROVE  MigrationInv'
  BY <1>3, RefuseKeepsInvariant
<1>4. ASSUME NEW r \in Runners, Commit(r)
      PROVE  MigrationInv'
  BY <1>4, CommitKeepsInvariant
<1>5. ASSUME NEW r \in Runners, Die(r)
      PROVE  MigrationInv'
  BY <1>5, DieKeepsInvariant
<1>6. CASE UNCHANGED vars
  BY <1>6 DEF vars, MigrationInv, AllAreRunners, VersionTellsSchema, VersionIsSound,
     LocksExclude, RunnerIsSound, OnTheWay, OwnChanges, WholeView, SeesVersion, View,
     NothingElseRuns, Others, Running, LoneRunSucceeds
<1>7. QED
  BY <1>1, <1>2, <1>3, <1>4, <1>5, <1>6 DEF Next

LEMMA MigrationInvariant == Spec => []MigrationInv
BY InitIsSound, NextKeepsInvariant, PTL DEF Spec

(* However many runners interleave, and wherever one is killed or refused,  *)
(* the version that alembic_version holds tells which objects there are.    *)
THEOREM VersionAlwaysTellsSchema == Spec => []VersionTellsSchema
<1>1. MigrationInv => VersionTellsSchema
  BY DEF MigrationInv
<1>2. QED
  BY <1>1, MigrationInvariant, PTL

(* At the last revision the database is what the SQLAlchemy models declare. *)
THEOREM HeadIsAlwaysTheModels == Spec => []HeadIsTheModels
<1>1. MigrationInv => HeadIsTheModels
  BY SchemaFacts, LastRevisionIsTheModels
     DEF MigrationInv, VersionTellsSchema, VersionIsSound, HeadIsTheModels
<1>2. QED
  BY <1>1, MigrationInvariant, PTL

(* Nothing that a lone "alembic upgrade" or "downgrade" does is refused, but *)
(* for the types that the downgrade of initial_schema drops too early.       *)
THEOREM LoneRunAlwaysSucceeds == Spec => []LoneRunSucceeds
<1>1. MigrationInv => LoneRunSucceeds
  BY DEF MigrationInv
<1>2. QED
  BY <1>1, MigrationInvariant, PTL
=============================================================================
