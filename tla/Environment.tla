----------------------------- MODULE Environment -----------------------------
(***************************************************************************)
(* The variables a deployment is configured with, what the accessors of    *)
(* config make of them, the check that runs before a server takes its      *)
(* first request, the script that runs the same accessors by hand, and the *)
(* handlers that read a variable when they need it.                        *)
(***************************************************************************)
EXTENDS Naturals, FiniteSets

CONSTANT MaxWrong  \* bound: variables that are not set as they should be

\* What the constant is; assumed where it is given.
EnvironmentAssumption == MaxWrong \in Nat

VARIABLES
  env,     \* env[v]: how the variable v is set
  mode,    \* NODE_ENV, or "build" for the build of a production
  process  \* "off", "up" or "refused"

vars == <<env, mode, process>>

Modes == {"development", "test", "production", "build"}
RuntimeProduction == mode = "production"

\* The four variables of the store are one here, and the four of the mail.
SecretNames == {"IP_HASH_SALT", "SESSION_SECRET", "TWO_FACTOR_ENCRYPTION_KEY"}
Variables == SecretNames \cup
  {"DATABASE_URL", "TEST_DATABASE_URL", "MIGRATION_DATABASE_URL", "APP_ORIGIN",
   "TURNSTILE_SECRET_KEY", "UPSTASH_REDIS_REST", "UPLOAD_STORAGE_DRIVER", "S3", "SMTP",
   "SMTP_PORT", "NOTIFICATION_ADMIN_EMAIL"}

\* A database is "remote", with TLS, or "local", without; a secret is "weak" under 32
\* characters, and so is the test key of the captcha; "local" storage is the disk.
Settings(v) ==
  {"absent", "blank", "malformed"} \cup
  CASE v \in {"DATABASE_URL", "TEST_DATABASE_URL"} -> {"local", "remote"}
    [] v \in SecretNames \cup {"TURNSTILE_SECRET_KEY"} -> {"weak", "good"}
    [] v = "UPLOAD_STORAGE_DRIVER" -> {"local", "good"}
    [] OTHER -> {"good"}

\* How a deployment is meant to be configured.
Meant(v) == CASE v = "DATABASE_URL" -> IF mode = "test" THEN "local" ELSE "remote"
              [] v = "TEST_DATABASE_URL" -> "local"
              [] OTHER -> "good"

Missing(v) == env[v] \in {"absent", "blank"}
-----------------------------------------------------------------------------
(* The accessors: "fails" for an exception, else what the caller gets.      *)

\* In a test the database is a local one, and its own variable comes first.
TestDatabaseUrl ==
  LET v == IF Missing("TEST_DATABASE_URL") THEN "DATABASE_URL" ELSE "TEST_DATABASE_URL"
  IN IF env[v] \in {"malformed", "remote"} THEN "fails" ELSE "value"

RequireDatabaseUrl ==
  CASE mode = "test" -> TestDatabaseUrl
    [] mode # "test" /\ env["DATABASE_URL"] = "malformed" -> "fails"
    [] RuntimeProduction /\ env["DATABASE_URL"] # "remote" -> "fails"
    [] OTHER -> "value"

GetMigrationDatabaseUrl ==
  CASE Missing("MIGRATION_DATABASE_URL") -> RequireDatabaseUrl
    [] env["MIGRATION_DATABASE_URL"] = "malformed" -> "fails"
    [] OTHER -> "value"

\* A secret has no format: anything long enough will do.
ReadSecret(v) ==
  IF RuntimeProduction /\ (Missing(v) \/ env[v] = "weak") THEN "fails" ELSE "value"

GetAppOrigin ==
  CASE env["APP_ORIGIN"] = "malformed" -> "fails"
    [] Missing("APP_ORIGIN") /\ RuntimeProduction -> "fails"
    [] OTHER -> "value"

GetTurnstileSecret ==
  IF RuntimeProduction
  THEN IF Missing("TURNSTILE_SECRET_KEY") \/ env["TURNSTILE_SECRET_KEY"] = "weak"
       THEN "fails" ELSE "value"
  ELSE IF Missing("TURNSTILE_SECRET_KEY") THEN "none" ELSE "value"

\* The one accessor that does not trim: a blank counts as an address.
GetRedisConfig == IF env["UPSTASH_REDIS_REST"] = "absent" THEN "none" ELSE "value"

OnDisk == Missing("UPLOAD_STORAGE_DRIVER") \/ env["UPLOAD_STORAGE_DRIVER"] = "local"

GetPrivateStorageConfig ==
  IF \/ OnDisk /\ RuntimeProduction
     \/ ~OnDisk /\ (env["UPLOAD_STORAGE_DRIVER"] = "malformed" \/ Missing("S3"))
  THEN "fails" ELSE "value"

\* The port is read when the rest is there.
GetSmtpConfig ==
  IF Missing("SMTP")
  THEN IF RuntimeProduction THEN "fails" ELSE "none"
  ELSE IF env["SMTP_PORT"] \in {"blank", "malformed"} THEN "fails" ELSE "value"

GetNotificationRecipient ==
  IF Missing("NOTIFICATION_ADMIN_EMAIL")
  THEN IF RuntimeProduction THEN "fails" ELSE "none" ELSE "value"

\* Mutation: the mail is not part of what a server checks when it starts.
ServerEnvWithoutMail ==
  {RequireDatabaseUrl, GetAppOrigin, GetTurnstileSecret, GetRedisConfig,
   GetPrivateStorageConfig} \cup {ReadSecret(v) : v \in SecretNames}

\* getServerEnv: every accessor but the recipient of the notifications.
ServerEnv ==
  {RequireDatabaseUrl, GetAppOrigin, GetTurnstileSecret, GetRedisConfig,
   GetPrivateStorageConfig, GetSmtpConfig} \cup {ReadSecret(v) : v \in SecretNames}

\* env:check runs them one by one, with the database of the migrations.
CheckedEnv == ServerEnv \cup {GetMigrationDatabaseUrl}

\* What the handlers of a service read, besides.
Services == {"any", "database", "guest", "files", "submission", "mail", "secret"}
Reads(s) ==
  CASE s = "any" -> {GetAppOrigin, ReadSecret("IP_HASH_SALT"), GetRedisConfig}
    [] s = "database" -> {RequireDatabaseUrl}
    [] s = "guest" -> {GetTurnstileSecret}
    [] s = "files" -> {GetPrivateStorageConfig}
    [] s = "submission" -> {GetNotificationRecipient}
    [] s = "mail" -> {GetSmtpConfig}
    [] s = "secret" -> {ReadSecret("TWO_FACTOR_ENCRYPTION_KEY")}
-----------------------------------------------------------------------------
(* A deployment.                                                           *)

Init ==
  /\ mode \in Modes /\ process = "off"
  /\ env = [v \in Variables |-> Meant(v)]

\* The operator sets a variable, of a server that does not run.
Configure(v) ==
  /\ process # "up"
  /\ \E s \in Settings(v) : env' = [env EXCEPT ![v] = s]
  /\ Cardinality({x \in Variables : env'[x] # Meant(x)}) <= MaxWrong
  /\ process' = "off" /\ UNCHANGED mode

\* register, before the first request: the server starts or gives up.
Start ==
  /\ process = "off"
  /\ process' = IF "fails" \in ServerEnv THEN "refused" ELSE "up"
  /\ UNCHANGED <<env, mode>>

Stop == process = "up" /\ process' = "off" /\ UNCHANGED <<env, mode>>

Next == Start \/ Stop \/ \E v \in Variables : Configure(v)

Spec == Init /\ [][Next]_vars
-----------------------------------------------------------------------------
(* Properties.                                                             *)

\* Every variable has one of its settings.
TypeOK ==
  /\ \A v \in Variables : env[v] \in Settings(v)
  /\ mode \in Modes /\ process \in {"off", "up", "refused"}

\* "Un secret manquant doit empecher le serveur de demarrer, et non se decouvrir a la
\* premiere requete": what a handler reads later was good when the server started.
\* The recipient of the notifications is not, and is left out here.
NothingIsFoundLate ==
  process = "up" => \A s \in Services \ {"submission"} : "fails" \notin Reads(s)

\* A production that serves has strong secrets, a captcha that means something, a
\* database behind TLS and a store that outlives it.
ProductionIsProtected ==
  process = "up" /\ mode = "production" =>
    /\ \A v \in SecretNames : env[v] \in {"good", "malformed"}
    /\ env["TURNSTILE_SECRET_KEY"] \in {"good", "malformed"}
    /\ env["DATABASE_URL"] = "remote" /\ env["UPLOAD_STORAGE_DRIVER"] = "good"

\* A configuration env:check calls valid starts.
CheckTellsStart == "fails" \notin CheckedEnv => process # "refused"
=============================================================================
