------------------------------- MODULE Startup -------------------------------
(***************************************************************************)
(* How a process starts from its environment: Deployment::from_pairs, the  *)
(* correlation fields of its log (telemetry::log::Context) and, for a      *)
(* trader, new_demo_from_files on the secret files, which the importer may *)
(* be writing meanwhile.  No binary does this yet; the order is that of    *)
(* the stage-one acceptance (trader_wiring).  "stirred" is history: the    *)
(* files changed since the load began.                                     *)
(***************************************************************************)
EXTENDS Deployment, CredentialStore, FiniteSets

CONSTANTS
    Environments,   \* a role and the pairs it is given
    Wired,          \* the environments next to which imports are explored
    ConfigVersions, \* versions that business::parse accepts
    LoggedEvents    \* ids of events a process may log

SecretKey == [key |-> "OKX_API_KEY_FILE", secret |-> "OKX_API_SECRET_FILE",
              passphrase |-> "OKX_API_PASSPHRASE_FILE"]

\* The secret references of a wired environment are those of the importer's
\* files, each under its own key.
ASSUME StartupAssumption ==
    /\ Environments \subseteq [role : Roles, pairs : Pairs]
    /\ Wired \subseteq Environments
    /\ \A e \in Wired : \A i \in DOMAIN e.pairs, f \in Fields :
            e.pairs[i].key = SecretKey[f] => e.pairs[i].value.file = f
    /\ \A name \in ConfigVersions \cup LoggedEvents : name \in Names /\ ValidIdentity(name)

VARIABLES
    environment,    \* of the process; fixed
    process,        \* where its start stands
    stirred

startupVars == <<directory, files, importer, environment, process, stirred>>

Down == [at |-> "down"]
Loading == {"checking", "reading"}
Configured == {"configured", "logging", "running"} \cup Loading

\* A secret as it was read: the file's, and what became of its text.
Secrets == Seq([field : Fields, attempt : 0..MaxImports,
                text : {"whole", "cut", "broken", "empty"}])
Deployments == [Keys -> Values \cup {None}]
Processes ==
         [at : {"down"}]
    \cup [at : {"refused"}, by : {"from_pairs", "log", "paths", "check", "read", "credentials"}]
    \cup [at : {"configured", "logging"}, deployment : Deployments]
    \cup [at : Loading \cup {"running"}, deployment : Deployments, secrets : Secrets]

StartupInit ==
    /\ environment \in Environments
    /\ StoreInit
    /\ environment \notin Wired => ~directory
    /\ process = Down
    /\ stirred = FALSE

Refuse(by) == process' = [at |-> "refused", by |-> by]

Configure ==
    LET parsed == FromPairs(environment.role, environment.pairs) IN
    /\ process = Down
    /\ IF parsed.ok THEN process' = [at |-> "configured", deployment |-> parsed.value]
       ELSE Refuse("from_pairs")
    /\ UNCHANGED <<storeVars, environment, stirred>>

\* Context::new, then with_event_id
LogContextError(instance_id, config_version, event_id) ==
    FirstError(<<IF ValidLogId(instance_id) THEN "ok" ELSE "InstanceId",
                 IF ValidLogId(config_version) THEN "ok" ELSE "ConfigVersion",
                 IF ValidLogId(event_id) THEN "ok" ELSE "EventId">>)

OpenLog(config_version, event_id) ==
    LET node == process.deployment["NODE_ID"].name IN
    /\ process.at = "configured"
    /\ IF LogContextError(node, config_version, event_id) = "ok"
       THEN process' = [process EXCEPT !.at = "logging"] ELSE Refuse("log")
    /\ UNCHANGED <<storeVars, environment, stirred>>

SecretPaths(deployment) == [f \in Fields |-> deployment[SecretKey[f]]]

\* A trader calls CredentialFiles::new and new_demo_from_files.
OpenCredentials ==
    /\ process.at = "logging" /\ environment.role = "Trader"
    /\ IF PathsUsable(SecretPaths(process.deployment))
       THEN process' = [at |-> "checking", deployment |-> process.deployment, secrets |-> <<>>]
       ELSE Refuse("paths")
    /\ stirred' = FALSE
    /\ UNCHANGED <<storeVars, environment>>

\* The field that is loaded next, and the file at its path.
NextSecret == FIELDS[Len(process.secrets) + 1]
FileAtPath ==
    LET path == SecretPaths(process.deployment)[NextSecret] IN
    IF path.file \in Fields THEN files[path.file] ELSE NoFile

\* The metadata half of read_credential.
CheckSecret ==
    /\ process.at = "checking"
    /\ \/ "ok" \in CheckOutcomes(FileAtPath) /\ process' = [process EXCEPT !.at = "reading"]
       \/ "refused" \in CheckOutcomes(FileAtPath) /\ Refuse("check")
    /\ UNCHANGED <<storeVars, environment, stirred>>

\* read_to_string and the trim; after the third, Credentials::new.
ReadSecret ==
    /\ process.at = "reading" /\ FileAtPath # NoFile
    /\ \E text \in Texts(FileAtPath) :
        LET secrets == Append(process.secrets,
                [field |-> FileAtPath.field, attempt |-> FileAtPath.attempt, text |-> text])
        IN  \/ /\ Len(secrets) < Len(FIELDS)
               /\ process' = [process EXCEPT !.at = "checking", !.secrets = secrets]
            \/ /\ Len(secrets) = Len(FIELDS) /\ CredentialsValid(secrets)
               /\ process' = [process EXCEPT !.at = "running", !.secrets = secrets]
            \/ /\ Len(secrets) = Len(FIELDS) /\ ~CredentialsValid(secrets)
               /\ Refuse("credentials")
    /\ UNCHANGED <<storeVars, environment, stirred>>

\* The file is gone by now, or cannot be read (or a part of it is no UTF-8).
FailToRead ==
    /\ process.at = "reading"
    /\ Refuse("read")
    /\ UNCHANGED <<storeVars, environment, stirred>>

\* The process ends, or is restarted.
End ==
    /\ process # Down
    /\ process' = Down /\ stirred' = FALSE
    /\ UNCHANGED <<storeVars, environment>>

\* Somebody works on the files.
Stir ==
    /\ environment \in Wired
    /\ \/ \E source \in Sources : StartImport(source)
       \/ MakeDirectory \/ CreateFile \/ SyncFile \/ FailImport
       \/ \E part \in Parts : WriteFile(part)
       \/ Discard
    /\ stirred' = (process.at \in Loading \cup {"running", "refused"})
    /\ UNCHANGED <<environment, process>>

Crash ==
    /\ environment \in Wired
    /\ CrashMachine
    /\ process' = Down /\ stirred' = FALSE
    /\ UNCHANGED environment

StartupNext ==
    \/ Configure
    \/ \E v \in ConfigVersions, e \in LoggedEvents : OpenLog(v, e)
    \/ OpenCredentials \/ CheckSecret \/ ReadSecret \/ FailToRead \/ End
    \/ Stir \/ Crash

StartupSpec == StartupInit /\ [][StartupNext]_startupVars

-----------------------------------------------------------------------------
(* Properties *)

StartupTypeOK ==
    /\ StoreTypeOK
    /\ stirred \in BOOLEAN
    /\ process \in Processes
    /\ process.at \in Loading => Len(process.secrets) < Len(FIELDS)
    /\ process.at = "running" => Len(process.secrets) = Len(FIELDS)

\* An environment is taken as it is or not at all: each key of it is a field of
\* the deployment, with the value of the only pair that has the key, and the
\* other fields are None.  Nothing is overridden or ignored (from_pairs).
AcceptedExactly ==
    process.at \in Configured =>
        \A key \in Keys :
            LET given == {i \in DOMAIN environment.pairs : environment.pairs[i].key = key}
            IN  \/ given = {} /\ process.deployment[key] = None
                \/ \E i \in given : /\ given = {i}
                                    /\ process.deployment[key] = environment.pairs[i].value

\* An environment is that of one role: started with it, no other role is
\* configured.  Only Archive and Observe need the same connections, and a
\* trader's secrets configure nobody else.
OneRole ==
    process.at = "configured" =>
        \A role \in Roles :
            FromPairs(role, environment.pairs).ok =>
                role = environment.role \/ {role, environment.role} = {"Archive", "Observe"}

\* What from_pairs and business::parse accepted is never refused by the parts
\* that have rules of their own for it: a node, a version or an event can be
\* logged, and secret references can be opened.
ConfigurationSuffices == process.at = "refused" => process.by \notin {"log", "paths"}

\* Credentials loaded while nobody touches the files are of one import,
\* whichever imports failed before and whatever a crash left of them, and each
\* is the one its name says.
OneImport ==
    process.at = "running" /\ ~stirred =>
        \A i \in DOMAIN FIELDS :
            /\ process.secrets[i].attempt = process.secrets[1].attempt
            /\ process.secrets[i].field = FIELDS[i]

\* ... and complete: only the file that was written last may be cut short, and
\* not once the import came to its end, though the machine crashed since.
\* (The loader cannot tell: a passphrase cut short is a passphrase.)
LoadedWhole ==
    process.at = "running" /\ ~stirred =>
        \A i \in DOMAIN FIELDS :
            process.secrets[i].text = "cut" => i = Len(FIELDS) /\ importer.at # "done"

\* What an import wrote to its end can be loaded: modes and names agree between
\* importer and loader.  The exceptions are secrets that hold line breaks or are
\* too long, which only the loader refuses, and files that a crash removed.
ImportUsable ==
    process.at = "refused" /\ process.by \in {"check", "credentials"}
    /\ importer.at = "done" /\ ~stirred =>
        \E f \in Fields : files[f] = NoFile \/ files[f].kind \notin {"line", "lines"}
=============================================================================
