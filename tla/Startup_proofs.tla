--------------------------- MODULE Startup_proofs ---------------------------
(***************************************************************************)
(* Theorems about Startup for any environments, dotenv files and number of *)
(* imports: what from_pairs accepts is exactly what was given and enough   *)
(* for the parts that read it; what the importer leaves behind, killed or  *)
(* not, is loaded as the credentials of one import or not at all.          *)
(***************************************************************************)
EXTENDS Startup, SequenceTheorems, WellFoundedInduction, TLAPS

\* A list of errors is "ok" only if each of them is.
LEMMA FirstErrorOk ==
    ASSUME NEW errors, DOMAIN errors \subseteq Nat
    PROVE  FirstError(errors) = "ok" <=> \A i \in DOMAIN errors : errors[i] = "ok"
<1> DEFINE failed == {i \in DOMAIN errors : errors[i] # "ok"}
<1>1. CASE failed = {}
  BY <1>1 DEF FirstError
<1>2. CASE failed # {}
  <2>1. failed \subseteq Nat
    OBVIOUS
  <2>2. PICK i \in failed : \A j \in failed : <<j, i>> \notin OpToRel(<, Nat)
    BY <1>2, <2>1, NatLessThanWellFounded, WFMin
  <2>3. \A j \in failed : i <= j
    <3>1. \A j \in failed : ~(j < i)
      BY <2>1, <2>2 DEF OpToRel
    <3> QED BY <2>1, <3>1
  <2>4. (CHOOSE k \in failed : \A j \in failed : k <= j) \in failed
    BY <2>3
  <2> QED BY <1>2, <2>4 DEF FirstError
<1> QED BY <1>1, <1>2

LEMMA KeysAre == Keys = {KEYS[i] : i \in 1..13} /\ DOMAIN KEYS = 1..13
BY DEF Keys, KEYS

\* What it takes for an environment to be accepted.
LEMMA AcceptedEnvironment ==
    ASSUME NEW role, NEW pairs \in Pairs, FromPairs(role, pairs).ok
    PROVE  /\ \A i \in DOMAIN pairs : CollectError(pairs, i) = "ok"
           /\ \A key \in Keys : FieldError(role, pairs, key) = "ok"
           /\ FromPairs(role, pairs).value =
                [key \in Keys |-> IF key \in Permitted(role) THEN ValueOf(pairs, key) ELSE None]
<1> DEFINE collect == [i \in DOMAIN pairs |-> CollectError(pairs, i)]
           fields == [i \in DOMAIN KEYS |-> FieldError(role, pairs, KEYS[i])]
<1>1. DOMAIN pairs \subseteq Nat /\ DOMAIN collect = DOMAIN pairs
  BY DEF Pairs
<1>2. DOMAIN fields \subseteq Nat /\ DOMAIN fields = DOMAIN KEYS
  BY KeysAre
<1>3. FromPairsError(role, pairs) = "ok"
  BY DEF FromPairs
<1>4. FirstError(collect) = "ok" /\ FirstError(fields) = "ok"
  BY <1>3 DEF FromPairsError
<1>5. \A i \in DOMAIN pairs : collect[i] = "ok"
  BY <1>1, <1>4, FirstErrorOk
<1>6. \A i \in DOMAIN KEYS : fields[i] = "ok"
  BY <1>2, <1>4, FirstErrorOk
<1>7. \A key \in Keys : FieldError(role, pairs, key) = "ok"
  BY <1>6 DEF Keys
<1> QED BY <1>3, <1>5, <1>7 DEF FromPairs

\* A key of an accepted environment is there once, and is its value.
LEMMA AcceptedKey ==
    ASSUME NEW role, NEW pairs \in Pairs, FromPairs(role, pairs).ok, NEW key \in Keys
    PROVE  LET given == {i \in DOMAIN pairs : pairs[i].key = key} IN
           /\ key \notin Permitted(role) =>
                given = {} /\ FromPairs(role, pairs).value[key] = None
           /\ key \in Permitted(role) =>
                /\ \E i \in given : /\ given = {i}
                                    /\ FromPairs(role, pairs).value[key] = pairs[i].value
                /\ FromPairs(role, pairs).value[key] \in Values
                /\ WellFormed(key, FromPairs(role, pairs).value[key])
<1> DEFINE given == {i \in DOMAIN pairs : pairs[i].key = key}
<1>1. /\ FieldError(role, pairs, key) = "ok"
      /\ \A i \in DOMAIN pairs : CollectError(pairs, i) = "ok"
      /\ FromPairs(role, pairs).value =
            [k \in Keys |-> IF k \in Permitted(role) THEN ValueOf(pairs, k) ELSE None]
  BY AcceptedEnvironment
<1>2. FromPairs(role, pairs).value[key] =
            IF key \in Permitted(role) THEN ValueOf(pairs, key) ELSE None
  BY <1>1
<1>3. key \notin Unprefixed
  BY DeploymentAssumption
<1>4. key \in Present(pairs) <=> given # {}
  BY <1>3 DEF Present
<1>5. /\ DOMAIN pairs = 1..Len(pairs) /\ Len(pairs) \in Nat
      /\ \A i \in DOMAIN pairs : pairs[i].value \in Values
  <2>1. \A i \in DOMAIN pairs : pairs[i] \in [key : STRING, value : Values]
    <3> DEFINE Pair == [key : STRING, value : Values]
    <3>1. pairs \in Seq(Pair)
      BY DEF Pairs
    <3> HIDE DEF Pair
    <3>2. \A i \in DOMAIN pairs : pairs[i] \in Pair
      BY <3>1
    <3> QED BY <3>2 DEF Pair
  <2>2. DOMAIN pairs = 1..Len(pairs) /\ Len(pairs) \in Nat
    BY DEF Pairs
  <2>3. \A i \in DOMAIN pairs : pairs[i].value \in Values
    BY <2>1
  <2> QED BY <2>2, <2>3
<1>6. \A i, j \in given : i = j
  <2> SUFFICES ASSUME NEW i \in given, NEW j \in given, j < i PROVE FALSE
    BY <1>5
  <2>1. pairs[i].key = key /\ pairs[j].key = pairs[i].key /\ j \in 1..(i - 1) /\ i \in DOMAIN pairs
    BY <1>5
  <2>2. CollectError(pairs, i) = "Duplicate"
    BY <1>3, <2>1 DEF CollectError
  <2> QED BY <1>1, <2>1, <2>2
<1>7. CASE key \notin Permitted(role)
  BY <1>1, <1>2, <1>4, <1>7 DEF FieldError
<1>8. CASE key \in Permitted(role)
  <2>1. Given(pairs, key) /\ WellFormed(key, ValueOf(pairs, key))
    BY <1>1, <1>8 DEF FieldError
  <2>2. PICK i \in given : given = {i}
    BY <1>4, <1>6, <2>1 DEF Given
  <2>3. ValueOf(pairs, key) = pairs[i].value
    BY <2>2 DEF ValueOf
  <2> QED BY <1>2, <1>5, <1>8, <2>1, <2>2, <2>3
<1> QED BY <1>7, <1>8

LEMMA RoleKeys ==
    /\ "Trader" \in Roles
    /\ \A role \in Roles : {"NODE_ID"} \subseteq Permitted(role) \cap Keys
    /\ \A f \in Fields : /\ SecretKey[f] \in Permitted("Trader") \cap Keys
                         /\ SecretKey[f] \in PathKeys
    /\ \A role \in Roles : Permitted(role) \subseteq Keys
<1>1. Fields = {"key", "secret", "passphrase"}
  BY DEF Fields, FIELDS
<1> QED BY <1>1, KeysAre DEF KEYS, Permitted, Needs, Roles, StoreKeys, OkxKeys, SecretKey, PathKeys

-----------------------------------------------------------------------------
(* Configuration *)

\* A process past from_pairs has the deployment that from_pairs returned; only
\* a trader loads credentials.
ConfigInv ==
    /\ environment \in [role : Roles, pairs : Pairs]
    /\ process \in Processes
    /\ process.at \in Configured =>
        /\ FromPairs(environment.role, environment.pairs).ok
        /\ process.deployment = FromPairs(environment.role, environment.pairs).value
    /\ process.at \in Loading \cup {"running"} => environment.role = "Trader"
    /\ ConfigurationSuffices

LEMMA ProcessFields ==
    ASSUME process \in Processes
    PROVE  /\ process.at \in Configured \cup {"down", "refused"}
           /\ process.at \in {"configured", "logging"}
                => process \in [at : {"configured", "logging"}, deployment : Deployments]
           /\ process.at \in Loading \cup {"running"}
                => process \in [at : Loading \cup {"running"}, deployment : Deployments,
                                secrets : Secrets]
           /\ process.at = "refused" => process.by \in
                {"from_pairs", "log", "paths", "check", "read", "credentials"}
BY DEF Processes, Configured, Loading

\* What from_pairs returns is a deployment.
LEMMA DeploymentTyped ==
    ASSUME NEW role, NEW pairs \in Pairs, FromPairs(role, pairs).ok
    PROVE  FromPairs(role, pairs).value \in Deployments
<1>1. \A key \in Keys : FromPairs(role, pairs).value[key] \in Values \cup {None}
  BY AcceptedKey
<1>2. FromPairs(role, pairs).value =
            [key \in Keys |-> IF key \in Permitted(role) THEN ValueOf(pairs, key) ELSE None]
  BY AcceptedEnvironment
<1> QED BY <1>1, <1>2 DEF Deployments

\* An accepted node is a name that can be logged.
LEMMA NodeLoggable ==
    ASSUME NEW role \in Roles, NEW pairs \in Pairs, FromPairs(role, pairs).ok
    PROVE  ValidLogId(FromPairs(role, pairs).value["NODE_ID"].name)
<1> PICK node : node = FromPairs(role, pairs).value["NODE_ID"]
  OBVIOUS
<1>1. node \in Values /\ WellFormed("NODE_ID", node)
  BY AcceptedKey, RoleKeys
<1>2. node.type = "name" /\ ValidNodeId(node.name)
  BY <1>1 DEF WellFormed, PathKeys
<1>3. node.name \in Names
  BY <1>1, <1>2 DEF Values
<1>4. node.name.length \in Nat
  BY <1>3 DEF Names
<1> QED BY <1>2, <1>4 DEF ValidNodeId, ValidLogId

\* Every identity can be logged.
LEMMA IdentityLoggable ==
    ASSUME NEW name, ValidIdentity(name)
    PROVE  ValidLogId(name)
BY DEF ValidIdentity, ValidLogId

LEMMA WellFormedPath ==
    ASSUME NEW key \in PathKeys, NEW value, WellFormed(key, value)
    PROVE  SoundPath(value)
BY DEF WellFormed, PathKeys

\* The secret references of an accepted trader can be opened.
LEMMA PathsOpen ==
    ASSUME NEW pairs \in Pairs, FromPairs("Trader", pairs).ok
    PROVE  PathsUsable(SecretPaths(FromPairs("Trader", pairs).value))
<1> SUFFICES ASSUME NEW f \in Fields
             PROVE  LET path == FromPairs("Trader", pairs).value[SecretKey[f]]
                    IN  path.absolute /\ ~path.parent
  BY DEF PathsUsable, SecretPaths
<1>1. WellFormed(SecretKey[f], FromPairs("Trader", pairs).value[SecretKey[f]])
  BY AcceptedKey, RoleKeys
<1> QED BY <1>1, RoleKeys, WellFormedPath DEF SoundPath

\* A file that a field's path leads to, and what is read of it.
LEMMA SecretRead ==
    ASSUME StoreTypeOK, process.at = "reading", process \in Processes,
           Len(process.secrets) < Len(FIELDS), FileAtPath # NoFile,
           NEW text \in Texts(FileAtPath)
    PROVE  LET secret == [field |-> FileAtPath.field, attempt |-> FileAtPath.attempt, text |-> text]
           IN  /\ process.secrets \in Secrets
               /\ Append(process.secrets, secret) \in Secrets
               /\ Len(Append(process.secrets, secret)) = Len(process.secrets) + 1
               /\ DOMAIN Append(process.secrets, secret) = 1..(Len(process.secrets) + 1)
               /\ \A i \in DOMAIN Append(process.secrets, secret) :
                    Append(process.secrets, secret)[i] =
                        IF i = Len(process.secrets) + 1 THEN secret ELSE process.secrets[i]
<1> DEFINE secret == [field |-> FileAtPath.field, attempt |-> FileAtPath.attempt, text |-> text]
           S == [field : Fields, attempt : 0..MaxImports, text : {"whole", "cut", "broken", "empty"}]
<1>1. FileAtPath \in File
  BY DEF FileAtPath, StoreTypeOK
<1>2. text \in {"whole", "cut", "broken", "empty"}
  BY <1>1 DEF Texts, File, Parts
<1>3. secret \in S
  BY <1>1, <1>2 DEF File
<1>4. process.secrets \in Seq(S)
  BY ProcessFields DEF Loading, Secrets
<1> HIDE DEF secret, S
<1>5. Append(process.secrets, secret) \in Seq(S)
      /\ Len(Append(process.secrets, secret)) = Len(process.secrets) + 1
      /\ DOMAIN Append(process.secrets, secret) = 1..(Len(process.secrets) + 1)
      /\ \A i \in 1..(Len(process.secrets) + 1) :
            Append(process.secrets, secret)[i] =
                IF i = Len(process.secrets) + 1 THEN secret ELSE process.secrets[i]
  BY <1>3, <1>4, AppendProperties
<1> QED BY <1>4, <1>5 DEF secret, S, Secrets

LEMMA ConfigStep ==
    ASSUME ConfigInv, StoreTypeOK, [StartupNext]_startupVars,
           process.at \in Loading => Len(process.secrets) < Len(FIELDS)
    PROVE  ConfigInv'
<1> USE DEF ConfigInv
<1>1. CASE Configure
  <2> DEFINE parsed == FromPairs(environment.role, environment.pairs)
  <2>1. parsed.ok => parsed.value \in Deployments
    BY DeploymentTyped
  <2>2. CASE parsed.ok
    BY <1>1, <2>1, <2>2 DEF Configure, Processes, Configured, Loading, ConfigurationSuffices
  <2>3. CASE ~parsed.ok
    BY <1>1, <2>3 DEF Configure, Refuse, Processes, Configured, Loading, ConfigurationSuffices
  <2> QED BY <2>2, <2>3
<1>2. ASSUME NEW v \in ConfigVersions, NEW e \in LoggedEvents, OpenLog(v, e)
      PROVE  ConfigInv'
  <2> DEFINE node == process.deployment["NODE_ID"].name
  <2>1. /\ ValidLogId(node) /\ ValidLogId(v) /\ ValidLogId(e)
        /\ process \in [at : {"configured", "logging"}, deployment : Deployments]
    BY <1>2, NodeLoggable, IdentityLoggable, StartupAssumption, ProcessFields
       DEF OpenLog, Configured
  <2>2. LogContextError(node, v, e) = "ok"
    BY <2>1 DEF LogContextError, FirstError
  <2>3. process' = [process EXCEPT !.at = "logging"] /\ environment' = environment
    BY <1>2, <2>2 DEF OpenLog
  <2> QED BY <1>2, <2>1, <2>3
          DEF OpenLog, Processes, Configured, Loading, ConfigurationSuffices
<1>3. CASE OpenCredentials
  <2>1. /\ process \in [at : {"configured", "logging"}, deployment : Deployments]
        /\ environment.role = "Trader" /\ environment' = environment
    BY <1>3, ProcessFields DEF OpenCredentials
  <2>2. PathsUsable(SecretPaths(process.deployment))
    BY <1>3, PathsOpen DEF OpenCredentials, Configured
  <2>3. process' = [at |-> "checking", deployment |-> process.deployment, secrets |-> <<>>]
    BY <1>3, <2>2 DEF OpenCredentials
  <2>4. process' \in Processes
    BY <2>1, <2>3 DEF Processes, Loading, Secrets
  <2> QED BY <1>3, <2>1, <2>3, <2>4 DEF OpenCredentials, Configured, Loading, ConfigurationSuffices
<1>4. CASE CheckSecret
  <2>1. process.at \in Loading
        /\ process \in [at : Loading \cup {"running"}, deployment : Deployments,
                                secrets : Secrets]
    BY <1>4, ProcessFields DEF CheckSecret, Loading
  <2> QED BY <1>4, <2>1
          DEF CheckSecret, Refuse, Processes, Configured, Loading, ConfigurationSuffices
<1>5. CASE ReadSecret
  <2>1. /\ process.at = "reading" /\ FileAtPath # NoFile /\ environment' = environment
        /\ process \in [at : Loading \cup {"running"}, deployment : Deployments,
                                secrets : Secrets]
    BY <1>5, ProcessFields DEF ReadSecret, Loading
  <2>2. PICK text \in Texts(FileAtPath) :
          LET secrets == Append(process.secrets,
                [field |-> FileAtPath.field, attempt |-> FileAtPath.attempt, text |-> text])
          IN  \/ /\ Len(secrets) < Len(FIELDS)
                 /\ process' = [process EXCEPT !.at = "checking", !.secrets = secrets]
              \/ /\ Len(secrets) = Len(FIELDS) /\ CredentialsValid(secrets)
                 /\ process' = [process EXCEPT !.at = "running", !.secrets = secrets]
              \/ /\ Len(secrets) = Len(FIELDS) /\ ~CredentialsValid(secrets)
                 /\ Refuse("credentials")
    BY <1>5 DEF ReadSecret
  <2> PICK secrets : secrets = Append(process.secrets,
                [field |-> FileAtPath.field, attempt |-> FileAtPath.attempt, text |-> text])
    OBVIOUS
  <2>3. secrets \in Secrets /\ Len(secrets) = Len(process.secrets) + 1
        /\ Len(process.secrets) \in Nat
    BY <2>1, SecretRead DEF Loading, Secrets
  <2>4. Len(secrets) < Len(FIELDS) \/ Len(secrets) = Len(FIELDS)
    BY <2>1, <2>3 DEF Loading, FIELDS
  <2>5. \/ process' = [process EXCEPT !.at = "checking", !.secrets = secrets]
        \/ process' = [process EXCEPT !.at = "running", !.secrets = secrets]
        \/ process' = [at |-> "refused", by |-> "credentials"]
    BY <2>2, <2>4 DEF Refuse
  <2>6. ASSUME NEW at \in {"checking", "running"},
               process' = [process EXCEPT !.at = at, !.secrets = secrets]
        PROVE  ConfigInv'
    <3>1. process' \in [at : Loading \cup {"running"}, deployment : Deployments, secrets : Secrets]
          /\ process'.at = at /\ process'.deployment = process.deployment
      BY <2>1, <2>3, <2>6 DEF Loading
    <3>2. environment.role = "Trader" /\ process.at \in Configured
      BY <2>1 DEF Loading, Configured
    <3> QED BY <2>1, <3>1, <3>2 DEF Processes, Configured, Loading, ConfigurationSuffices
  <2>7. CASE process' = [at |-> "refused", by |-> "credentials"]
    BY <2>1, <2>7 DEF Processes, Configured, Loading, ConfigurationSuffices
  <2> QED BY <2>5, <2>6, <2>7
<1>6. CASE FailToRead
  BY <1>6 DEF FailToRead, Refuse, Processes, Configured, Loading, ConfigurationSuffices
<1>7. CASE End
  BY <1>7 DEF End, Down, Processes, Configured, Loading, ConfigurationSuffices
<1>8. CASE Crash
  BY <1>8 DEF Crash, Down, Processes, Configured, Loading, ConfigurationSuffices
<1>9. CASE Stir
  BY <1>9 DEF Stir, ConfigurationSuffices
<1>10. CASE UNCHANGED startupVars
  BY <1>10 DEF startupVars, ConfigurationSuffices
<1> QED BY <1>1, <1>2, <1>3, <1>4, <1>5, <1>6, <1>7, <1>8, <1>9, <1>10 DEF StartupNext

-----------------------------------------------------------------------------
(* The files *)

Has(f) == files[f] # NoFile
Rank == [key |-> 1, secret |-> 2, passphrase |-> 3]

\* The files present are of one import and lie under their own names.  Where
\* one is not complete and on disk, nothing was made after it.  While an import
\* makes files there are no others, and it is strictly at its "next".
StoreInv ==
    /\ StoreTypeOK
    /\ \A f \in Fields : Has(f) => files[f].field = f
    /\ \A f, g \in Fields : Has(f) /\ Has(g) => files[f].attempt = files[g].attempt
    /\ \A f, g \in Fields :
            Rank[f] < Rank[g] /\ Has(f) /\ (files[f].part # "all" \/ ~files[f].synced)
                => ~Has(g)
    /\ importer.at \in {"create", "write", "sync"} =>
            /\ directory
            /\ \A f \in Fields :
                /\ Has(f) => files[f].attempt = importer.attempt
                /\ Rank[f] > importer.next => ~Has(f)
                /\ Rank[f] < importer.next /\ Has(f)
                        => files[f].part = "all" /\ files[f].synced
                /\ Rank[f] = importer.next =>
                        /\ Has(f) <=> importer.at # "create"
                        /\ importer.at = "sync" => files[f].part = "all"
    /\ importer.at \in {"create", "write", "sync", "done"} =>
            \A f \in Fields : Has(f) => files[f].protected
    /\ importer.at = "done" =>
            \A f \in Fields : Has(f) => files[f].part = "all" /\ files[f].synced

LEMMA FieldsRanked ==
    /\ Fields = {"key", "secret", "passphrase"} /\ Len(FIELDS) = 3 /\ DOMAIN FIELDS = 1..3
    /\ \A f \in Fields : Rank[f] \in 1..3 /\ FIELDS[Rank[f]] = f
    /\ \A i \in 1..3 : FIELDS[i] \in Fields /\ Rank[FIELDS[i]] = i
BY DEF Fields, FIELDS, Rank

LEMMA FileFacts ==
    /\ NoFile \notin File
    /\ \A file \in File : /\ file.field \in Fields /\ file.attempt \in 0..MaxImports
                          /\ file.kind \in Kinds /\ file.part \in Parts
                          /\ file.synced \in BOOLEAN /\ file.protected \in BOOLEAN
<1>1. \A file \in File : file.part \in {"none", "some", "all"}
  BY DEF File, Parts
<1>2. NoFile.part = "gone"
  BY DEF NoFile
<1> QED BY <1>1, <1>2 DEF File

LEMMA ImporterTyped ==
    ASSUME StoreTypeOK
    PROVE  /\ importer.attempt \in 0..MaxImports /\ importer.next \in 1..3
           /\ importer.values \in [Fields -> Kinds] /\ MaxImports \in Nat
           /\ importer.at \in {"ready", "create", "write", "sync", "done", "failed"}
           /\ Field \in Fields /\ Rank[Field] = importer.next
           /\ files \in [Fields -> File \cup {NoFile}]
           /\ \A f \in Fields : Has(f) => files[f] \in File
<1>1. importer.next \in 1..3 /\ importer.attempt \in 0..MaxImports
      /\ importer.values \in [Fields -> Kinds]
      /\ importer.at \in {"ready", "create", "write", "sync", "done", "failed"}
  BY DEF StoreTypeOK
<1> QED BY <1>1, FieldsRanked, StoreAssumption DEF StoreTypeOK, Field, Has

LEMMA StoreInitInv == StoreInit => StoreInv
<1> SUFFICES ASSUME StoreInit PROVE StoreInv
  OBVIOUS
<1>1. importer = [at |-> "failed", attempt |-> 0, next |-> 1, values |-> NoValues]
      /\ NoValues \in [Fields -> Kinds]
  BY DEF StoreInit, NoValues, Kinds
<1>2. CASE directory = FALSE /\ files = NoFiles
  <2>1. \A f \in Fields : ~Has(f)
    BY <1>2 DEF Has, NoFiles
  <2>2. StoreTypeOK
    <3>1. files \in [Fields -> File \cup {NoFile}]
      BY <1>2 DEF NoFiles
    <3>2. 0 \in 0..MaxImports
      BY StoreAssumption
    <3>3. importer \in [at : {"ready", "create", "write", "sync", "done", "failed"},
                     attempt : 0..MaxImports, next : 1..3, values : [Fields -> Kinds]]
      BY <1>1, <3>2
    <3> QED BY <1>2, <3>1, <3>3 DEF StoreTypeOK
  <2> QED BY <1>1, <2>1, <2>2 DEF StoreInv
<1>3. ASSUME directory = TRUE, NEW protected \in BOOLEAN, NEW kind \in Kinds,
             files = [f \in Fields |-> [field |-> f, attempt |-> 0, kind |-> kind,
                            part |-> "all", synced |-> TRUE, protected |-> protected]]
      PROVE  StoreInv
  <2>1. \A f \in Fields : /\ files[f] \in File /\ files[f].field = f /\ files[f].attempt = 0
                          /\ files[f].part = "all" /\ files[f].synced
    BY <1>3, StoreAssumption DEF File, Parts
  <2>2. StoreTypeOK
    BY <1>1, <1>3, <2>1, StoreAssumption DEF StoreTypeOK
  <2> QED BY <1>1, <2>1, <2>2 DEF StoreInv
<1> QED BY <1>2, <1>3 DEF StoreInit

LEMMA StartImportKeeps ==
    ASSUME StoreInv, NEW source \in Sources, StartImport(source)
    PROVE  StoreInv'
<1>1. ~ImporterRuns /\ importer.attempt < MaxImports /\ UNCHANGED <<directory, files>>
  BY DEF StartImport
<1>2. importer \in [at : {"ready", "create", "write", "sync", "done", "failed"},
                     attempt : 0..MaxImports, next : 1..3, values : [Fields -> Kinds]]
      /\ StoreTypeOK
  BY DEF StoreInv, StoreTypeOK
<1>3. importer' \in [at : {"ready", "failed"},
                     attempt : 0..MaxImports, next : 1..3, values : [Fields -> Kinds]]
  <2>1. importer.attempt + 1 \in 0..MaxImports
    BY <1>1, <1>2, StoreAssumption
  <2>2. CASE Acceptable(source)
    <3>1. source.values \in [Fields -> Kinds]
      <4>1. source.values \in [Fields -> Kinds \cup {"absent", "empty"}]
        BY StoreAssumption DEF Source
      <4> QED BY <2>2, <4>1 DEF Acceptable
    <3> QED BY <2>1, <2>2, <3>1 DEF StartImport
  <2>3. CASE ~Acceptable(source)
    BY <1>2, <2>1, <2>3 DEF StartImport
  <2> QED BY <2>2, <2>3
<1>4. StoreTypeOK'
  BY <1>1, <1>2, <1>3 DEF StoreTypeOK
<1> QED BY <1>1, <1>3, <1>4 DEF StoreInv, Has

LEMMA MakeDirectoryKeeps ==
    ASSUME StoreInv, MakeDirectory
    PROVE  StoreInv'
<1>1. importer.at = "ready" /\ directory' = TRUE /\ files' = files
      /\ importer' = [importer EXCEPT !.at = IF directory THEN "failed" ELSE "create"]
  BY DEF MakeDirectory
<1>2. importer \in [at : {"ready", "create", "write", "sync", "done", "failed"},
                     attempt : 0..MaxImports, next : 1..3, values : [Fields -> Kinds]]
      /\ StoreTypeOK
  BY DEF StoreInv, StoreTypeOK
<1>3. StoreTypeOK'
  BY <1>1, <1>2 DEF StoreTypeOK
<1>4. CASE directory
  <2>1. importer'.at = "failed"
    BY <1>1, <1>2, <1>4
  <2> QED BY <1>1, <1>3, <2>1 DEF StoreInv, Has
<1>5. CASE ~directory
  <2>1. \A f \in Fields : files'[f] = NoFile
    BY <1>1, <1>2, <1>5 DEF StoreTypeOK, NoFiles
  <2>2. importer'.at = "create" /\ directory'
    BY <1>1, <1>2, <1>5
  <2> QED BY <1>3, <2>1, <2>2 DEF StoreInv, Has
<1> QED BY <1>4, <1>5

\* What a step inside an import has to leave behind.
LEMMA MidImport ==
    ASSUME StoreTypeOK', importer'.at \in {"create", "write", "sync"}, directory',
           \A g \in Fields : files'[g] # NoFile =>
                /\ files'[g].field = g /\ files'[g].attempt = importer'.attempt
                /\ files'[g].protected /\ Rank[g] <= importer'.next
                /\ Rank[g] < importer'.next => files'[g].part = "all" /\ files'[g].synced,
           \A g \in Fields : Rank[g] = importer'.next =>
                /\ files'[g] # NoFile <=> importer'.at # "create"
                /\ importer'.at = "sync" => files'[g].part = "all"
    PROVE  StoreInv'
<1>1. \A g \in Fields : Rank[g] \in 1..3
  BY FieldsRanked
<1>2. importer'.next \in 1..3
  BY DEF StoreTypeOK
<1>3. \A f, g \in Fields :
            Rank[f] < Rank[g] /\ files'[f] # NoFile /\ (files'[f].part # "all" \/ ~files'[f].synced)
                => files'[g] = NoFile
  BY <1>1, <1>2
<1>4. \A g \in Fields : Rank[g] > importer'.next => files'[g] = NoFile
  BY <1>1, <1>2
<1> QED BY <1>3, <1>4 DEF StoreInv, Has

\* The file at "next" is made or changed, the others are not.
LEMMA CreateFileKeeps ==
    ASSUME StoreInv, CreateFile
    PROVE  StoreInv'
<1> PICK f : f = Field
  OBVIOUS
<1> PICK file : file = [field |-> f, attempt |-> importer.attempt, kind |-> importer.values[f],
                        part |-> "none", synced |-> FALSE, protected |-> TRUE]
  OBVIOUS
<1>1. /\ importer.at = "create" /\ directory' = directory
      /\ files' = [files EXCEPT ![f] = file]
      /\ importer' = [importer EXCEPT !.at = "write"]
  BY DEF CreateFile
<1>2. /\ f \in Fields /\ Rank[f] = importer.next /\ StoreTypeOK
      /\ files \in [Fields -> File \cup {NoFile}]
      /\ importer \in [at : {"ready", "create", "write", "sync", "done", "failed"},
                     attempt : 0..MaxImports, next : 1..3, values : [Fields -> Kinds]]
  BY ImporterTyped DEF StoreInv, StoreTypeOK
<1>3. file \in File /\ file # NoFile
  <2>1. importer.values[f] \in Kinds /\ importer.attempt \in 0..MaxImports
    BY <1>2
  <2>2. file \in File
    BY <1>2, <2>1 DEF File, Parts
  <2> QED BY <2>2, FileFacts
<1>4. /\ files'[f] = file /\ \A g \in Fields : g # f => files'[g] = files[g]
      /\ files' \in [Fields -> File \cup {NoFile}]
  BY <1>1, <1>2, <1>3
<1>5. importer'.at = "write" /\ importer'.next = importer.next
      /\ importer'.attempt = importer.attempt /\ directory
      /\ importer' \in [at : {"ready", "create", "write", "sync", "done", "failed"},
                     attempt : 0..MaxImports, next : 1..3, values : [Fields -> Kinds]]
  BY <1>1, <1>2 DEF StoreInv
<1>6. StoreTypeOK'
  BY <1>1, <1>4, <1>5 DEF StoreTypeOK
<1>7. \A g \in Fields : g # f => Rank[g] # Rank[f]
  BY <1>2, FieldsRanked
<1>8. \A g \in Fields : Rank[g] \in 1..3
  BY FieldsRanked
<1>9. \A g \in Fields : files[g] # NoFile =>
            /\ g # f /\ files[g].field = g /\ files[g].attempt = importer.attempt
            /\ Rank[g] < importer.next /\ files[g].protected
            /\ files[g].part = "all" /\ files[g].synced
  BY <1>1, <1>2, <1>7, <1>8 DEF StoreInv, Has
<1>10. \A g \in Fields : files'[g] # NoFile =>
            /\ files'[g].field = g /\ files'[g].attempt = importer.attempt
            /\ files'[g].protected /\ Rank[g] <= importer.next
            /\ Rank[g] < importer.next => files'[g].part = "all" /\ files'[g].synced
  BY <1>2, <1>4, <1>8, <1>9
<1>11. \A g \in Fields : Rank[g] = importer.next => g = f
  BY <1>2, <1>7
<1> QED BY <1>1, <1>3, <1>4, <1>5, <1>6, <1>10, <1>11, MidImport

\* A file under construction: it is the one at "next", and what changes of it.
LEMMA ChangeFile ==
    ASSUME StoreInv, importer.at \in {"write", "sync"}, directory' = directory,
           NEW file \in File, files' = [files EXCEPT ![Field] = file],
           file.field = Field, file.attempt = importer.attempt, file.protected,
           importer' \in [at : {"ready", "create", "write", "sync", "done", "failed"},
                     attempt : 0..MaxImports, next : 1..3, values : [Fields -> Kinds]],
           importer'.attempt = importer.attempt,
           \/ importer'.at \in {"write", "sync"} /\ importer'.next = importer.next
           \/ /\ importer'.at = "create" /\ importer'.next = importer.next + 1
              /\ file.part = "all" /\ file.synced
           \/ importer'.at = "done" /\ importer.next = 3 /\ file.part = "all" /\ file.synced,
           importer'.at = "sync" => file.part = "all"
    PROVE  StoreInv'
<1> PICK f : f = Field
  OBVIOUS
<1>2. /\ f \in Fields /\ Rank[f] = importer.next /\ StoreTypeOK
      /\ files \in [Fields -> File \cup {NoFile}]
      /\ importer.next \in 1..3 /\ file # NoFile
  BY ImporterTyped, FileFacts DEF StoreInv, StoreTypeOK
<1>3. /\ files'[f] = file /\ \A g \in Fields : g # f => files'[g] = files[g]
      /\ files' \in [Fields -> File \cup {NoFile}]
  BY <1>2
<1>4. directory
  BY DEF StoreInv
<1>5. StoreTypeOK'
  BY <1>3, <1>4 DEF StoreTypeOK
<1>6. \A g \in Fields : Rank[g] \in 1..3 /\ (g # f => Rank[g] # Rank[f])
  BY <1>2, FieldsRanked
<1>7. \A g \in Fields : files[g] # NoFile /\ g # f =>
            /\ files[g].field = g /\ files[g].attempt = importer.attempt
            /\ Rank[g] < importer.next /\ files[g].protected
            /\ files[g].part = "all" /\ files[g].synced
  BY <1>2, <1>6 DEF StoreInv, Has
<1>8. \A g \in Fields : files'[g] # NoFile =>
            /\ files'[g].field = g /\ files'[g].attempt = importer.attempt
            /\ files'[g].protected /\ Rank[g] <= importer.next
            /\ g # f => files'[g].part = "all" /\ files'[g].synced
  BY <1>2, <1>3, <1>6, <1>7
<1>9. CASE importer'.at \in {"write", "sync"} /\ importer'.next = importer.next
  BY <1>2, <1>3, <1>4, <1>5, <1>6, <1>8, <1>9, MidImport
<1>10. CASE /\ importer'.at = "create" /\ importer'.next = importer.next + 1
            /\ file.part = "all" /\ file.synced
  <2>1. \A g \in Fields : Rank[g] = importer'.next => files'[g] = NoFile
    BY <1>2, <1>6, <1>8, <1>10
  <2> QED BY <1>2, <1>3, <1>4, <1>5, <1>6, <1>8, <1>10, <2>1, MidImport
<1>11. CASE importer'.at = "done" /\ importer.next = 3 /\ file.part = "all" /\ file.synced
  <2>1. \A g \in Fields : files'[g] # NoFile => files'[g].part = "all" /\ files'[g].synced
    BY <1>3, <1>8, <1>11
  <2> QED BY <1>5, <1>8, <1>11, <2>1 DEF StoreInv, Has
<1> QED BY <1>9, <1>10, <1>11

LEMMA WriteFileKeeps ==
    ASSUME StoreInv, NEW part \in Parts, WriteFile(part)
    PROVE  StoreInv'
<1> PICK file : file = [files[Field] EXCEPT !.part = part]
  OBVIOUS
<1>1. /\ importer.at = "write" /\ directory' = directory
      /\ files' = [files EXCEPT ![Field] = file]
      /\ importer' = [importer EXCEPT !.at = IF part = "all" THEN "sync" ELSE "write"]
  BY DEF WriteFile
<1>2. /\ Field \in Fields /\ Rank[Field] = importer.next
      /\ importer \in [at : {"ready", "create", "write", "sync", "done", "failed"},
                     attempt : 0..MaxImports, next : 1..3, values : [Fields -> Kinds]]
      /\ \A f \in Fields : Has(f) => files[f] \in File
  BY ImporterTyped DEF StoreInv, StoreTypeOK
<1>3. /\ Has(Field) /\ files[Field].field = Field
      /\ files[Field].attempt = importer.attempt /\ files[Field].protected
  BY <1>1, <1>2 DEF StoreInv
<1>4. /\ file \in File /\ file.part = part /\ file.field = Field
      /\ file.attempt = importer.attempt /\ file.protected
  BY <1>2, <1>3 DEF File
<1>5. /\ importer' \in [at : {"ready", "create", "write", "sync", "done", "failed"},
                     attempt : 0..MaxImports, next : 1..3, values : [Fields -> Kinds]]
      /\ importer'.at \in {"write", "sync"} /\ importer'.next = importer.next
      /\ importer'.attempt = importer.attempt
      /\ importer'.at = "sync" => part = "all"
  BY <1>1, <1>2
<1> QED BY <1>1, <1>4, <1>5, ChangeFile

LEMMA SyncFileKeeps ==
    ASSUME StoreInv, SyncFile
    PROVE  StoreInv'
<1> PICK file : file = [files[Field] EXCEPT !.synced = TRUE]
  OBVIOUS
<1>1. /\ importer.at = "sync" /\ directory' = directory
      /\ files' = [files EXCEPT ![Field] = file]
      /\ importer' = NextField
  BY DEF SyncFile
<1>2. /\ Field \in Fields /\ Rank[Field] = importer.next
      /\ importer \in [at : {"ready", "create", "write", "sync", "done", "failed"},
                     attempt : 0..MaxImports, next : 1..3, values : [Fields -> Kinds]]
      /\ \A f \in Fields : Has(f) => files[f] \in File
  BY ImporterTyped DEF StoreInv, StoreTypeOK
<1>3. /\ Has(Field) /\ files[Field].field = Field /\ files[Field].part = "all"
      /\ files[Field].attempt = importer.attempt /\ files[Field].protected
  BY <1>1, <1>2 DEF StoreInv
<1>4. /\ file \in File /\ file.part = "all" /\ file.synced /\ file.field = Field
      /\ file.attempt = importer.attempt /\ file.protected
  BY <1>2, <1>3 DEF File
<1>5. CASE importer.next = 3
  <2>1. importer' = [importer EXCEPT !.at = "done"]
    BY <1>1, <1>5, FieldsRanked DEF NextField
  <2>2. /\ importer' \in [at : {"ready", "create", "write", "sync", "done", "failed"},
                     attempt : 0..MaxImports, next : 1..3, values : [Fields -> Kinds]]
        /\ importer'.at = "done" /\ importer'.attempt = importer.attempt
    BY <1>2, <2>1
  <2> QED BY <1>1, <1>4, <1>5, <2>2, ChangeFile
<1>6. CASE importer.next # 3
  <2>1. importer' = [importer EXCEPT !.at = "create", !.next = @ + 1]
    BY <1>1, <1>6, FieldsRanked DEF NextField
  <2>2. /\ importer' \in [at : {"ready", "create", "write", "sync", "done", "failed"},
                     attempt : 0..MaxImports, next : 1..3, values : [Fields -> Kinds]]
        /\ importer'.at = "create" /\ importer'.attempt = importer.attempt
        /\ importer'.next = importer.next + 1
    <3>1. importer.next + 1 \in 1..3
      BY <1>2, <1>6
    <3> QED BY <1>2, <2>1, <3>1
  <2> QED BY <1>1, <1>4, <2>2, ChangeFile
<1> QED BY <1>5, <1>6

LEMMA FailImportKeeps ==
    ASSUME StoreInv, FailImport
    PROVE  StoreInv'
<1>1. importer' \in [at : {"failed"}, attempt : 0..MaxImports, next : 1..3,
                     values : [Fields -> Kinds]]
  BY DEF FailImport, StoreInv, StoreTypeOK
<1>2. StoreTypeOK'
  BY <1>1 DEF FailImport, StoreInv, StoreTypeOK
<1> QED BY <1>1, <1>2 DEF FailImport, StoreInv, Has

LEMMA DiscardKeeps ==
    ASSUME StoreInv, Discard
    PROVE  StoreInv'
<1>1. /\ importer' \in [at : {"failed"}, attempt : 0..MaxImports, next : 1..3,
                     values : [Fields -> Kinds]]
      /\ directory' = FALSE /\ files' = NoFiles
  BY DEF Discard, StoreInv, StoreTypeOK
<1>2. \A f \in Fields : files'[f] = NoFile
  BY <1>1 DEF NoFiles
<1>3. StoreTypeOK'
  <2>1. files' \in [Fields -> File \cup {NoFile}]
    BY <1>1 DEF NoFiles
  <2> QED BY <1>1, <2>1 DEF StoreTypeOK
<1> QED BY <1>1, <1>2, <1>3 DEF StoreInv, Has

\* What a crash leaves of a file, if anything, is that file, cut at most where
\* it was not on disk.
LEMMA CrashedFile ==
    ASSUME NEW file \in File \cup {NoFile}, NEW left \in AfterCrash(file), left # NoFile
    PROVE  /\ file \in File /\ left \in File
           /\ left.field = file.field /\ left.attempt = file.attempt
           /\ left.protected = file.protected /\ left.kind = file.kind /\ left.synced
           /\ left.part # file.part => ~file.synced
           /\ file.synced => left.part = file.part
<1>1. file \in File
  BY DEF AfterCrash
<1>2. PICK part \in IF file.synced THEN {file.part}
                     ELSE {p \in Parts : p = "none" \/ file.part = "all" \/ p = file.part} :
            left = [file EXCEPT !.part = part, !.synced = TRUE]
  BY <1>1, FileFacts DEF AfterCrash
<1>3. part \in Parts
  BY <1>1, <1>2, FileFacts
<1>4. left = [file EXCEPT !.part = part, !.synced = TRUE]
  BY <1>2
<1> QED BY <1>1, <1>2, <1>3, <1>4 DEF File

LEMMA CrashKeeps ==
    ASSUME StoreInv, CrashMachine
    PROVE  StoreInv'
<1>1. /\ importer \in [at : {"ready", "create", "write", "sync", "done", "failed"},
                     attempt : 0..MaxImports, next : 1..3, values : [Fields -> Kinds]]
      /\ files \in [Fields -> File \cup {NoFile}]
  BY DEF StoreInv, StoreTypeOK
<1>2. /\ importer' \in [at : {"failed", "done"}, attempt : 0..MaxImports, next : 1..3,
                     values : [Fields -> Kinds]]
      /\ importer'.at = "done" => importer.at = "done"
  BY <1>1 DEF CrashMachine, ImporterRuns
<1>3. PICK left \in [Fields -> UNION {AfterCrash(files[f]) : f \in Fields}] :
            /\ \A f \in Fields : left[f] \in AfterCrash(files[f])
            /\ files' = left
  BY DEF CrashMachine
<1>4. \A f \in Fields : files'[f] # NoFile =>
            /\ files[f] # NoFile /\ files[f] \in File /\ files'[f] \in File
            /\ files'[f].field = files[f].field /\ files'[f].attempt = files[f].attempt
            /\ files'[f].protected = files[f].protected /\ files'[f].synced
            /\ files'[f].part # files[f].part => ~files[f].synced
  BY <1>1, <1>3, CrashedFile, FileFacts
<1>5. files' \in [Fields -> File \cup {NoFile}]
  BY <1>3, <1>4
<1>6. directory' \in BOOLEAN /\ (~directory' => files' = NoFiles)
  BY DEF CrashMachine
<1>7. StoreTypeOK'
  <2>1. importer' \in [at : {"ready", "create", "write", "sync", "done", "failed"},
                     attempt : 0..MaxImports, next : 1..3, values : [Fields -> Kinds]]
    BY <1>2
  <2> QED BY <1>5, <1>6, <2>1 DEF StoreTypeOK
<1>8. \A f, g \in Fields : files'[f] # NoFile /\ files'[g] # NoFile
            => files'[f].attempt = files'[g].attempt
  BY <1>4 DEF StoreInv, Has
<1>9. \A f, g \in Fields :
            Rank[f] < Rank[g] /\ files'[f] # NoFile /\ (files'[f].part # "all" \/ ~files'[f].synced)
                => files'[g] = NoFile
  <2> SUFFICES ASSUME NEW f \in Fields, NEW g \in Fields, Rank[f] < Rank[g],
                      files'[f] # NoFile, files'[f].part # "all" \/ ~files'[f].synced,
                      files'[g] # NoFile
               PROVE  FALSE
    OBVIOUS
  <2>1. files[f] # NoFile /\ files[g] # NoFile /\ files'[f].part # "all"
        /\ (files'[f].part = files[f].part \/ ~files[f].synced)
    BY <1>4
  <2> QED BY <2>1 DEF StoreInv, Has
<1>10. importer'.at = "done" =>
            \A f \in Fields : files'[f] # NoFile =>
                files'[f].protected /\ files'[f].part = "all" /\ files'[f].synced
  <2> SUFFICES ASSUME importer'.at = "done", NEW f \in Fields, files'[f] # NoFile
               PROVE  files'[f].protected /\ files'[f].part = "all" /\ files'[f].synced
    OBVIOUS
  <2>1. importer.at = "done"
    BY <1>2
  <2>2. /\ files[f] # NoFile /\ files'[f].synced
        /\ files'[f].protected = files[f].protected
        /\ files'[f].part # files[f].part => ~files[f].synced
    BY <1>4
  <2>3. files[f].protected /\ files[f].part = "all" /\ files[f].synced
    BY <2>1, <2>2 DEF StoreInv, Has
  <2> QED BY <2>2, <2>3
<1>11. \A f \in Fields : files'[f] # NoFile => files'[f].field = f
  <2>1. \A f \in Fields : files[f] # NoFile => files[f].field = f
    BY DEF StoreInv, Has
  <2> QED BY <1>4, <2>1
<1>12. importer'.at \notin {"create", "write", "sync"}
  BY <1>2
<1> QED BY <1>7, <1>8, <1>9, <1>10, <1>11, <1>12 DEF StoreInv, Has

LEMMA StoreStep ==
    ASSUME StoreInv, StoreNext
    PROVE  StoreInv'
BY StartImportKeeps, MakeDirectoryKeeps, CreateFileKeeps, SyncFileKeeps, FailImportKeeps,
   WriteFileKeeps, CrashKeeps, DiscardKeeps DEF StoreNext

-----------------------------------------------------------------------------
(* The load *)

\* Secret i of the load is what a file that is still there holds.
StillThere(i) ==
    /\ Has(FIELDS[i])
    /\ process.secrets[i].field = FIELDS[i]
    /\ process.secrets[i].attempt = files[FIELDS[i]].attempt
    /\ process.secrets[i].text \in Texts(files[FIELDS[i]])

LoadInv ==
    /\ stirred \in BOOLEAN
    /\ environment \notin Wired => ~directory
    /\ process.at \in Loading => Len(process.secrets) < Len(FIELDS)
    /\ process.at = "running" => Len(process.secrets) = Len(FIELDS)
    /\ process.at \in Loading \cup {"running"} /\ ~stirred =>
            \A i \in DOMAIN process.secrets : StillThere(i)
    /\ ImportUsable

\* The path of a secret leads to the importer's file of that name.
LEMMA PathLeads ==
    ASSUME ConfigInv, StoreTypeOK, process.at \in Loading, environment \in Wired,
           Len(process.secrets) < Len(FIELDS)
    PROVE  NextSecret \in Fields /\ FileAtPath = files[NextSecret]
<1>1. NextSecret \in Fields
  <2>1. Len(process.secrets) \in Nat
    BY ProcessFields DEF ConfigInv, Secrets
  <2>2. Len(process.secrets) + 1 \in 1..3
    BY <2>1, FieldsRanked
  <2> QED BY <2>2, FieldsRanked DEF NextSecret
<1> PICK key : key = SecretKey[NextSecret]
  OBVIOUS
<1>2. /\ environment.role = "Trader" /\ environment.pairs \in Pairs
      /\ FromPairs(environment.role, environment.pairs).ok
      /\ process.deployment = FromPairs(environment.role, environment.pairs).value
  BY DEF ConfigInv, Configured
<1>3. key \in Keys /\ key \in Permitted("Trader")
  BY <1>1, RoleKeys
<1>4. PICK i \in DOMAIN environment.pairs :
            environment.pairs[i].key = key /\ process.deployment[key] = environment.pairs[i].value
  BY <1>2, <1>3, AcceptedKey
<1>5. process.deployment[key].file = NextSecret
  BY <1>1, <1>4, StartupAssumption
<1> QED BY <1>1, <1>5 DEF FileAtPath, SecretPaths

\* Where nothing is at a path, nothing is at all or the file of that name is gone.
LEMMA NothingThere ==
    ASSUME ConfigInv, StoreTypeOK, LoadInv, process.at \in Loading, FileAtPath = NoFile
    PROVE  \E f \in Fields : files[f] = NoFile
<1>1. CASE environment \in Wired
  BY <1>1, PathLeads DEF LoadInv
<1>2. CASE environment \notin Wired
  BY <1>2, FieldsRanked DEF LoadInv, StoreTypeOK, NoFiles
<1> QED BY <1>1, <1>2

LEMMA SomethingThere ==
    ASSUME ConfigInv, StoreTypeOK, LoadInv, process.at \in Loading, FileAtPath # NoFile
    PROVE  NextSecret \in Fields /\ FileAtPath = files[NextSecret] /\ Has(NextSecret)
<1>1. environment \in Wired
  <2> SUFFICES ASSUME environment \notin Wired PROVE FALSE
    OBVIOUS
  <2>1. files = NoFiles
    BY DEF LoadInv, StoreTypeOK
  <2> QED BY <2>1 DEF FileAtPath, NoFiles
<1> QED BY <1>1, PathLeads DEF LoadInv, Has

\* A complete secret that can neither be checked nor used is not one plain line.
LEMMA RefusedKind ==
    ASSUME NEW file \in File, file.protected, file.part = "all",
           "refused" \in CheckOutcomes(file) \/ \E text \in Texts(file) : text \notin {"cut", "whole"}
    PROVE  file.kind \notin {"line", "lines"}
<1>1. file # NoFile
  BY FileFacts
<1> QED BY <1>1 DEF CheckOutcomes, Texts

\* What is complete is not read as cut.
LEMMA CompleteText ==
    ASSUME NEW file \in File, file.part = "all"
    PROVE  "cut" \notin Texts(file)
BY DEF Texts

LEMMA CheckSecretLoads ==
    ASSUME ConfigInv, StoreInv, LoadInv, CheckSecret
    PROVE  LoadInv'
<1>1. /\ process.at = "checking" /\ process.at \in Loading
      /\ process \in [at : Loading \cup {"running"}, deployment : Deployments, secrets : Secrets]
      /\ UNCHANGED <<directory, files, importer, environment, stirred>>
  BY ProcessFields DEF CheckSecret, Loading, storeVars, ConfigInv
<1>2. CASE process' = [process EXCEPT !.at = "reading"]
  <2>1. /\ process'.at = "reading" /\ process'.secrets = process.secrets
        /\ process'.at # "refused"
    BY <1>1, <1>2
  <2> QED BY <1>1, <2>1 DEF LoadInv, StillThere, Has, ImportUsable, Loading
<1>3. CASE "refused" \in CheckOutcomes(FileAtPath) /\ Refuse("check")
  <2>1. process' = [at |-> "refused", by |-> "check"]
    BY <1>3 DEF Refuse
  <2>2. ASSUME importer.at = "done"
        PROVE  \E f \in Fields : files[f] = NoFile \/ files[f].kind \notin {"line", "lines"}
    <3>1. CASE FileAtPath = NoFile
      BY <1>1, <3>1, NothingThere DEF StoreInv
    <3>2. CASE FileAtPath # NoFile
      <4>1. NextSecret \in Fields /\ FileAtPath = files[NextSecret] /\ Has(NextSecret)
        BY <1>1, <3>2, SomethingThere DEF StoreInv
      <4>2. /\ files[NextSecret] \in File
            /\ files[NextSecret].protected /\ files[NextSecret].part = "all"
        BY <2>2, <4>1, ImporterTyped DEF StoreInv
      <4> QED BY <1>3, <4>1, <4>2, RefusedKind
    <3> QED BY <3>1, <3>2
  <2>3. ImportUsable'
    BY <1>1, <2>2 DEF ImportUsable
  <2> QED BY <1>1, <2>1, <2>3 DEF LoadInv, Loading
<1> QED BY <1>2, <1>3 DEF CheckSecret

LEMMA ReadSecretLoads ==
    ASSUME ConfigInv, StoreInv, LoadInv, ReadSecret
    PROVE  LoadInv'
<1>1. /\ process.at = "reading" /\ FileAtPath # NoFile /\ process.at \in Loading
      /\ process \in [at : Loading \cup {"running"}, deployment : Deployments, secrets : Secrets]
      /\ UNCHANGED <<directory, files, importer, environment, stirred>>
      /\ Len(process.secrets) < Len(FIELDS) /\ StoreTypeOK
  BY ProcessFields DEF ReadSecret, Loading, storeVars, ConfigInv, LoadInv, StoreInv
<1>2. PICK text \in Texts(FileAtPath) :
          LET secrets == Append(process.secrets,
                [field |-> FileAtPath.field, attempt |-> FileAtPath.attempt, text |-> text])
          IN  \/ /\ Len(secrets) < Len(FIELDS)
                 /\ process' = [process EXCEPT !.at = "checking", !.secrets = secrets]
              \/ /\ Len(secrets) = Len(FIELDS) /\ CredentialsValid(secrets)
                 /\ process' = [process EXCEPT !.at = "running", !.secrets = secrets]
              \/ /\ Len(secrets) = Len(FIELDS) /\ ~CredentialsValid(secrets)
                 /\ Refuse("credentials")
  BY <1>1 DEF ReadSecret
<1> PICK secret : secret = [field |-> FileAtPath.field, attempt |-> FileAtPath.attempt, text |-> text]
  OBVIOUS
<1> PICK secrets : secrets = Append(process.secrets, secret)
  OBVIOUS
<1> PICK n : n = Len(process.secrets) + 1
  OBVIOUS
<1>3. /\ secrets \in Secrets /\ Len(secrets) = n /\ DOMAIN secrets = 1..n
      /\ Len(process.secrets) \in Nat /\ DOMAIN process.secrets = 1..(n - 1)
      /\ \A i \in 1..n : secrets[i] = IF i = n THEN secret ELSE process.secrets[i]
  <2>1. /\ process.secrets \in Secrets /\ secrets \in Secrets /\ Len(secrets) = n
        /\ DOMAIN secrets = 1..n
        /\ \A i \in DOMAIN secrets : secrets[i] = IF i = n THEN secret ELSE process.secrets[i]
    BY <1>1, SecretRead DEF ConfigInv
  <2>2. Len(process.secrets) \in Nat /\ DOMAIN process.secrets = 1..Len(process.secrets)
    BY <2>1 DEF Secrets
  <2>3. n - 1 = Len(process.secrets)
    BY <2>2
  <2> QED BY <2>1, <2>2, <2>3
<1>4. /\ NextSecret = FIELDS[n] /\ FIELDS[n] \in Fields /\ Has(FIELDS[n])
      /\ FileAtPath = files[FIELDS[n]] /\ files[FIELDS[n]].field = FIELDS[n]
  <2>1. NextSecret \in Fields /\ FileAtPath = files[NextSecret] /\ Has(NextSecret)
    BY <1>1, SomethingThere
  <2> QED BY <2>1 DEF StoreInv, NextSecret
<1>5. ~stirred => \A i \in 1..n :
            /\ Has(FIELDS[i]) /\ secrets[i].field = FIELDS[i]
            /\ secrets[i].attempt = files[FIELDS[i]].attempt
            /\ secrets[i].text \in Texts(files[FIELDS[i]])
  <2> SUFFICES ASSUME ~stirred, NEW i \in 1..n
               PROVE  /\ Has(FIELDS[i]) /\ secrets[i].field = FIELDS[i]
                      /\ secrets[i].attempt = files[FIELDS[i]].attempt
                      /\ secrets[i].text \in Texts(files[FIELDS[i]])
    OBVIOUS
  <2>1. CASE i = n
    BY <1>3, <1>4, <2>1
  <2>2. CASE i # n
    <3>1. i \in DOMAIN process.secrets /\ secrets[i] = process.secrets[i]
      BY <1>3, <2>2
    <3> QED BY <1>1, <3>1 DEF LoadInv, StillThere
  <2> QED BY <2>1, <2>2
<1>6. n \in 1..3 /\ Len(FIELDS) = 3
  BY <1>1, <1>3, FieldsRanked
<1>7. \/ n < 3 /\ process' = [process EXCEPT !.at = "checking", !.secrets = secrets]
      \/ n = 3 /\ process' = [process EXCEPT !.at = "running", !.secrets = secrets]
      \/ n = 3 /\ ~CredentialsValid(secrets) /\ process' = [at |-> "refused", by |-> "credentials"]
  BY <1>2, <1>3, <1>6 DEF Refuse
<1>8. ASSUME NEW at \in {"checking", "running"}, at = "checking" => n < 3, at = "running" => n = 3,
             process' = [process EXCEPT !.at = at, !.secrets = secrets]
      PROVE  LoadInv'
  <2>1. process'.at = at /\ process'.secrets = secrets /\ process'.at # "refused"
    BY <1>1, <1>8
  <2>2. ~stirred => \A i \in DOMAIN process'.secrets : StillThere(i)'
    BY <1>1, <1>3, <1>5, <2>1 DEF StillThere, Has
  <2>3. ImportUsable'
    BY <2>1 DEF ImportUsable
  <2>4. /\ process'.at \in Loading => Len(process'.secrets) < Len(FIELDS)
        /\ process'.at = "running" => Len(process'.secrets) = Len(FIELDS)
    BY <1>3, <1>6, <1>8, <2>1 DEF Loading
  <2> QED BY <1>1, <2>2, <2>3, <2>4 DEF LoadInv
<1>9. CASE ~CredentialsValid(secrets) /\ process' = [at |-> "refused", by |-> "credentials"]
  <2>1. ASSUME importer.at = "done", ~stirred
        PROVE  \E f \in Fields : files[f].kind \notin {"line", "lines"}
    <3>1. PICK i \in 1..n : secrets[i].text \notin {"cut", "whole"}
      BY <1>3, <1>9 DEF CredentialsValid
    <3>2. FIELDS[i] \in Fields
      BY <1>6, FieldsRanked
    <3>3. Has(FIELDS[i]) /\ secrets[i].text \in Texts(files[FIELDS[i]])
      BY <1>5, <2>1
    <3>4. /\ files[FIELDS[i]] \in File
          /\ files[FIELDS[i]].protected /\ files[FIELDS[i]].part = "all"
      BY <1>1, <2>1, <3>2, <3>3, ImporterTyped DEF StoreInv
    <3>5. \E t \in Texts(files[FIELDS[i]]) : t \notin {"cut", "whole"}
      BY <3>1, <3>3
    <3> QED BY <3>2, <3>4, <3>5, RefusedKind
  <2>2. ImportUsable'
    BY <1>1, <2>1 DEF ImportUsable
  <2>3. process'.at = "refused"
    BY <1>9
  <2> QED BY <1>1, <2>2, <2>3 DEF LoadInv, Loading
<1> QED BY <1>7, <1>8, <1>9

LEMMA LoadStep ==
    ASSUME ConfigInv, StoreInv, LoadInv, [StartupNext]_startupVars
    PROVE  LoadInv'
<1>1. CASE Configure
  <2>1. \/ process'.at = "configured"
        \/ process'.at = "refused" /\ process'.by = "from_pairs"
    BY <1>1 DEF Configure, Refuse
  <2> QED BY <1>1, <2>1 DEF Configure, LoadInv, ImportUsable, Loading, storeVars
<1>2. ASSUME NEW v \in ConfigVersions, NEW e \in LoggedEvents, OpenLog(v, e)
      PROVE  LoadInv'
  <2>1. process \in [at : {"configured", "logging"}, deployment : Deployments]
    BY <1>2, ProcessFields DEF OpenLog, ConfigInv
  <2>2. \/ process'.at = "logging"
        \/ process'.at = "refused" /\ process'.by = "log"
    BY <1>2, <2>1 DEF OpenLog, Refuse
  <2> QED BY <1>2, <2>2 DEF OpenLog, LoadInv, ImportUsable, Loading, storeVars
<1>3. CASE OpenCredentials
  <2>1. \/ process'.at = "checking" /\ process'.secrets = <<>>
        \/ process'.at = "refused" /\ process'.by = "paths"
    BY <1>3 DEF OpenCredentials, Refuse
  <2>2. stirred' = FALSE /\ UNCHANGED <<directory, files, importer, environment>>
    BY <1>3 DEF OpenCredentials, storeVars
  <2>3. ImportUsable'
    BY <2>1 DEF ImportUsable
  <2>4. process'.at = "checking" =>
            /\ \A i \in DOMAIN process'.secrets : StillThere(i)'
            /\ Len(process'.secrets) < Len(FIELDS)
    BY <2>1, FieldsRanked
  <2> QED BY <2>1, <2>2, <2>3, <2>4 DEF LoadInv, Loading
<1>4. CASE CheckSecret
  BY <1>4, CheckSecretLoads
<1>5. CASE ReadSecret
  BY <1>5, ReadSecretLoads
<1>6. CASE FailToRead
  BY <1>6 DEF FailToRead, Refuse, LoadInv, ImportUsable, Loading, storeVars
<1>7. CASE End
  BY <1>7 DEF End, Down, LoadInv, ImportUsable, Loading, storeVars
<1>8. CASE Crash
  BY <1>8 DEF Crash, Down, LoadInv, ImportUsable, Loading
<1>9. CASE Stir
  <2>1. /\ environment \in Wired /\ UNCHANGED <<environment, process>>
        /\ stirred' = (process.at \in Loading \cup {"running", "refused"})
    BY <1>9 DEF Stir
  <2>2. CASE process.at \in Loading \cup {"running", "refused"}
    <3>1. stirred'
      BY <2>1, <2>2
    <3>2. stirred' \in BOOLEAN
      BY <2>1
    <3> QED BY <2>1, <3>1, <3>2 DEF LoadInv, ImportUsable
  <2>3. CASE process.at \notin Loading \cup {"running", "refused"}
    <3>1. stirred' \in BOOLEAN
      BY <2>1
    <3> QED BY <2>1, <2>3, <3>1 DEF LoadInv, ImportUsable
  <2> QED BY <2>2, <2>3
<1>10. CASE UNCHANGED startupVars
  BY <1>10 DEF startupVars, LoadInv, StillThere, Has, ImportUsable
<1> QED BY <1>1, <1>2, <1>3, <1>4, <1>5, <1>6, <1>7, <1>8, <1>9, <1>10 DEF StartupNext

-----------------------------------------------------------------------------
(* The theorems *)

StartupInv == ConfigInv /\ StoreInv /\ LoadInv

LEMMA StartupInvariant == StartupSpec => []StartupInv
<1>1. StartupInit => StartupInv
  <2> SUFFICES ASSUME StartupInit PROVE StartupInv
    OBVIOUS
  <2>1. environment \in [role : Roles, pairs : Pairs] /\ process = Down /\ StoreInv
    BY StartupAssumption, StoreInitInv DEF StartupInit
  <2>2. ConfigInv
    BY <2>1 DEF ConfigInv, Down, Processes, Configured, Loading, ConfigurationSuffices
  <2>3. LoadInv
    <3>1. process.at = "down"
      BY <2>1 DEF Down
    <3>2. stirred \in BOOLEAN /\ (environment \notin Wired => ~directory)
      BY DEF StartupInit
    <3> QED BY <3>1, <3>2 DEF LoadInv, Loading, ImportUsable
  <2> QED BY <2>1, <2>2, <2>3 DEF StartupInv
<1>2. StartupInv /\ [StartupNext]_startupVars => StartupInv'
  <2> SUFFICES ASSUME StartupInv, [StartupNext]_startupVars PROVE StartupInv'
    OBVIOUS
  <2>1. ConfigInv'
    BY ConfigStep DEF StartupInv, StoreInv, LoadInv
  <2>2. LoadInv'
    BY LoadStep DEF StartupInv
  <2>3. StoreInv'
    <3>1. StoreNext \/ UNCHANGED storeVars
      BY DEF StartupNext, startupVars, storeVars, Stir, StoreNext, Crash, Configure, OpenLog,
             OpenCredentials, CheckSecret, ReadSecret, FailToRead, End
    <3>2. CASE UNCHANGED storeVars
      BY <3>2 DEF StartupInv, storeVars, StoreInv, StoreTypeOK, Has
    <3> QED BY <3>1, <3>2, StoreStep DEF StartupInv
  <2> QED BY <2>1, <2>2, <2>3 DEF StartupInv
<1> QED BY <1>1, <1>2, PTL DEF StartupSpec

\* Every state of the importer, the files and the process is one of the model,
\* for any environments, dotenv files and number of imports; no load goes past
\* its third file.
THEOREM StartupTyped == StartupSpec => []StartupTypeOK
<1>1. StartupInv => StartupTypeOK
  BY DEF StartupInv, ConfigInv, StoreInv, LoadInv, StartupTypeOK
<1> QED BY <1>1, StartupInvariant, PTL

\* from_pairs accepts an environment only as it is: no key of a deployment is
\* made up, overridden or dropped, however many pairs there are in what order.
THEOREM NothingOverriddenOrIgnored == StartupSpec => []AcceptedExactly
<1>1. StartupInv => AcceptedExactly
  <2> SUFFICES ASSUME StartupInv, process.at \in Configured, NEW key \in Keys
               PROVE  LET given == {i \in DOMAIN environment.pairs : environment.pairs[i].key = key}
                      IN  \/ given = {} /\ process.deployment[key] = None
                          \/ \E i \in given : /\ given = {i}
                                 /\ process.deployment[key] = environment.pairs[i].value
    BY DEF AcceptedExactly
  <2>1. /\ environment.pairs \in Pairs
        /\ FromPairs(environment.role, environment.pairs).ok
        /\ process.deployment = FromPairs(environment.role, environment.pairs).value
    BY DEF StartupInv, ConfigInv
  <2> QED BY <2>1, AcceptedKey
<1> QED BY <1>1, StartupInvariant, PTL

\* The keys of an environment tell whose it is, but for Archive and Observe.
LEMMA RolesDiffer ==
    ASSUME NEW r \in Roles, NEW q \in Roles, Permitted(r) = Permitted(q)
    PROVE  r = q \/ {r, q} = {"Archive", "Observe"}
<1>1. \A role \in Roles :
        /\ "KAFKA_BOOTSTRAP" \in Permitted(role) <=> role \in {"Ingest", "Archive", "Observe", "Trader"}
        /\ "OBJECT_STORE_URL" \in Permitted(role) <=> role \in {"Archive", "Observe", "Admin"}
        /\ "OKX_REGION" \in Permitted(role) <=> role = "Trader"
  BY DEF Permitted, Needs, StoreKeys, OkxKeys
<1>2. /\ r \in {"Ingest", "Archive", "Observe", "Trader"} <=> q \in {"Ingest", "Archive", "Observe", "Trader"}
      /\ r \in {"Archive", "Observe", "Admin"} <=> q \in {"Archive", "Observe", "Admin"}
      /\ r = "Trader" <=> q = "Trader"
  BY <1>1
<1>3. r = q \/ (r = "Archive" /\ q = "Observe") \/ (r = "Observe" /\ q = "Archive")
  BY <1>2 DEF Roles
<1> QED BY <1>3

\* No environment is accepted for two roles, except Archive and Observe, which
\* need the same: a role never starts with another role's credentials.
THEOREM EnvironmentIsOfOneRole == StartupSpec => []OneRole
<1>1. StartupInv => OneRole
  <2> SUFFICES ASSUME StartupInv, process.at = "configured", NEW role \in Roles,
                      FromPairs(role, environment.pairs).ok
               PROVE  role = environment.role \/ {role, environment.role} = {"Archive", "Observe"}
    BY DEF OneRole
  <2>1. /\ environment.pairs \in Pairs /\ environment.role \in Roles
        /\ FromPairs(environment.role, environment.pairs).ok
    BY DEF StartupInv, ConfigInv, Configured
  <2>2. \A key \in Keys : key \in Permitted(role) <=> key \in Permitted(environment.role)
    BY <2>1, AcceptedKey
  <2>3. Permitted(role) = Permitted(environment.role)
    BY <2>1, <2>2, RoleKeys
  <2> QED BY <2>1, <2>3, RolesDiffer
<1> QED BY <1>1, StartupInvariant, PTL

\* What the configuration parsers accept is never refused later for its form:
\* the rules of from_pairs imply those of the log and of CredentialFiles::new.
THEOREM ConfigurationIsEnough == StartupSpec => []ConfigurationSuffices
<1>1. StartupInv => ConfigurationSuffices
  BY DEF StartupInv, ConfigInv
<1> QED BY <1>1, StartupInvariant, PTL

\* Credentials that were loaded while nobody touched the files are those of one
\* import, wherever that import, and those before it, were killed, whatever a
\* crash left, and however often the operator started over.
THEOREM LoadsOneImport == StartupSpec => []OneImport
<1>1. StartupInv => OneImport
  <2> SUFFICES ASSUME StartupInv, process.at = "running", ~stirred, NEW i \in DOMAIN FIELDS
               PROVE  /\ process.secrets[i].attempt = process.secrets[1].attempt
                      /\ process.secrets[i].field = FIELDS[i]
    BY DEF OneImport
  <2>1. DOMAIN process.secrets = 1..3
    BY ProcessFields, FieldsRanked DEF StartupInv, ConfigInv, LoadInv, Secrets
  <2>2. StillThere(i) /\ StillThere(1)
    BY <2>1, FieldsRanked DEF StartupInv, LoadInv
  <2>3. FIELDS[i] \in Fields /\ FIELDS[1] \in Fields
    BY FieldsRanked
  <2>4. files[FIELDS[i]].attempt = files[FIELDS[1]].attempt
    BY <2>2, <2>3 DEF StartupInv, StoreInv, StillThere
  <2> QED BY <2>2, <2>4 DEF StillThere
<1> QED BY <1>1, StartupInvariant, PTL

\* They are complete, but perhaps for the last one where the import that wrote
\* it never came to its end.
THEOREM LoadsWholeSecrets == StartupSpec => []LoadedWhole
<1>1. StartupInv => LoadedWhole
  <2> SUFFICES ASSUME StartupInv, process.at = "running", ~stirred, NEW i \in DOMAIN FIELDS,
                      process.secrets[i].text = "cut"
               PROVE  i = Len(FIELDS) /\ importer.at # "done"
    BY DEF LoadedWhole
  <2>1. DOMAIN process.secrets = 1..3
    BY ProcessFields, FieldsRanked DEF StartupInv, ConfigInv, LoadInv, Secrets
  <2>2. StillThere(i) /\ StillThere(3) /\ i \in 1..3
    BY <2>1, FieldsRanked DEF StartupInv, LoadInv
  <2>3. FIELDS[i] \in Fields /\ FIELDS[3] \in Fields /\ Rank[FIELDS[i]] = i /\ Rank[FIELDS[3]] = 3
    BY <2>2, FieldsRanked
  <2>4. files[FIELDS[i]] \in File
    BY <2>2, <2>3, ImporterTyped DEF StartupInv, StoreInv, StillThere
  <2>5. files[FIELDS[i]].part # "all"
    BY <2>2, <2>4, CompleteText DEF StillThere
  <2>6. ~(i < 3)
    BY <2>2, <2>3, <2>5 DEF StartupInv, StoreInv, StillThere
  <2>7. importer.at # "done"
    BY <2>2, <2>3, <2>5 DEF StartupInv, StoreInv, StillThere
  <2> QED BY <2>2, <2>6, <2>7, FieldsRanked
<1> QED BY <1>1, StartupInvariant, PTL

\* The loader takes every complete import, unless a file of it is gone or holds
\* a secret that no loader could use.
THEOREM ImportsAreUsable == StartupSpec => []ImportUsable
<1>1. StartupInv => ImportUsable
  BY DEF StartupInv, LoadInv
<1> QED BY <1>1, StartupInvariant, PTL
=============================================================================
