----------------------------- MODULE Deployment -----------------------------
(***************************************************************************)
(* config::deployment::from_pairs.  An environment is a list of pairs of a *)
(* key (without its OKX_TRADING_ prefix) and a value; a value is a record  *)
(* of what the checks look at, as far as it can be read as one of their    *)
(* types.  A deployment is a function from the keys to their values, None  *)
(* where the role has no such field.                                       *)
(***************************************************************************)
EXTENDS Identity, Sequences

CONSTANTS
    None,           \* Option::None
    Unprefixed      \* keys that do not begin with OKX_TRADING_

\* The keys, in the order in which from_pairs looks at them.
KEYS == <<"ENVIRONMENT", "NODE_ID", "CONFIG_PATH", "DATABASE_URL",
          "DATABASE_PASSWORD_FILE", "KAFKA_BOOTSTRAP", "OBJECT_STORE_URL",
          "OBJECT_STORE_ACCESS_KEY_FILE", "OBJECT_STORE_SECRET_KEY_FILE",
          "OKX_API_KEY_FILE", "OKX_API_SECRET_FILE", "OKX_API_PASSPHRASE_FILE",
          "OKX_REGION">>

Keys == {KEYS[i] : i \in DOMAIN KEYS}
PathKeys == {"CONFIG_PATH", "DATABASE_PASSWORD_FILE", "OBJECT_STORE_ACCESS_KEY_FILE",
             "OBJECT_STORE_SECRET_KEY_FILE", "OKX_API_KEY_FILE", "OKX_API_SECRET_FILE",
             "OKX_API_PASSPHRASE_FILE"}
StoreKeys == {"OBJECT_STORE_URL", "OBJECT_STORE_ACCESS_KEY_FILE", "OBJECT_STORE_SECRET_KEY_FILE"}
OkxKeys == {"OKX_API_KEY_FILE", "OKX_API_SECRET_FILE", "OKX_API_PASSPHRASE_FILE", "OKX_REGION"}

Roles == {"Ingest", "Archive", "Observe", "Trader", "Notifier", "Admin"}

Values ==
         [type : {"blank"}]
    \cup [type : {"word"}, word : STRING]
    \cup [type : {"name"}, name : Names]
    \cup [type : {"path"}, absolute : BOOLEAN, parent : BOOLEAN, file : STRING]
    \cup [type : {"url"}, scheme : STRING, host : BOOLEAN, port : BOOLEAN,
          username : BOOLEAN, password : BOOLEAN, path : BOOLEAN, query : BOOLEAN]

Pairs == Seq([key : STRING, value : Values])

ASSUME DeploymentAssumption == Unprefixed \cap Keys = {}

\* The fields that only some roles have.
Needs(role) ==
         (IF role \in {"Ingest", "Archive", "Observe", "Trader"} THEN {"KAFKA_BOOTSTRAP"} ELSE {})
    \cup (IF role \in {"Archive", "Observe", "Admin"} THEN StoreKeys ELSE {})
    \cup (IF role = "Trader" THEN OkxKeys ELSE {})

Permitted(role) == (Keys \ ({"KAFKA_BOOTSTRAP"} \cup StoreKeys \cup OkxKeys)) \cup Needs(role)

\* An absolute path that never leaves for a parent directory.
SoundPath(value) == value.type = "path" /\ value.absolute /\ ~value.parent

\* endpoint()
SoundUrl(value, schemes, needs_username) ==
    /\ value.type = "url" /\ value.scheme \in schemes /\ value.host
    /\ ~value.password /\ ~value.query
    /\ value.username = needs_username

\* What is asked of host:port, read as kafka://host:port.
SoundBootstrap(value) ==
    /\ value.type = "url" /\ value.scheme = "none" /\ value.host /\ value.port
    /\ ~value.username /\ ~value.password /\ ~value.path /\ ~value.query

WellFormed(key, value) ==
    CASE key \in PathKeys -> SoundPath(value)
      [] key = "ENVIRONMENT" -> value.type = "word" /\ value.word = "demo"
      [] key = "NODE_ID" -> value.type = "name" /\ ValidNodeId(value.name)
      [] key = "DATABASE_URL" -> SoundUrl(value, {"postgresql"}, TRUE)
      [] key = "KAFKA_BOOTSTRAP" -> SoundBootstrap(value)
      [] key = "OBJECT_STORE_URL" -> SoundUrl(value, {"http", "https"}, FALSE)
      [] key = "OKX_REGION" -> value.type = "word" /\ value.word \in {"global", "us"}

\* The value of a key that occurs once.
ValueOf(pairs, key) == pairs[CHOOSE i \in DOMAIN pairs : pairs[i].key = key].value

Present(pairs) == {pairs[i].key : i \in DOMAIN pairs} \ Unprefixed

\* required(): a blank value is a missing one.
Given(pairs, key) == key \in Present(pairs) /\ ValueOf(pairs, key).type # "blank"

\* Mutant: what a role does not need is ignored.
FieldErrorLenient(role, pairs, key) ==
    CASE key \notin Permitted(role) -> "ok"
      [] key \in Permitted(role) /\ ~Given(pairs, key) -> "Missing"
      [] key \in Permitted(role) /\ Given(pairs, key) ->
            IF WellFormed(key, ValueOf(pairs, key)) THEN "ok" ELSE "Invalid"

\* permitted() and the parse of a field.
FieldError(role, pairs, key) ==
    CASE key \notin Permitted(role) -> IF key \in Present(pairs) THEN "Forbidden" ELSE "ok"
      [] key \in Permitted(role) /\ ~Given(pairs, key) -> "Missing"
      [] key \in Permitted(role) /\ Given(pairs, key) ->
            IF WellFormed(key, ValueOf(pairs, key)) THEN "ok" ELSE "Invalid"

\* Mutant: a later pair replaces an earlier one of the same key.
CollectErrorLast(pairs, i) ==
    IF pairs[i].key \in Keys \cup Unprefixed THEN "ok" ELSE "Unknown"

\* Collecting pair i into the map.
CollectError(pairs, i) ==
    CASE pairs[i].key \in Unprefixed -> "ok"
      [] pairs[i].key \notin Keys \cup Unprefixed -> "Unknown"
      [] pairs[i].key \in Keys ->
            IF \E j \in 1..(i - 1) : pairs[j].key = pairs[i].key THEN "Duplicate" ELSE "ok"

\* The first of a list of errors that is one, or "ok".
FirstError(errors) ==
    LET failed == {i \in DOMAIN errors : errors[i] # "ok"} IN
    IF failed = {} THEN "ok" ELSE errors[CHOOSE i \in failed : \A j \in failed : i <= j]

FromPairsError(role, pairs) ==
    LET collected == FirstError([i \in DOMAIN pairs |-> CollectError(pairs, i)]) IN
    IF collected # "ok" THEN collected
    ELSE FirstError([i \in DOMAIN KEYS |-> FieldError(role, pairs, KEYS[i])])

FromPairs(role, pairs) ==
    LET error == FromPairsError(role, pairs) IN
    IF error # "ok" THEN [ok |-> FALSE, error |-> error]
    ELSE [ok |-> TRUE,
          value |-> [key \in Keys |-> IF key \in Permitted(role)
                                      THEN ValueOf(pairs, key) ELSE None]]
=============================================================================
