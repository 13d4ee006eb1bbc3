------------------------------ MODULE MCStartup ------------------------------
(* Environments one change away from what some role needs, started as every *)
(* role; and one good trader next to imports and crashes.                   *)
EXTENDS Startup

Word(w) == [type |-> "word", word |-> w]
Path(f) == [type |-> "path", absolute |-> TRUE, parent |-> FALSE, file |-> f]
Url(scheme, username) ==
    [type |-> "url", scheme |-> scheme, host |-> TRUE, port |-> TRUE, username |-> username,
     password |-> FALSE, path |-> FALSE, query |-> FALSE]
Name(length, used) ==
    [type |-> "name", name |-> [length |-> length, first |-> Alphanumeric,
                                used |-> used \cup {Alphanumeric}]]

Good(key) ==
    CASE key = "ENVIRONMENT" -> Word("demo")
      [] key = "NODE_ID" -> Name(64, {Dashes})
      [] key = "DATABASE_URL" -> Url("postgresql", TRUE)
      [] key = "KAFKA_BOOTSTRAP" -> Url("none", FALSE)
      [] key = "OBJECT_STORE_URL" -> Url("https", FALSE)
      [] key = "OKX_REGION" -> Word("us")
      [] key = "OKX_API_KEY_FILE" -> Path("key")
      [] key = "OKX_API_SECRET_FILE" -> Path("secret")
      [] key = "OKX_API_PASSPHRASE_FILE" -> Path("passphrase")
      [] OTHER -> Path("other")

\* The values one attribute away from a good one, and a blank one.
Bad(key) == {[type |-> "blank"]} \cup
    CASE key \in PathKeys -> {[Good(key) EXCEPT !.absolute = FALSE],
                              [Good(key) EXCEPT !.parent = TRUE]}
      [] key \in {"ENVIRONMENT", "OKX_REGION"} -> {Word("live")}
      [] key = "NODE_ID" -> {Name(65, {}), Name(129, {}), Name(9, {Dots}), Name(9, {Other})}
      [] OTHER -> {[Good(key) EXCEPT !.scheme = "ftp"], [Good(key) EXCEPT !.host = FALSE],
                   [Good(key) EXCEPT !.username = ~@], [Good(key) EXCEPT !.password = TRUE],
                   [Good(key) EXCEPT !.port = FALSE], [Good(key) EXCEPT !.query = TRUE]}

Pair(key, value) == [key |-> key, value |-> value]
Profile(role) ==
    LET keys == SelectSeq(KEYS, LAMBDA key : key \in Permitted(role))
    IN  [i \in DOMAIN keys |-> Pair(keys[i], Good(keys[i]))]

Without(pairs, key) == SelectSeq(pairs, LAMBDA pair : pair.key # key)

Altered(pairs) ==
         {pairs}
    \cup {Without(pairs, pairs[i].key) : i \in DOMAIN pairs}
    \cup UNION {{Append(Without(pairs, key), Pair(key, value)) : value \in Bad(key)} : key \in Keys}
    \cup {Append(pairs, Pair(key, Good(key))) : key \in Keys \cup {"ENABLE_TRADING", "PATH"}}
    \cup {<<Pair(key, value)>> \o pairs : key \in {"NODE_ID", "OKX_REGION"}, value \in Bad("OKX_REGION")}

MCEnvironments ==
    {[role |-> role, pairs |-> pairs] :
        role \in Roles, pairs \in UNION {Altered(Profile(other)) : other \in Roles}}
MCWired == {[role |-> "Trader", pairs |-> Profile("Trader")]}
MCUnprefixed == {"PATH"}

MCNames == {[length |-> 128, first |-> Alphanumeric, used |-> {Alphanumeric, Dashes, Dots}],
            [length |-> 1, first |-> Alphanumeric, used |-> {Alphanumeric}]}

DotEnv(key, secret, passphrase) ==
    [protected |-> TRUE, parses |-> TRUE, duplicate |-> FALSE,
     values |-> [key |-> key, secret |-> secret, passphrase |-> passphrase]]

MCSources == {DotEnv("line", "line", "line"), DotEnv("lines", "long", "line"),
              DotEnv("line", "breaks", "blank"), DotEnv("line", "absent", "line"),
              DotEnv("line", "line", "empty"),
              [DotEnv("line", "line", "line") EXCEPT !.protected = FALSE],
              [DotEnv("line", "line", "line") EXCEPT !.duplicate = TRUE]}
=============================================================================
