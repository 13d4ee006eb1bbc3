------------------------------ MODULE Identity ------------------------------
(***************************************************************************)
(* The three rules for identifiers: model::identity's for the ids of facts *)
(* and configuration, telemetry::log's for correlation fields, and the     *)
(* deployment's for a node.  An identifier is abstracted to its length and *)
(* the classes of its characters.                                          *)
(***************************************************************************)
EXTENDS Integers

Alphanumeric == "alphanumeric"      \* ASCII letters and digits
Dashes == "dashes"                  \* - and _
Dots == "dots"                      \* . and :
Other == "other"                    \* anything else, control characters too

CharClasses == {Alphanumeric, Dashes, Dots, Other}

Names == {name \in [length : Nat, first : CharClasses, used : SUBSET CharClasses] :
            IF name.length = 0 THEN name.used = {} ELSE name.first \in name.used}

\* identity::valid, which every id's constructor and decoder apply
ValidIdentity(name) ==
    /\ name.length \in 1..128
    /\ name.first = Alphanumeric
    /\ name.used \subseteq {Alphanumeric, Dashes, Dots}

\* log::valid_id
ValidLogId(name) ==
    /\ name.length \in 1..128
    /\ name.used \subseteq {Alphanumeric, Dashes, Dots}

\* Mutant: no bound on the length.
ValidNodeIdUnbounded(name) ==
    /\ name.length >= 1
    /\ name.used \subseteq {Alphanumeric, Dashes}

\* from_pairs' rule for OKX_TRADING_NODE_ID
ValidNodeId(name) ==
    /\ name.length \in 1..64
    /\ name.used \subseteq {Alphanumeric, Dashes}
=============================================================================
