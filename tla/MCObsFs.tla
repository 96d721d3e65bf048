------------------------------- MODULE MCObsFs -------------------------------
(* The registry has a metric below the prefix of a handler, as             *)
(* users/active is; the other handler has no static part and believes a    *)
(* source that fails, as services, and has two names for one entry.        *)
EXTENDS ObsFs

CONSTANTS users, active, services, x, y, z

MCStatic ==
    [p \in {<<>>, <<users>>, <<users, active>>} |->
        IF p \in {<<>>, <<users>>} THEN "dir" ELSE "file"]
MCPrefix == {<<users>>, <<services>>}
MCDynamic == {<<users, active>>, <<users, x>>, <<services, x>>, <<services, y>>, <<services, z>>}
MCUnlisted == {<<services, y>>}
MCListedOnly == {<<users, x>>}
MCUnreadable == {<<users, active>>}
MCAlias == [p \in {<<services, z>>} |-> <<services, x>>]
MCCredulous == {<<services>>}
=============================================================================
