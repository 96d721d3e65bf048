------------------------------- MODULE MCMount -------------------------------
(* Three plugins: one with the sampled metric, one whose second metric     *)
(* lies below a metric of the first, one with a metric and a handler of    *)
(* the same prefix, as the users plugin has.                               *)
EXTENDS Mount

CONSTANTS system, usage, x, net, users, active, meta

MCSampled == <<system, usage>>
MCMetaPath == <<meta, x>>
MCPlugins == <<
    [name |-> "procsys", metrics |-> <<<<system, usage>>, <<system, x>>>>, prefixes |-> {}],
    [name |-> "broken", metrics |-> <<<<net, x>>, <<system, usage, x>>, <<net, usage>>>>,
     prefixes |-> {<<net>>}],
    [name |-> "users", metrics |-> <<<<users, active>>>>, prefixes |-> {<<users>>}] >>
==============================================================================
