----------------------------- MODULE MCPowersave -----------------------------
(* Two cpus that share a cache, powersave after the second quiet cycle.    *)
(* timer is not balanced; a rescan may find the disk gone.                 *)
EXTENDS Balancer

const_nodes    == <<"node">>
const_packages == <<"pkg">>
const_caches   == <<"l2">>
const_cpus     == <<"cpu0", "cpu1">>
const_Children == [node |-> <<"pkg">>, pkg |-> <<"l2">>, l2 |-> <<"cpu0", "cpu1">>,
                   cpu0 |-> <<>>, cpu1 |-> <<>>]
const_Mask == [node |-> {0, 1}, pkg |-> {0, 1}, l2 |-> {0, 1}, cpu0 |-> {0}, cpu1 |-> {1}]
Plain(level, class) == [level |-> level, class |-> class, hint_policy |-> "ignore",
                        affinity_hint |-> {}, numa_node |-> "node"]
const_Info == [eth |-> Plain(3, 4), disk |-> Plain(3, 2), timer |-> Plain(0, 0)]
const_Dbs == {<<"eth", "disk", "timer">>, <<"timer", "eth">>}
=============================================================================
