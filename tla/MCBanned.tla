------------------------------ MODULE MCBanned ------------------------------
(* Cpus 0 and 1 are online, 2 is offline and 3 is banned.  The driver of    *)
(* the disk hints at 2 and 3, so no package or cpu of the tree suits it.    *)
EXTENDS Balancer

const_nodes    == <<"node">>
const_packages == <<"pkg">>
const_caches   == <<"l2">>
const_cpus     == <<"cpu0", "cpu1">>
const_Children == [node |-> <<"pkg">>, pkg |-> <<"l2">>, l2 |-> <<"cpu0", "cpu1">>,
                   cpu0 |-> <<>>, cpu1 |-> <<>>]
const_Mask == [node |-> 0..3, pkg |-> {0, 1}, l2 |-> {0, 1}, cpu0 |-> {0}, cpu1 |-> {1}]
const_Info == [disk |-> [level |-> 3, class |-> 2, hint_policy |-> "subset",
                         affinity_hint |-> {2, 3}, numa_node |-> "node"]]
const_Dbs == {<<"disk">>}
=============================================================================
