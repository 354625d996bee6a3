----------------------------- MODULE MCBalancer -----------------------------
(* Four numa nodes.  node0 has a package of two cpus that share a cache;   *)
(* its cpu 4 is banned.  node1 has no package: its cpu 2 went down after   *)
(* the map of the node was read.  The only cpu of node2, 3, is banned.     *)
(* The disk and its node2 have no usable cpu in common, the gpu is on no   *)
(* known node, eth and usb compete for the cpus of node0.                  *)
EXTENDS Balancer

const_nodes    == <<"unspecified", "node0", "node1", "node2">>
const_packages == <<"pkg0">>
const_caches   == <<"l2">>
const_cpus     == <<"cpu0", "cpu1">>
const_Children == [unspecified |-> <<>>, node0 |-> <<"pkg0">>, node1 |-> <<>>, node2 |-> <<>>,
                   pkg0 |-> <<"l2">>, l2 |-> <<"cpu0", "cpu1">>, cpu0 |-> <<>>, cpu1 |-> <<>>]
const_Mask == [unspecified |-> 0..4, node0 |-> {0, 1, 4}, node1 |-> {2}, node2 |-> {3},
               pkg0 |-> {0, 1}, l2 |-> {0, 1}, cpu0 |-> {0}, cpu1 |-> {1}]
const_Info == [eth  |-> [level |-> 3, class |-> 4, hint_policy |-> "ignore",
                         affinity_hint |-> {2}, numa_node |-> "node0"],
               usb  |-> [level |-> 3, class |-> 2, hint_policy |-> "ignore",
                         affinity_hint |-> {}, numa_node |-> "node0"],
               disk |-> [level |-> 1, class |-> 2, hint_policy |-> "subset",
                         affinity_hint |-> {1, 3}, numa_node |-> "node2"],
               gpu  |-> [level |-> 3, class |-> 4, hint_policy |-> "exact",
                         affinity_hint |-> {0, 2}, numa_node |-> "unspecified"]]
const_Dbs == {<<"eth", "disk", "usb", "gpu">>}

(* The instance meets the hypotheses under which NodeHonoured and          *)
(* NeverToBanned are proved for every tree.                                *)
ASSUME InstanceAssumption == Nested /\ BlankedOut /\ PackageForAll
=============================================================================
