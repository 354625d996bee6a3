# irqbalance for Renesas R-Car: a TLA+ development

The repository is the device configuration of Renesas boards for Android. Almost
all of it is declarative (overlays, policies, makefiles); the one program in it is
the `irqbalance` daemon under `irqbalance/`, a fork of irqbalance 1.2 with a
built-in list library, name-based classification for arm and a ban of irqs by
name. This directory models that daemon.

## The system

| part | state it keeps | operations | module |
|---|---|---|---|
| main loop (`irqbalance.c`) | `keep_going`, `need_rescan`, `cycle_count` | boot, cycle, rescan, signal handlers | `Daemon` |
| `/proc/interrupts` (`procinterrupts.c`) | `irq_count`, `last_irq_count` of every irq | `parse_proc_interrupts` | `Daemon` |
| load accounting (`procinterrupts.c`, `cputree.c`) | `load` of objects and irqs | `parse_proc_stat`, `clear_work_stats` | `LoadShare`, `Balancer` |
| migration (`irqlist.c`) | `load_balance_info`, `powersave_mode` | `update_migration_status` | `Balancer` |
| placement (`placement.c`) | `interrupts` lists, `rebalance_irq_list`, `assigned_obj`, `moved` | `calculate_placement` | `Balancer` |
| activation (`activate.c`) | `smp_affinity` in the kernel, `warned` | `activate_mappings` | `Balancer` |
| irq db (`classify.c`) | `interrupts_db`, `banned_irqs` | `rebuild_irq_db`, `get_irq_info` | `IrqDb` |
| cpu topology (`cputree.c`, `numa.c`) | `numa_nodes`, `packages`, `cache_domains`, `cpus`, `core_count` | `parse_cpu_tree`, `clear_cpu_tree` | `CpuTree` |
| both together (`build_object_tree`) | irqs that point into the tree | build, free, build again | `ObjectTree` |
| cpu masks (`cpumask.h`, `bitmap.*`, `non-atomic.h`) | words in memory | set operations, shifts, comparisons | `Bitmap`, `CpuMask` |
| banned cpus (`setup_banned_cpus`, the parsers of `bitmap.c`) | `banned_cpus` | parse a mask, parse a list, print | `CpuText` |
| lists (`glib/glist.c`) and what walks them | cells, `next`, `prev`, list heads | append, unlink, sort, free, `for_each_irq` | `GList`, `IrqHeap`, `IrqLists` |
| start and end (`irqbalance.c`) | option variables, ban lists, the pid file | `parse_command_line`, `daemon`, pid file, `free_cl_opts` | `Lifecycle` |

One thread does everything. It meets the outside in four ways: signal handlers
that set a flag at any point; sysfs and procfs, which change between any two reads
as cpus and irqs come and go; writes to `smp_affinity` whose result nobody
looks at; and a pid file that other instances know too. The parts share global lists, and iteration is by callback:
`for_each_irq` and `for_each_object` run a function over a list which that function
takes apart. What is hard here is the order of things: a rescan request that comes
while a rescan is running, a tree whose pieces were read at different moments, an
irq that is unlinked from the list a loop stands on, counters that restart from 0,
and defaults written over a policy. `PROJECT.json` lists these hazards with their
lines.

What makes each part correct: every irq is on one list and points back to it; it
is never placed below its level or on an idled cpu; masks that are written respect
hints and bans; the daemon notices that its picture is out of date, scans only for
a reason, and finds back to balancing; every listed irq has one entry in the db;
the tree reaches every cpu and no banned one; masks and lists in memory are the sets
and sequences the rest of the code takes them for; texts mean what they say; and a
daemon that stops takes its pid file with it.

## Modules

`Topology` declares the object tree as the balancer sees it between two rescans:
four lists, children, masks. The tree is a constant because every rescan frees it
and starts again; `TreeAssumption` says what the balancer relies on (a child is one
level below its parent, no object on the lists of two levels). `CpuTree` shows
where such a tree comes from: it instantiates `Topology` with the tree it has built,
and `ObjectTree!InputForBalancer` contains `IsTree`, the body of the assumption.

`LoadShare` (extends `Topology`) has the arithmetic of `parse_proc_stat` as
operators and recursive functions with the names of the C functions.

`Balancer` (extends `LoadShare`) is one cycle of the loop. One action is one
callback: `todo_objs` and `todo_irqs` are what the running `for_each_object` and
`for_each_irq` have still to visit, `cur` is the object whose list is visited.
`lists[d]` is `d->interrupts`, `lists[Null]` is `rebalance_irq_list`.

| action | code |
|---|---|
| `ForceRebalanceIrq` | `force_rebalance_irq`, at boot and in a rescan |
| `Measure`, `MeasureBroken` | `clear_work_stats`, the parses, complete or cut short |
| `Rescan` | `free_object_tree`, `build_object_tree` |
| `FindOverloadedObjs`, `MigrateOverloadedIrqs`, `MoveCandidateIrqs`, `EndLevel` | `find_overloaded_objs` per level |
| `EnterPowersave`, `ForceIrqMigration`, `LeavePowersave` | the powersave decision after the cpus |
| `CalculatePlacement`, `PlaceIrqInNode`, `PlaceIrqInObject`, `FindBestObjectForIrq`, `PlacementDone` | `calculate_placement` |
| `ActivateMapping`, `EndCycle` | `activate_mappings`, `cycle_count++` |

Abstractions: the load of a cpu in a cycle is any member of `CpuLoads` (the code
subtracts two samples of `/proc/stat`); the standard deviation is compared through
its square; `sort_irq_list` breaks ties in any way, as the code does by address;
the kernel may refuse a mask and files may fail to open.

`Placement` is the abstract specification: an irq is in the pool or on one object,
enters at a node, goes down one level at a time and not past its level, and the
kernel is told only masks that fit. `Balancer!ImplementsPlacement` is the
refinement, with the place of an irq read off the lists and not off `assigned_obj`.

`Daemon` is the main loop with the kernel and the signals as the environment:
`CpuUp`, `CpuDown`, `IrqRegistered`, `IrqFreed`, `IrqFires`, `handler` and
`force_rescan` may happen between any two steps. Clearing `need_rescan` and
clearing `cycle_count` are two steps, because a SIGHUP in between is treated
differently. One look at `/proc/interrupts` is one step. `changed`, `hup_owed` and
`seen` are history variables.

`IrqDb` rebuilds the db irq by irq; what sysfs, `/proc/interrupts` and the policy
script say is chosen from small sets. `CpuTree` scans cpu by cpu with hotplug
between reading `online`, `core_siblings` and the rest (package id, cache files and node
are one step); objects are positions in lists. `AllKnown` and `StableScanIsExact` are what `Daemon` takes for granted in
`RebuildIrqDb` and `BuildTree`.

`ObjectTree` composes the two: it extends `CpuTree`, instantiates `IrqDb`, and has
`build_object_tree` (nodes and cpus, then irqs) and `free_object_tree` with cpus going
up and down throughout. Its own property is that the result is what `Balancer` and
its proofs start from, and that no irq outlives the tree it points into.

`Bitmap` has the operations of `bitmap.c`, `bitmap.h` and `non-atomic.h`. A word is
the set of its bits, a bitmap a function from word numbers to words. The shifts are
folds over the words in the order of the C loops, on the memory itself, because
`__bitmap_parse` shifts in place. `CpuMask` is a machine on top: a few `cpumask_t`
variables with arbitrary contents, one action per operation, destination and sources
chosen freely. It justifies that every other module takes a mask for a set.

`CpuText` is `setup_banned_cpus` with `__bitmap_parse` and `__bitmap_parselist` read
character by character; the text is chosen as it is read, so a run tries all texts up
to a length. What the texts mean is defined separately (`MaskTold`, `ListTold`), by
splitting at commas and dashes. Digits are scaled down: two of them, with one bit each
in a mask, and lists count by two. `int` keeps its width: the numbers of a list wrap at
`INT_MAX`, as they do in this build (to C it is undefined), and a negative one that reaches
`set_bit` ends the model in `Wild`, since a write below the mask may do anything.

| action | code |
|---|---|
| `Skip`, `MaskEmbedded`, `MaskIllegal`, `MaskOverflow`, `MaskDigit`, `MaskPiece` | the inner loop of `__bitmap_parse` and what follows a chunk |
| `ListEmbedded`, `ListIllegal`, `ListDash`, `ListDigit`, `ListPiece` | the same of `__bitmap_parselist` |
| `GetEnv`, `NoEnv`, `Open`, `Parsed`, `JoinLists` | `setup_banned_cpus` |

`GList` is `glist.c` on cells that an allocator hands out and takes back; reading a
free cell gives `Junk`, writing or freeing one sets `bad`. `IrqHeap` runs the daemon's
lists on it: the db is built, irqs go through `rebalance_irq_list` to a node and a cpu
and back, objects are sorted and walked, and a rescan frees everything in the order
of `free_object_tree`. Which irq a callback moves is `Balancer`'s business and a free
choice here. `IrqLists` is the promise: lists are sequences, and `for_each_irq` visits
what was on the list when it began. `IrqHeap!ImplementsLists` is the refinement, with
the sequences and the rest of the walk read off the `next` pointers. A loop of the code is
a function of the number of its steps; the recursion of `g_list_sort` is one of its depth.
`Pick` stands for the allocator: any choice among the free cells.

`Lifecycle` is what surrounds the main loop: several processes, each with a command
line of its own, share one pid file; a signal may come and a process may be killed at
any point. An option's argument is a sequence of characters and the number it begins
with; `LONG_MAX` and `INT_MAX` are the limits, since `-t` and `-i` cut one to the other; `-i` and
`-p` are read with `strtoull`, which is `strtoul` where a `long` has 64 bits (`TARGET_ARCH` is
arm64). The
daemon's stay in the loop is one state: `Daemon` has the inside. Creating and writing the
pid file may fail; `unlink` of a file that exists is taken to succeed. A signal that waits
while `daemon()` forks is lost, since a child inherits no pending signals.

The theorems are in modules of their own; an arrow means `EXTENDS`.

| module | theorems about |
|---|---|
| `FoldProofs` | folds over lists: the lemmas the other modules induct with |
| `BalancerProofs` -> `Balancer`, `FoldProofs` | sums over lists and down the tree, what one irq's share of a load can be, and the balancer's invariants |
| `PlacementProofs` -> `BalancerProofs` | the refinement and where irqs end up |
| `DaemonProofs` -> `Daemon` | counters and rescans |
| `LifecycleProofs` -> `Lifecycle` | the pid file and the command line |
| `ObjectTreeProofs` -> `ObjectTree`, `FoldProofs` | the scan of the cpus, the db on top of the tree, and what both hand to the balancer |
| `CpuMaskProofs` -> `CpuMask`, `FoldProofs` | the operations on masks, for every word size and number of cpus |
| `IrqHeapProofs` -> `IrqHeap`, `FoldProofs` | `glist.c` on cells and pointers, the irq lists in memory, and that they implement sequences |

Operators marked "Mutant" are plausible mistakes in the definition below them.
They are used by no specification; with a mutant put in the place of the
definition the property `PROJECT.json` names for it is violated.

## Runs

All with two workers; none takes more than about three minutes.

| cfg | module | shows | distinct states |
|---|---|---|---|
| `MCBalancer` | `MCBalancer` | `TypeOK LevelRespected PlacedDeep NodeHonoured SharesFit DonorsSound NeverToBanned HintHonoured` | 831 000 |
| `MCPowersave` | `MCPowersave` | `ListsConsistent LoopOnList PowersaveIdle ImplementsPlacement WaitingIrqsPlaced` | 64 000 |
| `MCDaemon` | `MCDaemon` | `TypeOK NoCountUnderflow OutdatedIsNoticed RescanHasReason HupServed StopsOnSignal BalancingResumes` | 400 000 |
| `MCObjectTree` | `MCObjectTree` | `TreeCoversCpus StableScanIsExact AllKnown AdminObeyed InputForBalancer` | 1 277 000 |
| `MCCpuMask` | `MCCpuMask` | `MasksAreSets ShiftsExact UnusedStayClear` | 8 700 |
| `MCCpuText` | `MCCpuText` | `MaskExact ListExact BannedAsTold PrintExact` | 427 000 |
| `MCIrqHeap` | `MCIrqHeap` | `WellFormed NoDangling SortExact ImplementsLists` | 55 000 |
| `MCLifecycle` | `MCLifecycle` | `CommandLineHonoured PidFileLives PidFileSteps StoppedCleansUp` | 293 000 |

Some properties are conjunctions of named parts, which the modules state one by one:
`TreeCoversCpus` is `EveryCpuReached`, `EveryCpuFound` and `BannedBlankedOut`; `DonorsSound` is
`NoUnderflow` and `LeastKeeps`; `AdminObeyed` is
`BansHonoured` and `PolicyHonoured`; `InputForBalancer` includes `OneEntry` and the type
invariants of tree and db; `MasksAreSets` is `OpsExact` and `PredicatesExact`;
`CommandLineHonoured` is `OptionsHonoured` and `BansComplete`. The type invariants of
`CpuMask`, `CpuText`, `IrqHeap` and `Lifecycle` are parts of `MasksAreSets`, `MaskExact`,
`WellFormed` and `CommandLineHonoured`.

Deadlock is checked in all of them except `MCCpuText`, where `setup_banned_cpus` simply
returns.

Two of them have limits that the code sets. `TreeCoversCpus` is about the unbanned cpus that
stay online from the beginning of a scan on, and about those that are in the tree. A cpu that
comes up after its directory was visited is not in that tree, and only the number of columns of
`/proc/interrupts` tells the next cycle (`Daemon!OutdatedIsNoticed`). A cpu whose node is not
listed is in the tree, but below a node only if another cpu brings its package there.
`WaitingIrqsPlaced` is about irqs that some node may hold: each gets to an object, however often
a rescan puts it back on the list, unless a rescan finds it gone.

Four runs show a disagreement between a comment and the code; each checks the
comment as a property and TLC finds it violated.

| cfg | property | the code |
|---|---|---|
| `MCNameBan` | `BalancingResumes` | an irq banned with `-n` is in neither list, so every cycle scans (`classify.c:753`); the init script starts the daemon with `-n pvrsrvkm` |
| `MCBanned` | `NeverToBanned` | a node's mask keeps banned cpus, a subset hint lets them through (`activate.c:86`) |
| `MCListOverflow` | `TooLargeRefused` | the number of a cpu in a list is added up in an `int` without a test for overflow (`bitmap.c:447`), so one that is too large may be accepted and ban another cpu |
| `MCModuleBan` | `ModuleBansHonoured` | the module is looked up in the wrong list (`classify.c:817`) |

### Disagreements without a run

The models contain these as the code has them, and the properties above are worded
so that they hold all the same; the words of the code say more.

- `gather_load_stats` takes a `min_load` of 0 for "not set" (`irqlist.c:58`), so an idle
  object is replaced as the minimum by the next one, while `irqlist.c:137` speaks of
  "the object with the minimum load". The minimum is then too high and objects with little
  load keep their irqs; `LeastKeeps` says that at least the least loaded object never gives
  any away.
- `add_new_irq` sets the level from the class after the script's `balance_level` was
  applied (`classify.c:777`), so the script is ignored for irqs without a device, while
  `classify.c:535` has defaults only where "no policy was given". `PolicyHonoured`
  speaks of device irqs.
- `do_one_cpu` sets a bit in a `package_mask` it never cleared (`cputree.c:267`) when
  `core_siblings` is missing, while `cputree.c:264` says "assume solitary".
  `CpuTree!ReadSiblings` has any value there.
- `__bitmap_parse` returns 0 for white space within a mask (`bitmap.c:344`), under the
  comment "This is a no-no, so throw an error", and also for a mask that ends with a
  comma. `MaskExact` says which cpus are banned then.
- `__bitmap_parselist` takes an empty element, and a missing end of a range, for 0.
- No caller looks at what either parser returns (`cputree.c:80`): what was parsed before the
  error is in force, and `MaskExact`, `ListExact` and `BannedAsTold` say exactly which cpus that is.
- `bitmap_shift_right` of one word lets unused bits in (`bitmap.h:330`), while
  `bitmap.c:31` says that they affect no operation. Masks have 64 words in this build;
  `CpuMask!Init` starts one-word masks without such bits.
- `free_cl_opts` frees pointers into the middle of a string (`classify.c:739`). In
  `Lifecycle` the process may abort there, before it removes its pid file.
- A daemon removes a pid file that another one created (`irqbalance.c:437`);
  `PidFileSteps` allows it.
- `parse_proc_interrupts` compares only the number of cpus (`procinterrupts.c:307`), so
  that a swap of two cpus between two cycles is not detected, while `irqbalance.c:402` claims
  that hotplug is; `OutdatedIsNoticed` speaks of the number only.
- `sort_irqs` compares the class before the load (`classify.c:875`), whereas the comment
  in `irqlist.c:133` speaks of an order by workload.

### Bounds

- `MCBalancer`: four irqs, with every hint policy, at the package and the cpu level, so
  that every early return of the callbacks is taken. One node has a package of two cpus and
  keeps a banned cpu in its own mask, so that stopping at the node would tell the kernel a
  banned cpu; one has no package, so that irqs stay at the node; one has only a banned cpu;
  and there is the unspecified node. Irqs prefer a usable node, the banned one, or none.
  Loads 0 and 9 make objects idle or busy; each irq fires twice, which makes
  shares that do not divide evenly, and a donor has irqs left after giving one away.
  TLC also evaluates `Nested`, `BlankedOut` and `PackageForAll`, the hypotheses under
  which two of the properties are proved.
- `MCPowersave`: two cpus, two irqs that move and one that does not,
  powersave after the second cycle (`PowersaveCycle = 1` for 5): enough to enter,
  stay in and leave powersave, and to lose an irq in a rescan or find it again.
- `WordSize` stands for 2^64; it only has to exceed every sum in the instance, that is,
  `LoadsFit` holds there.
- `MCDaemon`: three events (hotplug, registration, SIGHUP) are enough to change
  something before, during and after one scan; a count of 0 or 1 lets a count fall.
  `MaxCycles` saturates `cycle_count`, which the code only compares with 0 there.
  With three cpus the daemon starts, and goes on, with one of them down.
- `MCObjectTree`: four cpus, one banned, one whose node is not listed; two hotplug
  events, so that a cpu can leave and come back within a scan; five irqs: 0, shared,
  message signalled, without device, virtual; scripts that ban, unban, set a level or
  node that exists or not. `MCIrqDb` has the same irqs without the tree. TLC also
  evaluates `Regular`, the hypothesis of two theorems. `DbAssumption` has devices only on
  listed nodes, or none: for another, `get_numa_node` (`numa.c:191`) would return NULL, but
  not while `numa_available()` is -1, as in this build.
- `MCCpuMask`: two masks, words of two bits, sizes 1 to 6: one, two and three words
  with a full and a half used last word, every content, every shift.
- `MCCpuText`: five cpus, words of four bits, chunks of two: the last word and the last
  chunk are partly used and a shift crosses words. Eight characters of a mask hold
  three chunks and more, six of the lists two ranges. An `int` has four bits (`INT_MAX = 7`),
  so that five digits of a list wrap around it, to negative numbers and to cpus.
- `MCIrqHeap`: three irqs with two cells each, so that every free cell is soon reused;
  a list loses its first, middle and last cell, and a sort splits twice. `malloc`
  (`MCPick`) returns the lowest or the highest free cell; the theorems are for any choice.
- `MCLifecycle`: two processes; one tries every option alone, after `-s` or `-j`, twice,
  and every three modules; the other has a pid file. A `long` goes to 15 and an `int` to 3:
  every limit is met on both sides.

### Fairness

`Balancer!FairSpec` is weak fairness of `Next`: there is one thread, and as long as
it can take a step the kernel lets it. `Daemon!FairSpec` is weak fairness of
`DaemonStep`, the daemon's own steps only: sleeping ends, reading ends; no signal
and no hardware event is ever assumed to happen, and the bound on the events says
that the hardware is left alone in the end. `Lifecycle!Spec` has weak fairness of each
process's own steps: the scheduler runs a process that can run. Signals, kills and
starts are not fair.

## Proofs

tlapm checks everything below from nothing, for every value of the constants that
satisfies the named assumptions. `IrqHeapProofs` takes about ten minutes, each of the others
less than five.

### The balancer

For every tree, set of irqs, db, load and threshold that satisfy `TreeAssumption` and
`IrqAssumption`:

- `Invariance`: the inductive invariant `IInv`; from it `TypeCorrect`,
  `ListsStayConsistent`, `LoopsStayOnList`, `LevelsRespected`, `PowersaveStaysIdle`;
- `SharesAlwaysFit`: the loads the irqs of an object get never sum up to more than the
  object's load;
- `DonorsAreSound`: an object that gives irqs away has more load than another one of its
  level, and the subtractions in `move_candidate_irqs` never wrap, as long as the load of
  every object fits into its word (`LoadsFit`);
- `BalancerImplementsPlacement`, the refinement, and `HintsAreHonoured`;
- `PlacementEndsDeep`: when `calculate_placement` ends, no irq could go deeper;
- `PlacementIsDeep`: without powersave (`power_thresh = PowersaveOff`) this stays so for
  every irq that waits for no placement. A cpu in powersave is no candidate, so that
  leaving powersave makes room below irqs that were placed higher up;
- `NodesAreHonoured`, if the mask of a child lies within its parent's (`Nested`);
- `NeverToldBanned`, if the masks below the nodes are blanked out (`BlankedOut`, which
  `ObjectTreeProofs` establishes) and a node that names a banned cpu has a package for every
  irq that may get there (`PackageForAll`). `MCBanned` shows that it is false without.

None of the invariants is inductive alone. That lists stay consistent needs that a
loop visits only what is on the list it runs over (`LoopOnList`), because the
callbacks use `assigned_obj` as the list to unlink from; that in turn needs that
the lists hold no irq twice and that the boot loop has not put an irq on a list it
will visit again (`BootLoop`). `PowersaveIdle` needs to know that, during the loop
that empties a cpu, what is left of the loop is what is left on the list. The
lemmas at the start are about lists: what unlinking, appending and sorting leave
on a list. Then there is one lemma per action.

`SharesFit` speaks of one state of the cycle; `SharesInv` extends it to all states up
to the placement, since unlinking an irq only makes the sum smaller. The shares
themselves come from the first part of the module. A branch has an own count and those of its children;
an irq gets its count times the slice, a quotient of a load by a count, and the
sum of such products is at most the load (`SliceLemma`, `SharesLemma`). That needs that
counts add up along the tree, proved by induction on the depth, of which there are
four (`FourLevels`). For `NoUnderflow`,
`LeftInv` says that while candidates are visited, what the irqs still to be visited weigh
is at most `adjustment_load`. For `LeastKeeps`, `MinLoadLemma` says of the fold in
`find_overloaded_objs` that some object of the level has no more load than what it calls the
minimum, and `LeastInv` keeps that object in sight while irqs move.

For `PlacedDeep`, `DInv` follows an irq on its way down: an irq that could go deeper
sits on an object some running loop has still to visit (`Descent`), and a loop
over a level visits objects in an order in which what is moved to the next level is
visited later (`Downwards`).

### The main loop

`DaemonProofs`: `DaemonTypeCorrect`, `CountsNeverUnderflow` and `OutdatedIsAlwaysNoticed`
without any assumption on the environment, and `ScansHaveReasons` under the assumptions
that the bus directory exists and no irq is banned by name; `MCNameBan` shows that the
second is needed. `InStep` says that as long as nothing has changed since the scan
began, the tree and the db fit what the kernel shows; `Noticed` says that what was seen
last fits the tree and the db (`SeenFits`) unless a rescan is asked for or under way.

### Start and end

`LifecycleProofs`, for any number of processes, command lines, signals and kills:

- `PidFileIsAlive` and `PidFileIsTouchedInOrder`. The invariant `PidInv` ties the file's
  owner to where that process stands (`AtFile`, `FileOwned`);
- `CommandLineIsHonoured`, for every limit of `int` and `long` (`LifecycleAssumption`: the
  range of a `long` is a whole number of ranges of an `int`) and every line of options
  (`CommandLineAssumption`). The invariant `CommandLineInv` says that what is left to parse
  is the end of the line and that what is before it is honoured (`Honoured`); one option
  more keeps that (`Sets`, one lemma for each option with an argument). That a minus sign
  or a cast costs no ban is arithmetic (`Strtoul`); that a module left out, because one on
  the list is a part of it, costs none is that `strstr` is transitive (`StrstrTransitive`).

### The scan and the database

`ObjectTreeProofs`, with cpus coming and going at any moment:

- `ScannedTreeIsSound` and `TreeAlwaysCoversCpus`: types, every cpu that stays online found
  from the top, every cpu of the tree reached by its pointers, no banned cpu in a mask below
  the nodes, on any hardware (`TreeInv`: the lists, the scan's position, and pointers up that
  agree with lists down; `Seen`: what has been visited and did not change is in the tree);
- `TreeOfQuietScanIsExact`: a scan nothing interferes with gives the hardware's tree
  (`QuietInv`), on regular hardware (`Regular`: cpus that share a cache have as many
  levels of it and are in one package). The code relies on it: a cache domain gets its
  parent once;
- `AdminIsObeyed` and `ListedIrqsAreKnown`, for every `/proc/interrupts`, bus and script
  of the form `DbAssumption` gives them (`DbInv`). What a script's lines leave in a policy is
  a fold over them, handled with `FoldProofs`;
- `BalancerInputIsSound`: on regular hardware `build_object_tree` establishes, and every
  rescan keeps, what `TreeAssumption` and `IrqAssumption` say (`InfoTypes`). The proofs of
  the balancer therefore assume nothing of the tree that the code does not provide.

### Cpu masks

`CpuMaskProofs`, for every length of a word, every `NR_CPUS` and any contents of memory
(except that masks of one word start without unused bits, as `CpuMask!Init` says):

- `MasksAlwaysSets`: every operation and predicate of `cpumask.h` is the set operation. Cpu
  `c` is bit `c % BITS_PER_LONG` of word `c \div BITS_PER_LONG`, and the valid bits of the
  words are exactly the cpus (`Position`, `CpuOfBit`); the word by word operations follow.
  `bitmap_weight` adds up the words, which hold different cpus (`InWordsSum`,
  `WeightCounts`);
- `ShiftsAlwaysExact`: what a shift leaves is what it should, and in no other mask, also
  when the destination is the source. `RightLoop` and `LeftLoop` follow the loops over the
  words: the words still to be read are those not yet written. `BitMoves` says in which
  word and where a bit arrives, with the carry between two words;
- `UnusedAlwaysClear`, the promise of `bitmap.h` about unused bits.

The invariant `MaskInv` is the type invariant and that masks of one word have no unused
bits. The second half is needed because `bitmap_shift_right` does not mask a source of
one word: a set unused bit would be shifted into the mask.

### The lists in memory

`IrqHeapProofs`, for any number of irqs, cells and objects and any `malloc` that returns a
free cell (`CellsAssumption`; that memory runs out is not modelled):

- `ListsAreWellFormed`, `NothingDangles` and `ListsAreSorted`;
- `HeapImplementsLists`, the refinement to `IrqLists`.

A sequence of cells is a list in the heap if the pointers forward lead along it to `NULL`
and the pointers back undo them (`Path`, `IsList`). The first part shows what each function
of `glist.c` makes of such a sequence and that it touches no other cell: `g_list_append`
appends (`AppendCorrect`), `g_list_delete_link` leaves the rest (`DeleteCorrect`), `g_list_free`
frees all of it (`FreeCorrect`). `Merging` is the loop invariant of `g_list_sort_merge`: what
is merged is sorted and a list, what is left of `l1` and `l2` are the ends of two sorted
lists, and no cell is in two of the three; `g_list_sort` then is an induction on its depth.

`Rep(heap, head, cs)` says that the whole heap is the lists `cs`, that they share no cell and
that nothing else is allocated. It is kept by every step on lists and gives what the step
does to the sequences (`Gained`, `Moved`, `Emptied`). The invariant `IInv` is

- `MemoryInv`: `Rep`, and the walk is at a cell of the list it is on or behind its end;
- `PhaseInv`: which list is walked with which callback in which phase;
- `AssignedInv`: an irq on the list of an object or to be placed is assigned accordingly,
  so that what `migrate_irq` unlinks is the cell the walk is on;
- `ListsInv`: no irq is twice on a list, no list of an object has an irq the db has not, and
  the lists are empty when they should be;
- `InfoInv`: whose `irq_info` is allocated; in `free_irq_db`, of the irqs still to be visited.

The walk is safe because of the second and the third: a callback takes the irq it is called
for off the list that is walked, or leaves that list alone, and `next` was read before
(`Advance`). It would not be if a callback could unlink the next cell, or if an irq were
assigned to another list than the one it is on.

### Induction

The induction theorems of the library take an operator as a parameter, which the
provers cannot instantiate. `FoldProofs` does without: the numbers that have the
property form a set, and a set of numbers that is not empty has a least member. A fold
over a list is a recursive function on the sets of positions; the lemmas show that such
a function exists, what its range is, and that it takes one element at a time.

### Only model-checked

- Liveness under fairness: `HupServed`, `StopsOnSignal`, `BalancingResumes`,
  `WaitingIrqsPlaced`, `StoppedCleansUp`. This prover does not do fairness.
- `CpuText` (`MaskExact`, `ListExact`, `BannedAsTold`, `PrintExact`): the meaning of a text is
  a number, folded from its digits with powers of two, which is beyond the SMT solver.

## Not modelled

Memory allocation failure, the contents of `local_cpus` and `affinity_hint` (constants
of `Balancer`), the inside of one read of a file, capabilities, logging and dumps, the
build without `getopt_long`, and the functions of `bitmap.h` and `cpumask.h` that are
declared and never defined or never called. Outside `irqbalance/`: overlays,
permissions, policies, makefiles, headers and the recovery key map, none of which has
state. `numa_available()` is a constant: this build has no libnuma and uses the FALSE
case; the TRUE case is checked too.

## Plan

All components with control of their own are modelled, and the invariants of the
balancer, the main loop, the scan, the database, the masks, the irq lists in memory, the pid
file and the command line are proved, and so are both refinements (`Placement`, `IrqLists`).
What the prover can reach of the rest is above.
