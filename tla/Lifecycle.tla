------------------------------ MODULE Lifecycle ------------------------------
(***************************************************************************)
(* A life of the daemon around its main loop (irqbalance.c): the command   *)
(* line, going to the background, the pid file, and what is done at the    *)
(* end.  Several processes are started with command lines of their own and *)
(* share one pid file; each may be killed at any time.  The loop itself is *)
(* in Daemon, here a process just stays in it until a signal or one-shot   *)
(* mode ends it.                                                           *)
(*                                                                         *)
(* An option is [opt, text, num]: its letter, its argument as characters,  *)
(* and the number the argument begins with (0 if it does not begin with    *)
(* one).  The argument of -n is its names and whether a comma comes first. *)
(***************************************************************************)
EXTENDS Integers, SequencesExt

CONSTANTS
    Procs,          \* process ids
    CommandLines,   \* the command lines each may be started with
    Environments,   \* [oneshot, debug]: which of the variables IRQBALANCE_* are set
    CoreCounts,     \* the numbers of cpus the first scan may find
    Names,          \* names of irqs in /proc/interrupts
    LONG_MAX, INT_MAX,   \* the largest long and int
    SLEEP_INTERVAL,      \* the interval without -t
    None

ULONG_MAX == 2 * LONG_MAX + 1

(* A long is as wide as an int or wider: the one holds a whole number of   *)
(* ranges of the other.                                                    *)
ASSUME LifecycleAssumption ==
    /\ INT_MAX \in Nat \ {0} /\ LONG_MAX \in Nat
    /\ (LONG_MAX + 1) % (INT_MAX + 1) = 0
    /\ SLEEP_INTERVAL \in 1..INT_MAX
    /\ None \notin Procs

Text   == Seq(STRING)
Option == [opt : {"c", "d", "f", "h", "i", "l", "m", "p", "o", "s", "j", "t", "b", "?"}, text : Text, num : Int]
          \cup [opt : {"n"}, text : Text, num : Int, names : Seq(Text), comma : BOOLEAN]

Off == <<"o", "f", "f">>

(* What begins like "off" does not begin with a number.                    *)
ASSUME CommandLineAssumption ==
    /\ CommandLines \in [Procs -> SUBSET Seq(Option)]
    /\ \A p \in Procs : \A line \in CommandLines[p] : \A k \in DOMAIN line :
          IsPrefix(line[k].text, Off) => line[k].num = 0
    /\ Environments \subseteq [oneshot : BOOLEAN, debug : BOOLEAN]
    /\ Names \subseteq Text

VARIABLES
    pc,          \* where each process is
    argv,        \* the options it has still to parse
    opts,        \* the variables the options set
    keep_going,
    file,        \* the pid file: [creator, pid], or None
    ended,       \* how the process ended
    cmdline      \* the whole command line, for the properties, until it is parsed

memory == <<argv, opts, keep_going, cmdline>>
vars   == <<pc, argv, opts, keep_going, file, ended, cmdline>>

Exact  == <<"e", "x", "a", "c", "t">>
Subset == <<"s", "u", "b", "s", "e", "t">>
Ignore == <<"i", "g", "n", "o", "r", "e">>

Defaults ==
    [one_shot_mode |-> FALSE, debug_mode |-> FALSE, foreground_mode |-> FALSE, journal_logging |-> FALSE,
     global_hint_policy |-> Ignore, power_thresh |-> ULONG_MAX, deepest_cache |-> 2,
     sleep_interval |-> SLEEP_INTERVAL, pidfile |-> FALSE, polscript |-> FALSE,
     cl_banned_irqs |-> <<>>, cl_banned_modules |-> <<>>, banned_irq_names |-> <<>>, interior |-> FALSE]

Init ==
    /\ pc = [p \in Procs |-> "off"]
    /\ argv = [p \in Procs |-> <<>>] /\ cmdline = argv
    /\ opts = [p \in Procs |-> Defaults]
    /\ keep_going = [p \in Procs |-> TRUE]
    /\ file = None
    /\ ended = [p \in Procs |-> None]

-----------------------------------------------------------------------------
(* C library: what is out of range becomes the limit, and a minus sign     *)
(* wraps an unsigned result around.  A cast to int drops the high bits.    *)
strtoul(n) == IF n > ULONG_MAX \/ -n > ULONG_MAX THEN ULONG_MAX ELSE n % (ULONG_MAX + 1)
strtol(n)  == IF n > LONG_MAX THEN LONG_MAX ELSE IF n < -LONG_MAX - 1 THEN -LONG_MAX - 1 ELSE n
ToInt(n)   == LET m == n % (2 * INT_MAX + 2) IN IF m <= INT_MAX THEN m ELSE m - (2 * INT_MAX + 2)

(* !strncmp(optarg, word, strlen(optarg)) *)
Abbreviates(text, word) == IsPrefix(text, word)

(* strstr(b, a) finds something *)
strstr(b, a) == \E k \in 0..Len(b) - Len(a) : SubSeq(b, k + 1, k + Len(a)) = a

(* g_list_find_custom(list, name, substr_find) *)
Found(list, name) == \E k \in DOMAIN list : strstr(name, list[k])

(* Mutant: the new module is looked for in the others. *)
AddModuleSwapped(list, m) == IF \E k \in DOMAIN list : strstr(list[k], m) THEN list ELSE Append(list, m)

add_cl_banned_module(list, m) == IF Found(list, m) THEN list ELSE Append(list, m)

add_cl_banned_irq(list, i) == IF i \in ToSet(list) THEN list ELSE Append(list, i)

(* The names are pointers into one copy of the argument.  Only a name at   *)
(* its very start can be given to free.                                    *)
add_banned_irqs_by_names(o, a) ==
    [o EXCEPT !.banned_irq_names = @ \o a.names,
              !.interior = @ \/ Len(a.names) > 1 \/ (a.comma /\ a.names # <<>>)]

HintPolicy(text) ==
    CASE Abbreviates(text, Exact)  -> Exact
      [] Abbreviates(text, Subset) -> Subset
      [] Abbreviates(text, Ignore) -> Ignore
      [] OTHER -> None

(* Mutant: the number is looked at before the cast. *)
BadLong(n) == strtol(n) < 1

BadInterval(n) == ToInt(strtol(n)) < 1

(* The options parse_command_line ends the program for. *)
Invalid(a) ==
    \/ a.opt \in {"?", "b"}
    \/ a.opt = "c" /\ strtoul(a.num) \in {0, ULONG_MAX}
    \/ a.opt = "h" /\ HintPolicy(a.text) = None
    \/ a.opt = "i" /\ strtoul(a.num) = ULONG_MAX
    \/ a.opt = "p" /\ ~Abbreviates(a.text, Off) /\ strtoul(a.num) = ULONG_MAX
    \/ a.opt = "t" /\ BadInterval(a.num)

(* -i and -p are read with strtoull, which is strtoul where a long has 64   *)
(* bits, as on the boards this configuration is for.                        *)
SetOption(o, a) ==
    CASE a.opt = "c" -> [o EXCEPT !.deepest_cache = strtoul(a.num)]
      [] a.opt = "d" -> [o EXCEPT !.debug_mode = TRUE, !.foreground_mode = TRUE]
      [] a.opt = "f" -> [o EXCEPT !.foreground_mode = TRUE]
      [] a.opt = "h" -> [o EXCEPT !.global_hint_policy = HintPolicy(a.text)]
      [] a.opt = "i" -> [o EXCEPT !.cl_banned_irqs = add_cl_banned_irq(@, ToInt(strtoul(a.num)))]
      [] a.opt = "l" -> [o EXCEPT !.polscript = TRUE]
      [] a.opt = "m" -> [o EXCEPT !.cl_banned_modules = add_cl_banned_module(@, a.text)]
      [] a.opt = "p" -> [o EXCEPT !.power_thresh = IF Abbreviates(a.text, Off) THEN ULONG_MAX ELSE strtoul(a.num)]
      [] a.opt = "o" -> [o EXCEPT !.one_shot_mode = TRUE]
      [] a.opt = "s" -> [o EXCEPT !.pidfile = TRUE]
      [] a.opt = "j" -> [o EXCEPT !.journal_logging = TRUE, !.foreground_mode = TRUE]
      [] a.opt = "t" -> [o EXCEPT !.sleep_interval = ToInt(strtol(a.num))]
      [] a.opt = "n" -> add_banned_irqs_by_names(o, a)

-----------------------------------------------------------------------------
Goes(p, where) == pc' = [pc EXCEPT ![p] = where]

(* Its memory goes with the process. *)
Ends(p, how) ==
    /\ Goes(p, "gone")
    /\ ended' = [ended EXCEPT ![p] = how]
    /\ argv' = [argv EXCEPT ![p] = <<>>] /\ cmdline' = [cmdline EXCEPT ![p] = <<>>]
    /\ opts' = [opts EXCEPT ![p] = Defaults]
    /\ keep_going' = [keep_going EXCEPT ![p] = TRUE]

Start(p) ==
    /\ pc[p] = "off" /\ Goes(p, "parse")
    /\ \E line \in CommandLines[p] :
          argv' = [argv EXCEPT ![p] = line] /\ cmdline' = [cmdline EXCEPT ![p] = line]
    /\ UNCHANGED <<opts, keep_going, file, ended>>

(* One round of the loop in parse_command_line *)
parse_command_line(p) ==
    /\ pc[p] = "parse" /\ argv[p] # <<>>
    /\ LET a == Head(argv[p])
       IN  \/ Invalid(a) /\ Ends(p, "usage")
           \/ /\ ~Invalid(a)
              /\ argv' = [argv EXCEPT ![p] = Tail(@)]
              /\ opts' = [opts EXCEPT ![p] = SetOption(@, a)]
              /\ UNCHANGED <<pc, keep_going, ended, cmdline>>
    /\ UNCHANGED file

(* The environment is looked at, the tree is built. *)
build_object_tree(p) ==
    /\ pc[p] = "parse" /\ argv[p] = <<>>
    /\ \E env \in Environments, core_count \in CoreCounts :
          \/ core_count < 2 /\ Ends(p, "exit")
          \/ /\ core_count >= 2
             /\ opts' = [opts EXCEPT ![p].one_shot_mode = @ \/ env.oneshot,
                                     ![p].debug_mode = @ \/ env.debug,
                                     ![p].foreground_mode = @ \/ env.debug]
             /\ Goes(p, IF opts'[p].foreground_mode THEN "loop" ELSE "daemon")
             /\ cmdline' = [cmdline EXCEPT ![p] = <<>>]
             /\ UNCHANGED <<argv, keep_going, ended>>
    /\ UNCHANGED file

(* daemon(0, 0) forks: it fails, or the child goes on.  The signals that   *)
(* wait for the parent are not inherited.                                  *)
daemon(p) ==
    /\ pc[p] = "daemon"
    /\ \/ Ends(p, "exit")
       \/ /\ Goes(p, IF opts[p].pidfile THEN "open" ELSE "loop")
          /\ keep_going' = [keep_going EXCEPT ![p] = TRUE]
          /\ UNCHANGED <<argv, opts, cmdline, ended>>
    /\ UNCHANGED file

(* Mutant: a file that exists is opened as well. *)
open_any(p) ==
    /\ pc[p] = "open"
    /\ file' = [creator |-> p, pid |-> None]
    /\ Goes(p, "write")
    /\ UNCHANGED <<memory, ended>>

(* O_CREAT | O_EXCL fails when the file exists, and may fail when it does  *)
(* not.  The daemon goes on.                                               *)
open(p) ==
    /\ pc[p] = "open"
    /\ \/ file = None /\ file' = [creator |-> p, pid |-> None] /\ Goes(p, "write")
       \/ Goes(p, "loop") /\ UNCHANGED file
    /\ UNCHANGED <<memory, ended>>

(* The file may have been removed since it was opened, and a write that    *)
(* fails is not noticed.                                                   *)
write(p) ==
    /\ pc[p] = "write" /\ Goes(p, "loop")
    /\ \/ UNCHANGED file
       \/ file # None /\ file.creator = p /\ file' = [file EXCEPT !.pid = p]
    /\ UNCHANGED <<memory, ended>>

(* The signals are blocked until the handlers are installed: one that      *)
(* arrives before that, and not before the fork, stops the daemon when it  *)
(* gets to the loop.                                                       *)
handler(p) ==
    /\ pc[p] \notin {"off", "gone"} /\ keep_going[p]
    /\ keep_going' = [keep_going EXCEPT ![p] = FALSE]
    /\ UNCHANGED <<pc, argv, opts, file, ended, cmdline>>

(* Mutant: only one-shot mode ends the loop. *)
LoopOn(p) ==
    /\ pc[p] = "loop" /\ opts[p].one_shot_mode
    /\ Goes(p, "free_cl_opts")
    /\ UNCHANGED <<memory, file, ended>>

(* The end of the loop, free_object_tree *)
LeaveLoop(p) ==
    /\ pc[p] = "loop" /\ (~keep_going[p] \/ opts[p].one_shot_mode)
    /\ Goes(p, "free_cl_opts")
    /\ UNCHANGED <<memory, file, ended>>

(* To free a pointer into the middle of an allocation is undefined: the    *)
(* allocator aborts the process or does not notice.                        *)
free_cl_opts(p) ==
    /\ pc[p] = "free_cl_opts"
    /\ \/ Goes(p, "unlink") /\ UNCHANGED <<memory, ended>>
       \/ opts[p].interior /\ Ends(p, "aborted")
    /\ UNCHANGED file

(* Mutant: the pid file is left behind. *)
LeaveFile(p) == pc[p] = "unlink" /\ Ends(p, "exit") /\ UNCHANGED file

unlink(p) ==
    /\ pc[p] = "unlink" /\ Ends(p, "exit")
    /\ file' = IF ~opts[p].foreground_mode /\ opts[p].pidfile THEN None ELSE file

Killed(p) == pc[p] \notin {"off", "gone"} /\ Ends(p, "killed") /\ UNCHANGED file

Terminating == (\A p \in Procs : pc[p] = "gone") /\ UNCHANGED vars

Step(p) == \/ parse_command_line(p) \/ build_object_tree(p) \/ daemon(p) \/ open(p) \/ write(p)
           \/ LeaveLoop(p) \/ free_cl_opts(p) \/ unlink(p)

Next == \/ \E p \in Procs : Start(p) \/ Step(p) \/ handler(p) \/ Killed(p)
        \/ Terminating

(* A process that can run does run. *)
Spec == Init /\ [][Next]_vars /\ \A p \in Procs : WF_vars(Step(p))
-----------------------------------------------------------------------------
Alive(p)  == pc[p] \notin {"off", "gone"}
Parsed(p) == pc[p] = "parse" /\ argv[p] = <<>>

(* The types of the variables. *)
TypeOK ==
    /\ pc \in [Procs -> {"off", "parse", "daemon", "open", "write", "loop", "free_cl_opts", "unlink", "gone"}]
    /\ keep_going \in [Procs -> BOOLEAN]
    /\ file = None \/ (file.creator \in Procs /\ file.pid \in {None, file.creator})
    /\ ended \in [Procs -> {None, "usage", "exit", "killed", "aborted"}]
    /\ \A p \in Procs : /\ opts[p].sleep_interval \in 1..INT_MAX
                        /\ opts[p].deepest_cache \in 1..ULONG_MAX - 1
                        /\ opts[p].power_thresh \in 0..ULONG_MAX

(* When the command line has been parsed, the variables are what a reader  *)
(* of the line expects: the last -h, -p, -c and -t count, with the number  *)
(* that was written if it fits, and -d, -f and -j each keep the daemon in  *)
(* the foreground.                                                         *)
Given(p, x) == {k \in DOMAIN cmdline[p] : cmdline[p][k].opt = x}
LastOf(p, x) == cmdline[p][CHOOSE k \in Given(p, x) : \A j \in Given(p, x) : j <= k]

OptionsHonoured ==
    \A p \in Procs : Parsed(p) =>
        /\ opts[p].foreground_mode <=> \E x \in {"d", "f", "j"} : Given(p, x) # {}
        /\ opts[p].pidfile <=> Given(p, "s") # {}
        /\ Given(p, "h") # {} => IsPrefix(LastOf(p, "h").text, opts[p].global_hint_policy)
        /\ Given(p, "p") # {} /\ LastOf(p, "p").num \in 1..ULONG_MAX - 1
              => opts[p].power_thresh = LastOf(p, "p").num
        /\ Given(p, "p") = {} \/ LastOf(p, "p").text = Off => opts[p].power_thresh = ULONG_MAX
        /\ Given(p, "c") # {} /\ LastOf(p, "c").num \in Nat => opts[p].deepest_cache = LastOf(p, "c").num
        /\ Given(p, "t") # {} /\ LastOf(p, "t").num \in 1..INT_MAX
              => opts[p].sleep_interval = LastOf(p, "t").num

(* What is banned does not depend on the order of the options: the modules *)
(* that add_banned_module leaves out, because one on the list is a part of *)
(* them, ban no name that the list does not ban, and every name of every   *)
(* -n counts.                                                              *)
BansComplete ==
    \A p \in Procs : Parsed(p) =>
        /\ \A name \in Names :
              /\ Found(opts[p].cl_banned_modules, name)
                    <=> \E k \in Given(p, "m") : strstr(name, cmdline[p][k].text)
              /\ Found(opts[p].banned_irq_names, name)
                    <=> \E k \in Given(p, "n") : Found(cmdline[p][k].names, name)
        /\ ToSet(opts[p].cl_banned_irqs) = {ToInt(cmdline[p][k].num) : k \in Given(p, "i")}

(* The variables stay in their ranges and are what the command line says,  *)
(* whatever the order of the options and the width of a number.            *)
CommandLineHonoured == TypeOK /\ OptionsHonoured /\ BansComplete

(* A pid file is one of a daemon that runs, or that was killed or aborted: *)
(* a daemon that ends by itself takes its pid file with it.                *)
PidFileLives ==
    file # None => \/ pc[file.creator] \in {"write", "loop", "free_cl_opts", "unlink"}
                   \/ ended[file.creator] \in {"killed", "aborted"}

(* Only a daemon in the background that was told of the pid file touches   *)
(* it: it creates it when there is none, writes to the one it created, and *)
(* removes it, whoever created it, when it ends.                           *)
PidFileSteps ==
    [][file' # file =>
        \E p \in Procs :
            /\ opts[p].pidfile /\ ~opts[p].foreground_mode
            /\ \/ file = None /\ file' = [creator |-> p, pid |-> None]
               \/ file = [creator |-> p, pid |-> None] /\ file' = [creator |-> p, pid |-> p]
               \/ file' = None /\ pc[p] = "unlink" /\ ended'[p] = "exit"]_vars

(* A daemon that is told to stop, even before it has installed its         *)
(* handlers but after it has forked, ends and removes the pid file it      *)
(* created, unless it is killed first, or aborts for a name that is not    *)
(* the start of an allocation.                                             *)
StoppedCleansUp ==
    \A p \in Procs :
        /\ (Alive(p) /\ pc[p] \notin {"parse", "daemon"} /\ ~keep_going[p]) ~> pc[p] = "gone"
        /\ (file # None /\ file.creator = p /\ Alive(p) /\ ~keep_going[p] /\ ~opts[p].interior)
            ~> (file = None \/ file.creator # p \/ ended[p] = "killed")
=============================================================================
