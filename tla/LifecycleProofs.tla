-------------------------- MODULE LifecycleProofs --------------------------
(***************************************************************************)
(* The pid file and the command line, for any number of daemons started    *)
(* with any command lines and killed anywhere.                             *)
(*                                                                         *)
(* The pid file needs the invariant PidInv.  The command line needs what   *)
(* the C library makes of a number (no range of an int is cut by the end   *)
(* of a long), that strstr is transitive, one lemma for each option that   *)
(* takes an argument, and the invariant CommandLineInv: what is left to    *)
(* parse is the end of the line, and what is before it is honoured.        *)
(***************************************************************************)
EXTENDS Lifecycle, TLAPS

(* The variables that hold one value for each process do so. *)
PerProcess ==
    /\ pc = [p \in Procs |-> pc[p]]
    /\ opts = [p \in Procs |-> opts[p]]
    /\ ended = [p \in Procs |-> ended[p]]

(* Who gets to the pid file runs in the background and was told of it, and *)
(* a process has ended once it is gone.                                    *)
InBackground(p) == opts[p].pidfile /\ ~opts[p].foreground_mode

AtFile ==
    \A p \in Procs :
        /\ pc[p] = "daemon" => ~opts[p].foreground_mode
        /\ pc[p] \in {"open", "write"} => InBackground(p)
        /\ pc[p] # "gone" => ended[p] = None

(* The file names its creator, who still has to fill it in or did so.  A   *)
(* creator that is alive will remove the file on its way out; one that is  *)
(* gone did not get that far.                                              *)
FileOf(p) ==
    /\ file = [creator |-> p, pid |-> None] \/ file = [creator |-> p, pid |-> p]
    /\ pc[p] = "write" => file = [creator |-> p, pid |-> None]
    /\ \/ pc[p] \in {"write", "loop", "free_cl_opts", "unlink"} /\ InBackground(p)
       \/ ended[p] \in {"killed", "aborted"} /\ pc[p] = "gone"

FileOwned == file = None \/ \E p \in Procs : FileOf(p)

PidInv == PerProcess /\ AtFile /\ FileOwned

-----------------------------------------------------------------------------
LEMMA PidInit == Init => PidInv
BY DEF Init, PidInv, PerProcess, AtFile, FileOwned

(* A step of p that leaves the file alone. *)
LEMMA PidFrame ==
    ASSUME PidInv, NEW p \in Procs, PerProcess',
           \A q \in Procs : q # p =>
               pc'[q] = pc[q] /\ opts'[q] = opts[q] /\ ended'[q] = ended[q],
           file' = file,
           pc'[p] = "daemon" => ~opts'[p].foreground_mode,
           pc'[p] \in {"open", "write"} => InBackground(p)',
           pc'[p] # "gone" => ended'[p] = None,
           FileOf(p) => FileOf(p)'
    PROVE  PidInv'
<1>1. AtFile'
  BY DEF PidInv, AtFile, InBackground
<1>2. \A q \in Procs : q # p /\ FileOf(q) => FileOf(q)'
  BY DEF FileOf, InBackground
<1>3. FileOwned'
  BY <1>2 DEF PidInv, FileOwned
<1> QED BY <1>1, <1>3 DEF PidInv

(* What the actions write, process by process. *)
LEMMA PidActions ==
    ASSUME PidInv, NEW p \in Procs
    PROVE  /\ \A where : Goes(p, where) => /\ pc' = [q \in Procs |-> pc'[q]]
                                           /\ pc'[p] = where
                                           /\ \A q \in Procs : q # p => pc'[q] = pc[q]
           /\ \A how : Ends(p, how) =>
                 /\ PerProcess'
                 /\ pc'[p] = "gone" /\ ended'[p] = how
                 /\ \A q \in Procs : q # p =>
                       pc'[q] = pc[q] /\ opts'[q] = opts[q] /\ ended'[q] = ended[q]
BY DEF PidInv, PerProcess, Goes, Ends
LEMMA PidStep == PidInv /\ [Next]_vars => PidInv'
<1> SUFFICES ASSUME PidInv, [Next]_vars PROVE PidInv'
  OBVIOUS
<1>1. CASE UNCHANGED vars
  BY <1>1 DEF vars, PidInv, PerProcess, AtFile, FileOwned, FileOf, InBackground
<1>2. ASSUME NEW p \in Procs, Start(p) PROVE PidInv'
  <2>1. PerProcess' /\ pc'[p] = "parse" /\ ended'[p] = None /\ ~FileOf(p) /\ file' = file
    BY <1>2, PidActions DEF Start, PidInv, PerProcess, AtFile, FileOf
  <2> QED BY <1>2, <2>1, PidFrame, PidActions DEF Start
<1>3. ASSUME NEW p \in Procs, parse_command_line(p) PROVE PidInv'
  <2>1. pc[p] = "parse" /\ ended[p] = None /\ ~FileOf(p) /\ file' = file
    BY <1>3 DEF parse_command_line, PidInv, AtFile, FileOf
  <2>2. CASE Ends(p, "usage")
    BY <2>1, <2>2, PidFrame, PidActions
  <2>3. CASE \E o : opts' = [opts EXCEPT ![p] = o] /\ UNCHANGED <<pc, ended>>
    <3>1. PerProcess' /\ \A q \in Procs : q # p => opts'[q] = opts[q]
      BY <2>3 DEF PidInv, PerProcess
    <3> QED BY <2>1, <2>3, <3>1, PidFrame
  <2> QED BY <1>3, <2>2, <2>3 DEF parse_command_line
<1>4. ASSUME NEW p \in Procs, build_object_tree(p) PROVE PidInv'
  <2>1. pc[p] = "parse" /\ ended[p] = None /\ ~FileOf(p) /\ file' = file
    BY <1>4 DEF build_object_tree, PidInv, AtFile, FileOf
  <2>2. CASE Ends(p, "exit")
    BY <2>1, <2>2, PidFrame, PidActions
  <2>3. CASE /\ Goes(p, IF opts'[p].foreground_mode THEN "loop" ELSE "daemon")
             /\ ended' = ended
             /\ \E o : opts' = [opts EXCEPT ![p] = o]
    <3>1. PerProcess' /\ \A q \in Procs : q # p => opts'[q] = opts[q]
      BY <2>3, PidActions DEF PidInv, PerProcess
    <3>2. pc'[p] \in {"loop", "daemon"} /\ (pc'[p] = "daemon" => ~opts'[p].foreground_mode)
      BY <2>3, PidActions
    <3> QED BY <2>1, <2>3, <3>1, <3>2, PidFrame, PidActions
  <2>4. ASSUME NEW env,
               opts' = [opts EXCEPT ![p].one_shot_mode = @ \/ env.oneshot,
                                    ![p].debug_mode = @ \/ env.debug,
                                    ![p].foreground_mode = @ \/ env.debug]
        PROVE  \E o : opts' = [opts EXCEPT ![p] = o]
    BY <2>4 DEF PidInv, PerProcess
  <2> QED BY <1>4, <2>2, <2>3, <2>4 DEF build_object_tree
<1>5. ASSUME NEW p \in Procs, daemon(p) PROVE PidInv'
  <2>1. pc[p] = "daemon" /\ ended[p] = None /\ ~FileOf(p) /\ file' = file
        /\ ~opts[p].foreground_mode
    BY <1>5 DEF daemon, PidInv, AtFile, FileOf
  <2>2. CASE Ends(p, "exit")
    BY <2>1, <2>2, PidFrame, PidActions
  <2>3. CASE /\ Goes(p, IF opts[p].pidfile THEN "open" ELSE "loop")
             /\ UNCHANGED <<opts, ended>>
    <3>1. PerProcess' /\ pc'[p] \in {"open", "loop"} /\ (pc'[p] = "open" => InBackground(p)')
      BY <2>1, <2>3, PidActions DEF PidInv, PerProcess, InBackground
    <3> QED BY <2>1, <2>3, <3>1, PidFrame, PidActions
  <2> QED BY <1>5, <2>2, <2>3 DEF daemon
<1>6. ASSUME NEW p \in Procs, open(p) PROVE PidInv'
  <2>1. /\ pc[p] = "open" /\ ended[p] = None /\ ~FileOf(p) /\ InBackground(p)
        /\ UNCHANGED <<opts, ended>>
    BY <1>6 DEF open, memory, PidInv, AtFile, FileOf
  <2>2. CASE Goes(p, "loop") /\ file' = file
    <3>1. PerProcess' /\ pc'[p] = "loop"
      BY <2>1, <2>2, PidActions DEF PidInv, PerProcess
    <3> QED BY <2>1, <2>2, <3>1, PidFrame, PidActions
  <2>3. CASE file' = [creator |-> p, pid |-> None] /\ Goes(p, "write")
    <3>1. /\ PerProcess' /\ pc'[p] = "write" /\ InBackground(p)'
          /\ \A q \in Procs : q # p => pc'[q] = pc[q]
      BY <2>1, <2>3, PidActions DEF PidInv, PerProcess, InBackground
    <3>2. AtFile'
      BY <2>1, <3>1 DEF PidInv, AtFile, InBackground
    <3>3. FileOf(p)'
      BY <2>3, <3>1 DEF FileOf
    <3> QED BY <3>1, <3>2, <3>3 DEF PidInv, FileOwned
  <2> QED BY <1>6, <2>2, <2>3 DEF open
<1>7. ASSUME NEW p \in Procs, write(p) PROVE PidInv'
  <2>1. /\ pc[p] = "write" /\ ended[p] = None /\ InBackground(p)
        /\ UNCHANGED <<opts, ended>> /\ PerProcess' /\ pc'[p] = "loop"
        /\ \A q \in Procs : q # p => pc'[q] = pc[q]
    BY <1>7, PidActions DEF write, memory, PidInv, AtFile, PerProcess
  <2>2. CASE file' = file
    <3>1. FileOf(p) => FileOf(p)'
      BY <2>1, <2>2 DEF FileOf, InBackground
    <3> QED BY <2>1, <2>2, <3>1, PidFrame
  <2>3. CASE file # None /\ file.creator = p /\ file' = [file EXCEPT !.pid = p]
    <3>1. file' = [creator |-> p, pid |-> p]
      BY <2>3 DEF PidInv, FileOwned, FileOf
    <3>2. AtFile'
      BY <2>1 DEF PidInv, AtFile, InBackground
    <3>3. FileOf(p)'
      BY <2>1, <3>1 DEF FileOf, InBackground
    <3> QED BY <2>1, <3>2, <3>3 DEF PidInv, FileOwned
  <2> QED BY <1>7, <2>2, <2>3 DEF write
<1>8. ASSUME NEW p \in Procs, handler(p) PROVE PidInv'
  BY <1>8 DEF handler, PidInv, PerProcess, AtFile, FileOwned, FileOf, InBackground
<1>9. ASSUME NEW p \in Procs, LeaveLoop(p) PROVE PidInv'
  <2>1. /\ pc[p] = "loop" /\ ended[p] = None /\ UNCHANGED <<opts, ended, file>>
        /\ PerProcess' /\ pc'[p] = "free_cl_opts"
    BY <1>9, PidActions DEF LeaveLoop, memory, PidInv, AtFile, PerProcess
  <2>2. FileOf(p) => FileOf(p)'
    BY <2>1 DEF FileOf, InBackground
  <2> QED BY <1>9, <2>1, <2>2, PidFrame, PidActions DEF LeaveLoop
<1>10. ASSUME NEW p \in Procs, free_cl_opts(p) PROVE PidInv'
  <2>1. pc[p] = "free_cl_opts" /\ ended[p] = None /\ file' = file
    BY <1>10 DEF free_cl_opts, PidInv, AtFile
  <2>2. CASE Goes(p, "unlink") /\ UNCHANGED <<opts, ended>>
    <3>1. PerProcess' /\ pc'[p] = "unlink"
      BY <2>2, PidActions DEF PidInv, PerProcess
    <3>2. FileOf(p) => FileOf(p)'
      BY <2>1, <2>2, <3>1 DEF FileOf, InBackground
    <3> QED BY <2>1, <2>2, <3>1, <3>2, PidFrame, PidActions
  <2>3. CASE Ends(p, "aborted")
    <3>1. FileOf(p) => FileOf(p)'
      BY <2>1, <2>3, PidActions DEF FileOf
    <3> QED BY <2>1, <2>3, <3>1, PidFrame, PidActions
  <2> QED BY <1>10, <2>2, <2>3 DEF free_cl_opts, memory
<1>11. ASSUME NEW p \in Procs, unlink(p) PROVE PidInv'
  <2>1. pc[p] = "unlink" /\ ended[p] = None /\ Ends(p, "exit")
    BY <1>11 DEF unlink, PidInv, AtFile
  <2>2. CASE InBackground(p)
    <3>1. file' = None
      BY <1>11, <2>2 DEF unlink, InBackground
    <3>2. AtFile'
      BY <2>1, PidActions DEF PidInv, AtFile, InBackground
    <3> QED BY <2>1, <3>1, <3>2, PidActions DEF PidInv, FileOwned
  <2>3. CASE ~InBackground(p)
    <3>1. file' = file
      BY <1>11, <2>3 DEF unlink, InBackground
    <3>2. ~FileOf(p)
      BY <2>1, <2>3 DEF FileOf
    <3> QED BY <2>1, <3>1, <3>2, PidFrame, PidActions
  <2> QED BY <2>2, <2>3
<1>12. ASSUME NEW p \in Procs, Killed(p) PROVE PidInv'
  <2>1. pc[p] # "gone" /\ Ends(p, "killed") /\ file' = file /\ ended[p] = None
    BY <1>12 DEF Killed, PidInv, AtFile
  <2>2. FileOf(p) => FileOf(p)'
    BY <2>1, PidActions DEF FileOf
  <2> QED BY <2>1, <2>2, PidFrame, PidActions
<1> QED BY <1>1, <1>2, <1>3, <1>4, <1>5, <1>6, <1>7, <1>8, <1>9, <1>10, <1>11, <1>12
        DEF Next, Step, Terminating

LEMMA PidInvariance == Spec => []PidInv
BY PidInit, PidStep, PTL DEF Spec
-----------------------------------------------------------------------------
(* However many daemons share the pid file and wherever they are killed, a  *)
(* pid file is one of a daemon that runs or that was killed or aborted:     *)
(* main's unlink at the end is reached with the options that created it.    *)
THEOREM PidFileIsAlive == Spec => []PidFileLives
<1>1. PidInv => PidFileLives
  BY DEF PidInv, FileOwned, FileOf, PidFileLives
<1> QED BY <1>1, PidInvariance, PTL

(* Only a daemon in the background that was told of the pid file touches    *)
(* it: it creates it when there is none (O_EXCL), writes its own pid once   *)
(* to the file it created, and removes it when it ends by itself.           *)
THEOREM PidFileIsTouchedInOrder == Spec => PidFileSteps
<1> DEFINE Touch ==
        \E p \in Procs :
            /\ opts[p].pidfile /\ ~opts[p].foreground_mode
            /\ \/ file = None /\ file' = [creator |-> p, pid |-> None]
               \/ file = [creator |-> p, pid |-> None] /\ file' = [creator |-> p, pid |-> p]
               \/ file' = None /\ pc[p] = "unlink" /\ ended'[p] = "exit"
<1>1. ASSUME PidInv, Next, file' # file PROVE Touch
  <2>1. PICK p \in Procs : open(p) \/ write(p) \/ unlink(p)
    BY <1>1 DEF Next, Step, Start, parse_command_line, build_object_tree, daemon, handler,
                LeaveLoop, free_cl_opts, Killed, Terminating, vars
  <2>2. CASE open(p)
    BY <1>1, <2>2 DEF open, PidInv, AtFile, InBackground
  <2>3. CASE write(p)
    <3>1. pc[p] = "write" /\ file.creator = p /\ file # None /\ file' = [file EXCEPT !.pid = p]
      BY <1>1, <2>3 DEF write
    <3>2. FileOf(p)
      BY <1>1, <3>1 DEF PidInv, FileOwned, FileOf
    <3>3. file = [creator |-> p, pid |-> None]
      BY <3>1, <3>2 DEF FileOf
    <3> QED BY <1>1, <3>1, <3>3 DEF PidInv, AtFile, InBackground
  <2>4. CASE unlink(p)
    BY <1>1, <2>4, PidActions DEF unlink
  <2> QED BY <2>1, <2>2, <2>3, <2>4
<1>2. PidInv /\ [Next]_vars => [file' # file => Touch]_vars
  BY <1>1
<1> QED BY <1>2, PidInvariance, PTL DEF Spec, PidFileSteps

-----------------------------------------------------------------------------
(* A remainder is found by giving its quotient. *)
LEMMA RemainderUnique ==
    ASSUME NEW m \in Nat \ {0}, NEW n \in Int, NEW q \in Int, NEW r \in 0..m - 1, n = (m * q) + r
    PROVE  n % m = r
<1> DEFINE e == n \div m
           s == n % m
<1>1. e \in Int /\ s \in 0..m - 1 /\ n = (m * e) + s
  OBVIOUS
<1> HIDE DEF e, s
<1>2. m * (q - e) = s - r
  BY <1>1, SMT
<1>3. -m < s - r /\ s - r < m
  BY <1>1
<1>4. q - e < 1
  <2> SUFFICES ASSUME q - e >= 1 PROVE FALSE
    BY <1>1
  <2>1. m * (q - e) >= m
    BY <1>1, SMT
  <2> QED BY <1>1, <1>2, <1>3, <2>1
<1>5. q - e > -1
  <2> SUFFICES ASSUME q - e <= -1 PROVE FALSE
    BY <1>1
  <2>1. m * (q - e) <= -m
    BY <1>1, SMT
  <2> QED BY <1>1, <1>2, <1>3, <2>1
<1>6. q = e
  BY <1>1, <1>4, <1>5
<1> QED BY <1>1, <1>2, <1>6 DEF s

(* A whole number of moduli more leaves the same remainder. *)
LEMMA RemainderPeriod ==
    ASSUME NEW m \in Nat \ {0}, NEW n \in Int, NEW k \in Int
    PROVE  (n + m * k) % m = n % m
<1> DEFINE e == n \div m
           s == n % m
<1>1. e \in Int /\ s \in 0..m - 1 /\ n = (m * e) + s
  OBVIOUS
<1> HIDE DEF e, s
<1>2. n + m * k = (m * (e + k)) + s /\ e + k \in Int /\ n + m * k \in Int
  BY <1>1, SMT
<1>3. (n + m * k) % m = s
  BY <1>1, <1>2, RemainderUnique
<1> QED BY <1>3 DEF s

(* A long is a whole number of ints wide, and no narrower than one. *)
LEMMA Widths ==
    /\ ULONG_MAX \in Nat /\ INT_MAX \in Nat /\ LONG_MAX \in Nat /\ INT_MAX >= 1 /\ LONG_MAX >= INT_MAX
    /\ 2 * INT_MAX + 2 \in Nat \ {0}
    /\ \E k \in Nat : ULONG_MAX + 1 = (2 * INT_MAX + 2) * k
<1> DEFINE i == INT_MAX + 1
           n == LONG_MAX + 1
           e == n \div i
<1>1. i \in Nat \ {0} /\ n \in Nat \ {0} /\ n % i = 0 /\ INT_MAX \in Nat /\ LONG_MAX \in Nat /\ INT_MAX >= 1
  BY LifecycleAssumption
<1>2. 2 * INT_MAX + 2 = 2 * i /\ ULONG_MAX + 1 = 2 * n /\ ULONG_MAX \in Nat
  BY <1>1 DEF ULONG_MAX
<1> HIDE DEF i, n
<1>3. e \in Int /\ n = i * e
  BY <1>1
<1> HIDE DEF e
<1>4. e > 0
  <2> SUFFICES ASSUME e <= 0 PROVE FALSE
    BY <1>3
  <2>1. i * e <= 0
    BY <1>1, <1>3, SMT
  <2> QED BY <1>1, <1>3, <2>1
<1>5. i * e >= i
  BY <1>1, <1>3, <1>4, SMT
<1>6. 2 * n = (2 * i) * e
  BY <1>1, <1>3, SMT
<1>7. LONG_MAX >= INT_MAX
  BY <1>1, <1>3, <1>5 DEF i, n
<1>8. \E k \in Nat : ULONG_MAX + 1 = (2 * INT_MAX + 2) * k
  BY <1>2, <1>3, <1>4, <1>6
<1> QED BY <1>1, <1>2, <1>7, <1>8

(* A cast to int keeps a number that fits, and is an int. *)
LEMMA CastToInt ==
    ASSUME NEW n \in Int
    PROVE  /\ ToInt(n) \in Int /\ ToInt(n) <= INT_MAX
           /\ n \in 0..INT_MAX => ToInt(n) = n
<1> DEFINE w == 2 * INT_MAX + 2
           r == n % w
<1>1. w \in Nat \ {0} /\ INT_MAX \in Nat
  BY Widths
<1>2. r \in 0..w - 1
  <2> HIDE DEF w
  <2> QED BY <1>1
<1>3. ToInt(n) = IF r <= INT_MAX THEN r ELSE r - w
  BY DEF ToInt
<1>4. ASSUME n \in 0..INT_MAX PROVE r = n
  <2>1. n \in 0..w - 1 /\ n = (w * 0) + n
    BY <1>1, <1>4
  <2> HIDE DEF w
  <2> QED BY <1>1, <2>1, RemainderUnique
<1> QED
  <2> HIDE DEF r
  <2> QED BY <1>1, <1>2, <1>3, <1>4

(* A number strtoul accepts is the one written or, behind a minus sign,    *)
(* wrapped around: the cast to int does not see the difference.            *)
LEMMA Strtoul ==
    ASSUME NEW n \in Int
    PROVE  /\ strtoul(n) \in 0..ULONG_MAX
           /\ n \in 0..ULONG_MAX => strtoul(n) = n
           /\ n > ULONG_MAX => strtoul(n) = ULONG_MAX
           /\ strtoul(n) # ULONG_MAX => ToInt(strtoul(n)) = ToInt(n)
<1> DEFINE u == ULONG_MAX + 1
           w == 2 * INT_MAX + 2
           r == n % u
<1>1. u \in Nat \ {0} /\ u = ULONG_MAX + 1 /\ ULONG_MAX \in Nat
  BY Widths
<1>2. r \in 0..u - 1
  <2> HIDE DEF u
  <2> QED BY <1>1
<1>3. strtoul(n) = IF n > ULONG_MAX \/ -n > ULONG_MAX THEN ULONG_MAX ELSE r
  BY DEF strtoul
<1>4. ASSUME n \in 0..ULONG_MAX PROVE r = n
  <2>1. n \in 0..u - 1 /\ n = (u * 0) + n
    BY <1>1, <1>4
  <2> HIDE DEF u
  <2> QED BY <1>1, <2>1, RemainderUnique
<1>5. ASSUME n < 0, n > -u PROVE r = n + u
  <2>1. n + u \in 0..u - 1 /\ n = (u * (-1)) + (n + u)
    BY <1>1, <1>5
  <2> HIDE DEF u
  <2> QED BY <1>1, <2>1, RemainderUnique
<1>6. ToInt(n + u) = ToInt(n)
  <2>1. PICK k \in Nat : u = w * k
    BY Widths
  <2>2. w \in Nat \ {0} /\ k \in Int
    BY Widths
  <2>3. (n + w * k) % w = n % w
    <3> HIDE DEF w, u
    <3> QED BY <2>2, RemainderPeriod
  <2>4. (n + u) % w = n % w
    BY <2>1, <2>3
  <2> QED BY <2>4 DEF ToInt
<1>7. strtoul(n) # ULONG_MAX => ToInt(strtoul(n)) = ToInt(n)
  <2> SUFFICES ASSUME strtoul(n) # ULONG_MAX PROVE ToInt(strtoul(n)) = ToInt(n)
    OBVIOUS
  <2>1. strtoul(n) = r /\ n <= ULONG_MAX /\ -n <= ULONG_MAX
    <3> HIDE DEF r
    <3> QED BY <1>1, <1>3
  <2> HIDE DEF r, u
  <2>2. n >= 0 \/ (n < 0 /\ n > -u)
    BY <1>1, <2>1
  <2>3. CASE n >= 0
    <3>1. n \in 0..ULONG_MAX
      BY <1>1, <2>1, <2>3
    <3> QED BY <1>4, <2>1, <3>1
  <2>4. CASE n < 0 /\ n > -u
    BY <1>5, <1>6, <2>1, <2>4
  <2> QED BY <2>2, <2>3, <2>4
<1> QED
  <2> HIDE DEF r, u
  <2>1. strtoul(n) \in 0..ULONG_MAX
    BY <1>1, <1>2, <1>3
  <2>2. n \in 0..ULONG_MAX => strtoul(n) = n
    BY <1>1, <1>3, <1>4
  <2>3. n > ULONG_MAX => strtoul(n) = ULONG_MAX
    BY <1>3
  <2> QED BY <1>7, <2>1, <2>2, <2>3

(* A number strtol returns is a long, and the one written if that fits.    *)
LEMMA Strtol ==
    ASSUME NEW n \in Int
    PROVE  strtol(n) \in Int /\ (n \in 0..LONG_MAX => strtol(n) = n)
BY Widths DEF strtol

-----------------------------------------------------------------------------
(* strstr and the lists that are searched with it.                         *)

(* strstr, position by position *)
LEMMA StrstrAt ==
    ASSUME NEW b \in Text, NEW a \in Text
    PROVE  strstr(b, a) <=> \E k \in 0..Len(b) - Len(a) : \A i \in 1..Len(a) : b[k + i] = a[i]
<1>1. ASSUME NEW k \in 0..Len(b) - Len(a)
      PROVE  SubSeq(b, k + 1, k + Len(a)) = a <=> \A i \in 1..Len(a) : b[k + i] = a[i]
  <2>1. Len(a) \in Nat /\ Len(b) \in Nat /\ k + Len(a) <= Len(b)
    BY DEF Text
  <2>2. SubSeq(b, k + 1, k + Len(a)) = [i \in 1..Len(a) |-> b[k + i]]
    BY <2>1 DEF Text
  <2>3. a = [i \in 1..Len(a) |-> a[i]]
    BY DEF Text
  <2> QED BY <2>2, <2>3
<1> QED BY <1>1 DEF strstr

(* What is in a part is in the whole. *)
LEMMA StrstrTransitive ==
    ASSUME NEW c \in Text, NEW b \in Text, NEW a \in Text, strstr(c, b), strstr(b, a)
    PROVE  strstr(c, a)
<1>1. Len(a) \in Nat /\ Len(b) \in Nat /\ Len(c) \in Nat
  BY DEF Text
<1>2. PICK k \in 0..Len(c) - Len(b) : \A i \in 1..Len(b) : c[k + i] = b[i]
  BY StrstrAt
<1>3. PICK l \in 0..Len(b) - Len(a) : \A i \in 1..Len(a) : b[l + i] = a[i]
  BY StrstrAt
<1>4. k + l \in 0..Len(c) - Len(a)
  BY <1>1
<1>5. ASSUME NEW i \in 1..Len(a) PROVE c[(k + l) + i] = a[i]
  <2>1. l + i \in 1..Len(b) /\ (k + l) + i = k + (l + i)
    BY <1>1
  <2>2. c[k + (l + i)] = b[l + i]
    BY <1>2, <2>1
  <2>3. b[l + i] = a[i]
    BY <1>3
  <2> QED BY <2>1, <2>2, <2>3
<1> QED BY <1>4, <1>5, StrstrAt

(* Two lists find what the one or the other finds. *)
LEMMA FoundConcat ==
    ASSUME NEW s \in Seq(Text), NEW t \in Seq(Text), NEW name
    PROVE  Found(s \o t, name) <=> Found(s, name) \/ Found(t, name)
<1>1. /\ Len(s) \in Nat /\ Len(t) \in Nat
      /\ DOMAIN s = 1..Len(s) /\ DOMAIN t = 1..Len(t) /\ DOMAIN (s \o t) = 1..Len(s) + Len(t)
  OBVIOUS
<1>2. \A k \in 1..Len(s) : (s \o t)[k] = s[k]
  OBVIOUS
<1>3. \A k \in 1..Len(t) : (s \o t)[Len(s) + k] = t[k] /\ Len(s) + k \in DOMAIN (s \o t)
  BY <1>1
<1>4. ASSUME NEW k \in DOMAIN (s \o t)
      PROVE  \/ k \in 1..Len(s)
             \/ \E l \in 1..Len(t) : k = Len(s) + l
  <2>1. k \in 1..Len(s) \/ (k - Len(s) \in 1..Len(t) /\ k = Len(s) + (k - Len(s)))
    BY <1>1
  <2> QED BY <2>1
<1>5. DOMAIN s \subseteq DOMAIN (s \o t)
  BY <1>1
<1>6. Found(s, name) => Found(s \o t, name)
  BY <1>1, <1>2, <1>5 DEF Found
<1>7. Found(t, name) => Found(s \o t, name)
  BY <1>1, <1>3 DEF Found
<1>8. Found(s \o t, name) => Found(s, name) \/ Found(t, name)
  BY <1>1, <1>2, <1>3, <1>4 DEF Found
<1> QED BY <1>6, <1>7, <1>8

(* A list with one more finds that one as well. *)
LEMMA FoundAppend ==
    ASSUME NEW s \in Seq(Text), NEW m \in Text, NEW name
    PROVE  Found(Append(s, m), name) <=> Found(s, name) \/ strstr(name, m)
<1>1. <<m>> \in Seq(Text) /\ Append(s, m) = s \o <<m>>
  OBVIOUS
<1>2. Found(<<m>>, name) <=> strstr(name, m)
  BY DEF Found
<1>3. Found(s \o <<m>>, name) <=> Found(s, name) \/ Found(<<m>>, name)
  BY <1>1, FoundConcat
<1> QED BY <1>1, <1>2, <1>3

(* A module that is left out, because one on the list is a part of it,     *)
(* would have banned nothing new.                                          *)
LEMMA ModuleAdded ==
    ASSUME NEW list \in Seq(Text), NEW m \in Text
    PROVE  /\ add_cl_banned_module(list, m) \in Seq(Text)
           /\ \A name \in Text :
                Found(add_cl_banned_module(list, m), name) <=> Found(list, name) \/ strstr(name, m)
<1>1. CASE Found(list, m)
  <2>1. add_cl_banned_module(list, m) = list
    BY <1>1 DEF add_cl_banned_module
  <2>2. PICK k \in DOMAIN list : strstr(m, list[k])
    BY <1>1 DEF Found
  <2>3. list[k] \in Text
    OBVIOUS
  <2>4. \A name \in Text : strstr(name, m) => Found(list, name)
    BY <2>2, <2>3, StrstrTransitive DEF Found
  <2> QED BY <2>1, <2>4
<1>2. CASE ~Found(list, m)
  BY <1>2, FoundAppend DEF add_cl_banned_module
<1> QED BY <1>1, <1>2

(* A number is on the list once it was added. *)
LEMMA IrqAdded ==
    ASSUME NEW list \in Seq(Int), NEW i \in Int
    PROVE  /\ add_cl_banned_irq(list, i) \in Seq(Int)
           /\ ToSet(add_cl_banned_irq(list, i)) = ToSet(list) \cup {i}
<1>1. CASE i \in ToSet(list)
  BY <1>1 DEF add_cl_banned_irq
<1>2. CASE i \notin ToSet(list)
  <2>1. add_cl_banned_irq(list, i) = Append(list, i)
    BY <1>2 DEF add_cl_banned_irq
  <2>2. /\ Len(list) \in Nat /\ DOMAIN list = 1..Len(list)
        /\ DOMAIN Append(list, i) = 1..Len(list) + 1
        /\ \A k \in 1..Len(list) : Append(list, i)[k] = list[k]
        /\ Append(list, i)[Len(list) + 1] = i
    OBVIOUS
  <2>3. 1..Len(list) + 1 = 1..Len(list) \cup {Len(list) + 1}
    BY <2>2
  <2>4. ToSet(Append(list, i)) = ToSet(list) \cup {i}
    BY <2>2, <2>3 DEF ToSet
  <2> QED BY <2>1, <2>4
<1> QED BY <1>1, <1>2

-----------------------------------------------------------------------------
(* What the options read so far have made of the variables.                *)
Policies == {Exact, Subset, Ignore}

Variables ==
    [one_shot_mode : BOOLEAN, debug_mode : BOOLEAN, foreground_mode : BOOLEAN, journal_logging : BOOLEAN,
     global_hint_policy : Policies, power_thresh : 0..ULONG_MAX, deepest_cache : 1..ULONG_MAX - 1,
     sleep_interval : 1..INT_MAX, pidfile : BOOLEAN, polscript : BOOLEAN,
     cl_banned_irqs : Seq(Int), cl_banned_modules : Seq(Text), banned_irq_names : Seq(Text), interior : BOOLEAN]

(* The last of the first k options that has the letter x *)
Latest(line, x, k, j) ==
    /\ j \in 1..k /\ line[j].opt = x
    /\ \A i \in 1..k : line[i].opt = x => i <= j

HintHonoured(o, a)  == IsPrefix(a.text, o.global_hint_policy)
ThreshHonoured(o, a) == /\ a.num \in 1..ULONG_MAX - 1 => o.power_thresh = a.num
                        /\ a.text = Off => o.power_thresh = ULONG_MAX
CacheHonoured(o, a) == a.num \in Nat => o.deepest_cache = a.num
IntervalHonoured(o, a) == a.num \in 1..INT_MAX => o.sleep_interval = a.num

Honoured(o, line, k) ==
    /\ o.foreground_mode <=> \E j \in 1..k : line[j].opt \in {"d", "f", "j"}
    /\ o.pidfile <=> \E j \in 1..k : line[j].opt = "s"
    /\ \A x : (\E j \in 1..k : line[j].opt = x) => \E j : Latest(line, x, k, j)
    /\ \A j : Latest(line, "h", k, j) => HintHonoured(o, line[j])
    /\ \A j : Latest(line, "p", k, j) => ThreshHonoured(o, line[j])
    /\ (\A j \in 1..k : line[j].opt # "p") => o.power_thresh = ULONG_MAX
    /\ \A j : Latest(line, "c", k, j) => CacheHonoured(o, line[j])
    /\ \A j : Latest(line, "t", k, j) => IntervalHonoured(o, line[j])
    /\ \A name \in Names :
          /\ Found(o.cl_banned_modules, name)
                <=> \E j \in 1..k : line[j].opt = "m" /\ strstr(name, line[j].text)
          /\ Found(o.banned_irq_names, name)
                <=> \E j \in 1..k : line[j].opt = "n" /\ Found(line[j].names, name)
    /\ \A i : i \in ToSet(o.cl_banned_irqs) <=> \E j \in 1..k : line[j].opt = "i" /\ i = ToInt(line[j].num)

(* One more option adds to what was set, or takes its place. *)
Sets(o, n, a) ==
    /\ n.foreground_mode <=> o.foreground_mode \/ a.opt \in {"d", "f", "j"}
    /\ n.pidfile <=> o.pidfile \/ a.opt = "s"
    /\ IF a.opt = "h" THEN HintHonoured(n, a) ELSE n.global_hint_policy = o.global_hint_policy
    /\ IF a.opt = "p" THEN ThreshHonoured(n, a) ELSE n.power_thresh = o.power_thresh
    /\ IF a.opt = "c" THEN CacheHonoured(n, a) ELSE n.deepest_cache = o.deepest_cache
    /\ IF a.opt = "t" THEN IntervalHonoured(n, a) ELSE n.sleep_interval = o.sleep_interval
    /\ \A name \in Names :
          /\ Found(n.cl_banned_modules, name)
                <=> Found(o.cl_banned_modules, name) \/ (a.opt = "m" /\ strstr(name, a.text))
          /\ Found(n.banned_irq_names, name)
                <=> Found(o.banned_irq_names, name) \/ (a.opt = "n" /\ Found(a.names, name))
    /\ \A i : i \in ToSet(n.cl_banned_irqs)
                <=> i \in ToSet(o.cl_banned_irqs) \/ (a.opt = "i" /\ i = ToInt(a.num))

(* The options that only raise a flag *)
LEMMA FlagSets ==
    ASSUME NEW o \in Variables, NEW a \in Option, a.opt \in {"d", "f", "l", "o", "s", "j"}
    PROVE  SetOption(o, a) \in Variables /\ Sets(o, SetOption(o, a), a)
<1>1. CASE a.opt = "d"
  BY <1>1 DEF SetOption, Variables, Sets
<1>2. CASE a.opt = "f"
  BY <1>2 DEF SetOption, Variables, Sets
<1>3. CASE a.opt = "l"
  BY <1>3 DEF SetOption, Variables, Sets
<1>4. CASE a.opt = "o"
  BY <1>4 DEF SetOption, Variables, Sets
<1>5. CASE a.opt = "s"
  BY <1>5 DEF SetOption, Variables, Sets
<1>6. CASE a.opt = "j"
  BY <1>6 DEF SetOption, Variables, Sets
<1> QED BY <1>1, <1>2, <1>3, <1>4, <1>5, <1>6

(* -h: a policy that is not refused is one the word is the beginning of. *)
LEMMA HintSets ==
    ASSUME NEW o \in Variables, NEW a \in Option, a.opt = "h", ~Invalid(a)
    PROVE  SetOption(o, a) \in Variables /\ Sets(o, SetOption(o, a), a)
<1> DEFINE h == HintPolicy(a.text)
<1>1. h # None
  BY DEF Invalid
<1>2. h \in Policies /\ IsPrefix(a.text, h)
  BY <1>1 DEF HintPolicy, Abbreviates, Policies
<1>3. SetOption(o, a) = [o EXCEPT !.global_hint_policy = h]
  BY DEF SetOption
<1> HIDE DEF h
<1> QED BY <1>2, <1>3 DEF Variables, Sets, HintHonoured

(* -p: a number strtoull accepts, or the largest for "off". *)
LEMMA ThreshSets ==
    ASSUME NEW o \in Variables, NEW a \in Option, a.opt = "p", ~Invalid(a),
           IsPrefix(a.text, Off) => a.num = 0
    PROVE  SetOption(o, a) \in Variables /\ Sets(o, SetOption(o, a), a)
<1> DEFINE v == IF Abbreviates(a.text, Off) THEN ULONG_MAX ELSE strtoul(a.num)
<1>1. a.num \in Int /\ ULONG_MAX \in Nat
  BY Widths DEF Option
<1>2. v \in 0..ULONG_MAX
  BY <1>1, Strtoul
<1>3. a.num \in 1..ULONG_MAX - 1 => v = a.num
  BY <1>1, Strtoul DEF Abbreviates
<1>4. a.text = Off => v = ULONG_MAX
  BY DEF Abbreviates, IsPrefix, Off
<1>5. SetOption(o, a) = [o EXCEPT !.power_thresh = v]
  BY DEF SetOption
<1> HIDE DEF v
<1> QED BY <1>2, <1>3, <1>4, <1>5 DEF Variables, Sets, ThreshHonoured

(* -c: neither 0 nor the largest number. *)
LEMMA CacheSets ==
    ASSUME NEW o \in Variables, NEW a \in Option, a.opt = "c", ~Invalid(a)
    PROVE  SetOption(o, a) \in Variables /\ Sets(o, SetOption(o, a), a)
<1> DEFINE v == strtoul(a.num)
<1>1. a.num \in Int /\ ULONG_MAX \in Nat
  BY Widths DEF Option
<1>2. v \notin {0, ULONG_MAX}
  BY DEF Invalid
<1>3. v \in 1..ULONG_MAX - 1
  BY <1>1, <1>2, Strtoul
<1>4. a.num \in Nat => v = a.num
  BY <1>1, <1>2, Strtoul
<1>5. SetOption(o, a) = [o EXCEPT !.deepest_cache = v]
  BY DEF SetOption
<1> HIDE DEF v
<1> QED BY <1>3, <1>4, <1>5 DEF Variables, Sets, CacheHonoured

(* -t: what is left of the number after the cast is an interval. *)
LEMMA IntervalSets ==
    ASSUME NEW o \in Variables, NEW a \in Option, a.opt = "t", ~Invalid(a)
    PROVE  SetOption(o, a) \in Variables /\ Sets(o, SetOption(o, a), a)
<1> DEFINE v == ToInt(strtol(a.num))
<1>1. a.num \in Int /\ INT_MAX \in Nat /\ LONG_MAX \in Nat /\ LONG_MAX >= INT_MAX
  BY Widths DEF Option
<1>2. ~(v < 1)
  BY DEF Invalid, BadInterval
<1>3. strtol(a.num) \in Int
  BY <1>1, Strtol
<1>4. v \in Int /\ v <= INT_MAX
  BY <1>3, CastToInt
<1>5. v \in 1..INT_MAX
  <2> HIDE DEF v
  <2> QED BY <1>1, <1>2, <1>4
<1>6. a.num \in 1..INT_MAX => v = a.num
  <2> SUFFICES ASSUME a.num \in 1..INT_MAX PROVE v = a.num
    OBVIOUS
  <2>1. a.num \in 0..LONG_MAX /\ a.num \in 0..INT_MAX
    BY <1>1
  <2>2. strtol(a.num) = a.num
    BY <1>1, <2>1, Strtol
  <2> QED BY <1>1, <2>1, <2>2, CastToInt
<1>7. SetOption(o, a) = [o EXCEPT !.sleep_interval = v]
  BY DEF SetOption
<1> HIDE DEF v
<1> QED BY <1>5, <1>6, <1>7 DEF Variables, Sets, IntervalHonoured

(* -i: the number the reader wrote, as far as an int can hold it. *)
LEMMA IrqSets ==
    ASSUME NEW o \in Variables, NEW a \in Option, a.opt = "i", ~Invalid(a)
    PROVE  SetOption(o, a) \in Variables /\ Sets(o, SetOption(o, a), a)
<1> DEFINE i == ToInt(strtoul(a.num))
           l == add_cl_banned_irq(o.cl_banned_irqs, i)
<1>1. a.num \in Int /\ strtoul(a.num) # ULONG_MAX
  BY DEF Option, Invalid
<1>2. i = ToInt(a.num) /\ i \in Int
  BY <1>1, Strtoul, CastToInt
<1>3. o.cl_banned_irqs \in Seq(Int)
  BY DEF Variables
<1>4. SetOption(o, a) = [o EXCEPT !.cl_banned_irqs = l]
  BY DEF SetOption
<1> HIDE DEF i
<1>5. l \in Seq(Int) /\ ToSet(l) = ToSet(o.cl_banned_irqs) \cup {i}
  BY <1>2, <1>3, IrqAdded
<1> HIDE DEF l
<1> QED BY <1>2, <1>4, <1>5 DEF Variables, Sets

(* -m: one more module *)
LEMMA ModuleSets ==
    ASSUME NEW o \in Variables, NEW a \in Option, a.opt = "m", ~Invalid(a)
    PROVE  SetOption(o, a) \in Variables /\ Sets(o, SetOption(o, a), a)
<1> DEFINE l == add_cl_banned_module(o.cl_banned_modules, a.text)
<1>1. a.text \in Text /\ o.cl_banned_modules \in Seq(Text)
  BY DEF Option, Variables
<1>2. SetOption(o, a) = [o EXCEPT !.cl_banned_modules = l]
  BY DEF SetOption
<1>3. /\ l \in Seq(Text)
      /\ \A name \in Names : Found(l, name) <=> Found(o.cl_banned_modules, name) \/ strstr(name, a.text)
  BY <1>1, ModuleAdded, CommandLineAssumption
<1> HIDE DEF l
<1> DEFINE n == SetOption(o, a)
<1>4. n = [o EXCEPT !.cl_banned_modules = l]
  BY <1>2
<1> HIDE DEF n
<1>5. n \in Variables
  BY <1>3, <1>4 DEF Variables
<1>6. n.cl_banned_modules = l
  BY <1>4 DEF Variables
<1>7. /\ n.foreground_mode = o.foreground_mode /\ n.pidfile = o.pidfile
      /\ n.global_hint_policy = o.global_hint_policy /\ n.power_thresh = o.power_thresh
      /\ n.deepest_cache = o.deepest_cache /\ n.sleep_interval = o.sleep_interval
      /\ n.banned_irq_names = o.banned_irq_names /\ n.cl_banned_irqs = o.cl_banned_irqs
  BY <1>4 DEF Variables
<1>8. Sets(o, n, a)
  BY <1>3, <1>6, <1>7, Zenon DEF Sets
<1> QED BY <1>5, <1>8 DEF n

(* -n: its names follow those there are. *)
LEMMA NamesSets ==
    ASSUME NEW o \in Variables, NEW a \in Option, a.opt = "n", ~Invalid(a)
    PROVE  SetOption(o, a) \in Variables /\ Sets(o, SetOption(o, a), a)
<1> DEFINE l == o.banned_irq_names \o a.names
           x == o.interior \/ Len(a.names) > 1 \/ (a.comma /\ a.names # <<>>)
<1>1. a.names \in Seq(Text) /\ a.comma \in BOOLEAN /\ o.banned_irq_names \in Seq(Text)
  BY DEF Option, Variables
<1>2. SetOption(o, a) = [o EXCEPT !.banned_irq_names = l, !.interior = x]
  BY DEF SetOption, add_banned_irqs_by_names, Variables
<1>3. l \in Seq(Text) /\ x \in BOOLEAN
  BY <1>1
<1>4. \A name : Found(l, name) <=> Found(o.banned_irq_names, name) \/ Found(a.names, name)
  BY <1>1, FoundConcat
<1> HIDE DEF l, x
<1> QED BY <1>2, <1>3, <1>4 DEF Variables, Sets

(* Every option the program goes on after *)
LEMMA OptionSets ==
    ASSUME NEW o \in Variables, NEW a \in Option, ~Invalid(a), IsPrefix(a.text, Off) => a.num = 0
    PROVE  SetOption(o, a) \in Variables /\ Sets(o, SetOption(o, a), a)
<1>1. a.opt \in {"c", "d", "f", "h", "i", "l", "m", "p", "o", "s", "j", "t", "n"}
  BY DEF Option, Invalid
<1> QED BY <1>1, FlagSets, HintSets, ThreshSets, CacheSets, IntervalSets, IrqSets, ModuleSets, NamesSets

(* The option that was read last is the latest of its letter and leaves    *)
(* the latest of the others.                                               *)
LEMMA LatestStep ==
    ASSUME NEW line, NEW k \in Nat, NEW x, NEW j
    PROVE  Latest(line, x, k + 1, j) <=> IF line[k + 1].opt = x THEN j = k + 1 ELSE Latest(line, x, k, j)
<1>1. 1..k + 1 = 1..k \cup {k + 1} /\ k + 1 \notin 1..k
  OBVIOUS
<1>2. CASE line[k + 1].opt = x
  <2>1. Latest(line, x, k + 1, j) => j = k + 1
    BY <1>2 DEF Latest
  <2>2. j = k + 1 => Latest(line, x, k + 1, j)
    BY <1>2 DEF Latest
  <2> QED BY <1>2, <2>1, <2>2
<1>3. CASE line[k + 1].opt # x
  BY <1>1, <1>3 DEF Latest
<1> QED BY <1>2, <1>3

(* The variables honour one option more. *)
LEMMA HonouredStep ==
    ASSUME NEW o \in Variables, NEW n \in Variables, NEW line, NEW k \in Nat,
           Honoured(o, line, k), Sets(o, n, line[k + 1])
    PROVE  Honoured(n, line, k + 1)
<1> DEFINE a == line[k + 1]
<1>1. 1..k + 1 = 1..k \cup {k + 1}
  OBVIOUS
<1>2. \A x, j : Latest(line, x, k + 1, j) <=> IF a.opt = x THEN j = k + 1 ELSE Latest(line, x, k, j)
  BY LatestStep
<1>3. n.foreground_mode <=> \E j \in 1..k + 1 : line[j].opt \in {"d", "f", "j"}
  BY <1>1 DEF Honoured, Sets
<1>4. n.pidfile <=> \E j \in 1..k + 1 : line[j].opt = "s"
  BY <1>1 DEF Honoured, Sets
<1>5. ASSUME NEW x, \E j \in 1..k + 1 : line[j].opt = x PROVE \E j : Latest(line, x, k + 1, j)
  BY <1>1, <1>2, <1>5 DEF Honoured
<1>6. ASSUME NEW j, Latest(line, "h", k + 1, j) PROVE HintHonoured(n, line[j])
  BY <1>2, <1>6 DEF Honoured, Sets, HintHonoured
<1>7. ASSUME NEW j, Latest(line, "p", k + 1, j) PROVE ThreshHonoured(n, line[j])
  BY <1>2, <1>7 DEF Honoured, Sets, ThreshHonoured
<1>8. (\A j \in 1..k + 1 : line[j].opt # "p") => n.power_thresh = ULONG_MAX
  BY <1>1 DEF Honoured, Sets
<1>9. ASSUME NEW j, Latest(line, "c", k + 1, j) PROVE CacheHonoured(n, line[j])
  BY <1>2, <1>9 DEF Honoured, Sets, CacheHonoured
<1>10. ASSUME NEW j, Latest(line, "t", k + 1, j) PROVE IntervalHonoured(n, line[j])
  BY <1>2, <1>10 DEF Honoured, Sets, IntervalHonoured
<1>11. ASSUME NEW name \in Names
       PROVE  /\ Found(n.cl_banned_modules, name)
                    <=> \E j \in 1..k + 1 : line[j].opt = "m" /\ strstr(name, line[j].text)
              /\ Found(n.banned_irq_names, name)
                    <=> \E j \in 1..k + 1 : line[j].opt = "n" /\ Found(line[j].names, name)
  BY <1>1 DEF Honoured, Sets
<1>12. ASSUME NEW i
       PROVE  i \in ToSet(n.cl_banned_irqs) <=> \E j \in 1..k + 1 : line[j].opt = "i" /\ i = ToInt(line[j].num)
  BY <1>1 DEF Honoured, Sets
<1> QED BY <1>3, <1>4, <1>5, <1>6, <1>7, <1>8, <1>9, <1>10, <1>11, <1>12 DEF Honoured

(* Before the first option the variables have their defaults. *)
LEMMA HonouredAtFirst ==
    ASSUME NEW line
    PROVE  Defaults \in Variables /\ Honoured(Defaults, line, 0)
<1>1. Defaults \in Variables
  <2>1. ULONG_MAX \in Nat /\ ULONG_MAX >= 3
    BY Widths DEF ULONG_MAX
  <2> QED BY <2>1, LifecycleAssumption DEF Defaults, Variables, Policies
<1>2. 1..0 = {}
  OBVIOUS
<1>3. Found(<<>>, "x") = FALSE /\ ToSet(<<>>) = {} /\ \A name : ~Found(<<>>, name)
  BY DEF Found, ToSet
<1> QED BY <1>1, <1>2, <1>3 DEF Honoured, Latest, Defaults

-----------------------------------------------------------------------------
(* A process that parses its command line has honoured the options that    *)
(* are not left to parse; the variables of one that was not started have   *)
(* their defaults.                                                         *)
Parsing(p) ==
    /\ cmdline[p] \in CommandLines[p]
    /\ \E k \in 0..Len(cmdline[p]) : /\ argv[p] = SubSeq(cmdline[p], k + 1, Len(cmdline[p]))
                                     /\ Honoured(opts[p], cmdline[p], k)

CommandLineInv ==
    /\ pc \in [Procs -> {"off", "parse", "daemon", "open", "write", "loop", "free_cl_opts", "unlink", "gone"}]
    /\ keep_going \in [Procs -> BOOLEAN]
    /\ ended \in [Procs -> {None, "usage", "exit", "killed", "aborted"}]
    /\ opts \in [Procs -> Variables]
    /\ argv = [p \in Procs |-> argv[p]] /\ cmdline = [p \in Procs |-> cmdline[p]]
    /\ \A p \in Procs : /\ pc[p] = "off" => opts[p] = Defaults
                        /\ pc[p] = "parse" => Parsing(p)

(* It holds at the start. *)
LEMMA CommandLineInit == Init => CommandLineInv
<1>1. Defaults \in Variables
  BY HonouredAtFirst
<1> HIDE DEF Defaults
<1> QED BY <1>1 DEF Init, CommandLineInv

(* What a step of p leaves p with, and what it has to be. *)
Leaves(p, where, how, on, o, args, line) ==
    /\ pc' = [pc EXCEPT ![p] = where] /\ ended' = [ended EXCEPT ![p] = how]
    /\ keep_going' = [keep_going EXCEPT ![p] = on] /\ opts' = [opts EXCEPT ![p] = o]
    /\ argv' = [argv EXCEPT ![p] = args] /\ cmdline' = [cmdline EXCEPT ![p] = line]

Fits(p, where, how, on, o, args, line) ==
    /\ where \in {"off", "parse", "daemon", "open", "write", "loop", "free_cl_opts", "unlink", "gone"}
    /\ how \in {None, "usage", "exit", "killed", "aborted"}
    /\ on \in BOOLEAN /\ o \in Variables
    /\ where = "off" => o = Defaults
    /\ where = "parse" =>
          /\ line \in CommandLines[p]
          /\ \E k \in 0..Len(line) : args = SubSeq(line, k + 1, Len(line)) /\ Honoured(o, line, k)

(* A step of p that leaves the other processes alone. *)
LEMMA CommandLineFrame ==
    ASSUME CommandLineInv, NEW p \in Procs,
           NEW where, NEW how, NEW on, NEW o, NEW args, NEW line,
           Leaves(p, where, how, on, o, args, line), Fits(p, where, how, on, o, args, line)
    PROVE  CommandLineInv'
<1>1. /\ pc' \in [Procs -> {"off", "parse", "daemon", "open", "write", "loop", "free_cl_opts", "unlink", "gone"}]
      /\ keep_going' \in [Procs -> BOOLEAN]
      /\ ended' \in [Procs -> {None, "usage", "exit", "killed", "aborted"}]
      /\ opts' \in [Procs -> Variables]
  BY DEF CommandLineInv, Leaves, Fits
<1>2. argv' = [q \in Procs |-> argv'[q]] /\ cmdline' = [q \in Procs |-> cmdline'[q]]
  BY DEF CommandLineInv, Leaves, Fits
<1>3. \A q \in Procs : q # p => /\ pc'[q] = pc[q] /\ opts'[q] = opts[q]
                                /\ argv'[q] = argv[q] /\ cmdline'[q] = cmdline[q]
  BY DEF CommandLineInv, Leaves, Fits
<1>4. pc'[p] = where /\ opts'[p] = o /\ argv'[p] = args /\ cmdline'[p] = line
  BY DEF CommandLineInv, Leaves, Fits
<1>5. ASSUME NEW q \in Procs
      PROVE  (pc'[q] = "off" => opts'[q] = Defaults) /\ (pc'[q] = "parse" => Parsing(q)')
  <2>1. CASE q = p
    BY <1>4, <2>1 DEF Parsing, Fits
  <2>2. CASE q # p
    BY <1>3, <2>2 DEF CommandLineInv, Parsing
  <2> QED BY <2>1, <2>2
<1> QED BY <1>1, <1>2, <1>5 DEF CommandLineInv

(* A variable that stays as it is keeps its value at p. *)
LEMMA Keeps ==
    ASSUME CommandLineInv, NEW p \in Procs
    PROVE  /\ pc = [pc EXCEPT ![p] = pc[p]] /\ keep_going = [keep_going EXCEPT ![p] = keep_going[p]]
           /\ ended = [ended EXCEPT ![p] = ended[p]] /\ opts = [opts EXCEPT ![p] = opts[p]]
           /\ argv = [argv EXCEPT ![p] = argv[p]] /\ cmdline = [cmdline EXCEPT ![p] = cmdline[p]]
           /\ pc[p] \in {"off", "parse", "daemon", "open", "write", "loop", "free_cl_opts", "unlink", "gone"}
           /\ ended[p] \in {None, "usage", "exit", "killed", "aborted"}
           /\ keep_going[p] \in BOOLEAN /\ opts[p] \in Variables
BY DEF CommandLineInv

(* A process that ends leaves nothing behind. *)
LEMMA CommandLineEnds ==
    ASSUME CommandLineInv, NEW p \in Procs, NEW how \in {"usage", "exit", "killed", "aborted"}, Ends(p, how)
    PROVE  CommandLineInv'
<1>1. Defaults \in Variables
  BY HonouredAtFirst
<1>2. Leaves(p, "gone", how, TRUE, Defaults, <<>>, <<>>)
  BY DEF Leaves, Ends, Goes
<1>3. Fits(p, "gone", how, TRUE, Defaults, <<>>, <<>>)
  BY <1>1 DEF Fits
<1> QED BY <1>2, <1>3, CommandLineFrame

(* After the command line only the place in the code, the flag of the      *)
(* handler and the variables move.                                         *)
Moves(p, where, on, o) ==
    /\ where \in {"daemon", "open", "write", "loop", "free_cl_opts", "unlink"}
    /\ on \in BOOLEAN /\ o \in Variables
    /\ pc' = [pc EXCEPT ![p] = where] /\ keep_going' = [keep_going EXCEPT ![p] = on]
    /\ opts' = [opts EXCEPT ![p] = o] /\ ended' = ended /\ argv' = argv
    /\ cmdline' = [cmdline EXCEPT ![p] = <<>>] \/ cmdline' = cmdline

LEMMA CommandLineMoves ==
    ASSUME CommandLineInv, NEW p \in Procs, NEW where, NEW on, NEW o, Moves(p, where, on, o)
    PROVE  CommandLineInv'
<1>1. PICK line : cmdline' = [cmdline EXCEPT ![p] = line]
  BY Keeps DEF Moves
<1>2. Leaves(p, where, ended[p], on, o, argv[p], line)
  BY <1>1, Keeps DEF Leaves, Moves
<1>3. Fits(p, where, ended[p], on, o, argv[p], line)
  BY Keeps DEF Fits, Moves
<1> QED BY <1>2, <1>3, CommandLineFrame


(* A process is started. *)
LEMMA CommandLineStart ==
    ASSUME CommandLineInv, NEW p \in Procs, Start(p)
    PROVE  CommandLineInv'
<1>1. PICK line \in CommandLines[p] : argv' = [argv EXCEPT ![p] = line] /\ cmdline' = [cmdline EXCEPT ![p] = line]
  BY DEF Start
<1>2. line \in Seq(Option)
  BY CommandLineAssumption
<1>3. opts[p] = Defaults
  BY DEF CommandLineInv, Start
<1>4. Leaves(p, "parse", ended[p], keep_going[p], Defaults, line, line)
  BY <1>1, <1>3, Keeps DEF Leaves, Start, Goes
<1>5. 0 \in 0..Len(line) /\ line = SubSeq(line, 0 + 1, Len(line)) /\ Honoured(Defaults, line, 0)
  BY <1>2, HonouredAtFirst
<1>6. Fits(p, "parse", ended[p], keep_going[p], Defaults, line, line)
  BY <1>1, <1>5, Keeps, HonouredAtFirst DEF Fits
<1> QED BY <1>4, <1>6, CommandLineFrame

(* An option is parsed. *)
LEMMA CommandLineParse ==
    ASSUME CommandLineInv, NEW p \in Procs, parse_command_line(p)
    PROVE  CommandLineInv'
<1> DEFINE line == cmdline[p]
           a == Head(argv[p])
           o == SetOption(opts[p], a)
<1>1. pc[p] = "parse" /\ argv[p] # <<>> /\ line \in CommandLines[p] /\ line \in Seq(Option)
  BY CommandLineAssumption DEF CommandLineInv, Parsing, parse_command_line
<1>2. PICK k \in 0..Len(line) : argv[p] = SubSeq(line, k + 1, Len(line)) /\ Honoured(opts[p], line, k)
  BY <1>1 DEF CommandLineInv, Parsing
<1>3. CASE Ends(p, "usage")
  BY <1>3, CommandLineEnds
<1>4. CASE /\ ~Invalid(a)
           /\ argv' = [argv EXCEPT ![p] = Tail(@)]
           /\ opts' = [opts EXCEPT ![p] = SetOption(@, a)]
           /\ UNCHANGED <<pc, keep_going, ended, cmdline>>
  <2>1. k < Len(line) /\ Len(line) \in Nat
    BY <1>1, <1>2
  <2>2. a = line[k + 1] /\ Tail(argv[p]) = SubSeq(line, (k + 1) + 1, Len(line)) /\ k + 1 \in 1..Len(line)
    BY <1>1, <1>2, <2>1
  <2>3. a \in Option /\ (IsPrefix(a.text, Off) => a.num = 0)
    BY <1>1, <2>2, CommandLineAssumption
  <2>4. opts[p] \in Variables
    BY Keeps
  <2>5. o \in Variables /\ Sets(opts[p], o, a)
    BY <1>4, <2>3, <2>4, OptionSets
  <2>6. Honoured(o, line, k + 1)
    <3> HIDE DEF o, a
    <3> QED BY <1>2, <2>2, <2>4, <2>5, HonouredStep
  <2>7. argv' = [argv EXCEPT ![p] = Tail(argv[p])] /\ opts' = [opts EXCEPT ![p] = o]
    BY <1>4
  <2> HIDE DEF o
  <2>8. Leaves(p, "parse", ended[p], keep_going[p], o, Tail(argv[p]), line)
    BY <1>1, <1>4, <2>7, Keeps DEF Leaves
  <2>9. \E l \in 0..Len(line) : Tail(argv[p]) = SubSeq(line, l + 1, Len(line)) /\ Honoured(o, line, l)
    <3>1. k + 1 \in 0..Len(line)
      BY <2>2
    <3> HIDE DEF line
    <3> QED BY <2>2, <2>6, <3>1
  <2>10. ended[p] \in {None, "usage", "exit", "killed", "aborted"} /\ keep_going[p] \in BOOLEAN
    BY Keeps
  <2> HIDE DEF line
  <2>11. Fits(p, "parse", ended[p], keep_going[p], o, Tail(argv[p]), line)
    BY <1>1, <2>5, <2>9, <2>10 DEF Fits
  <2> QED BY <2>8, <2>11, CommandLineFrame
<1> QED BY <1>3, <1>4 DEF parse_command_line

(* The environment is looked at. *)
LEMMA CommandLineBuild ==
    ASSUME CommandLineInv, NEW p \in Procs, build_object_tree(p)
    PROVE  CommandLineInv'
<1>1. CASE Ends(p, "exit")
  BY <1>1, CommandLineEnds
<1>2. ASSUME NEW env \in Environments,
             opts' = [opts EXCEPT ![p].one_shot_mode = @ \/ env.oneshot,
                                  ![p].debug_mode = @ \/ env.debug,
                                  ![p].foreground_mode = @ \/ env.debug],
             Goes(p, IF opts'[p].foreground_mode THEN "loop" ELSE "daemon"),
             cmdline' = [cmdline EXCEPT ![p] = <<>>], UNCHANGED <<argv, keep_going, ended>>
      PROVE  CommandLineInv'
  <2> DEFINE o == [opts[p] EXCEPT !.one_shot_mode = @ \/ env.oneshot, !.debug_mode = @ \/ env.debug,
                                  !.foreground_mode = @ \/ env.debug]
             where == IF opts'[p].foreground_mode THEN "loop" ELSE "daemon"
  <2>1. env.oneshot \in BOOLEAN /\ env.debug \in BOOLEAN /\ opts[p] \in Variables
    BY CommandLineAssumption, Keeps
  <2>2. o \in Variables
    BY <2>1 DEF Variables
  <2>3. opts' = [opts EXCEPT ![p] = o]
    BY <1>2 DEF CommandLineInv
  <2>4. where \in {"daemon", "open", "write", "loop", "free_cl_opts", "unlink"} /\ pc' = [pc EXCEPT ![p] = where]
    BY <1>2 DEF Goes
  <2> HIDE DEF o, where
  <2>5. keep_going' = [keep_going EXCEPT ![p] = keep_going[p]] /\ keep_going[p] \in BOOLEAN
    BY <1>2, Keeps
  <2>6. ended' = ended /\ argv' = argv /\ cmdline' = [cmdline EXCEPT ![p] = <<>>]
    BY <1>2
  <2>7. Moves(p, where, keep_going[p], o)
    BY <2>2, <2>3, <2>4, <2>5, <2>6 DEF Moves
  <2> QED BY <2>7, CommandLineMoves
<1> QED BY <1>1, <1>2 DEF build_object_tree

(* What comes after the command line *)
LEMMA CommandLineLater ==
    ASSUME CommandLineInv, NEW p \in Procs,
           NEW where \in {"daemon", "open", "write", "loop", "free_cl_opts", "unlink"}, Goes(p, where),
           UNCHANGED <<opts, ended, argv, cmdline>>,
           keep_going' = keep_going \/ keep_going' = [keep_going EXCEPT ![p] = TRUE]
    PROVE  CommandLineInv'
<1>1. PICK on \in BOOLEAN : keep_going' = [keep_going EXCEPT ![p] = on]
  BY Keeps
<1>2. opts' = [opts EXCEPT ![p] = opts[p]] /\ opts[p] \in Variables
  BY Keeps
<1>3. pc' = [pc EXCEPT ![p] = where]
  BY DEF Goes
<1>4. Moves(p, where, on, opts[p])
  BY <1>1, <1>2, <1>3 DEF Moves
<1> QED BY <1>4, CommandLineMoves

(* Every step keeps the invariant. *)
LEMMA CommandLineStep == CommandLineInv /\ [Next]_vars => CommandLineInv'
<1> SUFFICES ASSUME CommandLineInv, [Next]_vars PROVE CommandLineInv'
  OBVIOUS
<1>1. CASE UNCHANGED vars
  BY <1>1 DEF vars, CommandLineInv, Parsing
<1>2. ASSUME NEW p \in Procs, Start(p) PROVE CommandLineInv'
  BY <1>2, CommandLineStart
<1>3. ASSUME NEW p \in Procs, parse_command_line(p) PROVE CommandLineInv'
  BY <1>3, CommandLineParse
<1>4. ASSUME NEW p \in Procs, build_object_tree(p) PROVE CommandLineInv'
  BY <1>4, CommandLineBuild
<1>5. ASSUME NEW p \in Procs, daemon(p) PROVE CommandLineInv'
  <2>1. CASE Ends(p, "exit")
    BY <2>1, CommandLineEnds
  <2>2. CASE /\ Goes(p, IF opts[p].pidfile THEN "open" ELSE "loop")
             /\ keep_going' = [keep_going EXCEPT ![p] = TRUE]
             /\ UNCHANGED <<argv, opts, cmdline, ended>>
    <3>1. PICK where \in {"daemon", "open", "write", "loop", "free_cl_opts", "unlink"} : Goes(p, where)
      BY <2>2
    <3> QED BY <2>2, <3>1, CommandLineLater
  <2> QED BY <1>5, <2>1, <2>2 DEF daemon
<1>6. ASSUME NEW p \in Procs, open(p) PROVE CommandLineInv'
  BY <1>6, CommandLineLater DEF open, memory
<1>7. ASSUME NEW p \in Procs, write(p) PROVE CommandLineInv'
  BY <1>7, CommandLineLater DEF write, memory
<1>8. ASSUME NEW p \in Procs, handler(p) PROVE CommandLineInv'
  BY <1>8 DEF handler, CommandLineInv, Parsing
<1>9. ASSUME NEW p \in Procs, LeaveLoop(p) PROVE CommandLineInv'
  BY <1>9, CommandLineLater DEF LeaveLoop, memory
<1>10. ASSUME NEW p \in Procs, free_cl_opts(p) PROVE CommandLineInv'
  BY <1>10, CommandLineLater, CommandLineEnds DEF free_cl_opts, memory
<1>11. ASSUME NEW p \in Procs, unlink(p) PROVE CommandLineInv'
  BY <1>11, CommandLineEnds DEF unlink
<1>12. ASSUME NEW p \in Procs, Killed(p) PROVE CommandLineInv'
  BY <1>12, CommandLineEnds DEF Killed
<1> QED BY <1>1, <1>2, <1>3, <1>4, <1>5, <1>6, <1>7, <1>8, <1>9, <1>10, <1>11, <1>12
        DEF Next, Step, Terminating

LEMMA CommandLineInvariance == Spec => []CommandLineInv
BY CommandLineInit, CommandLineStep, PTL DEF Spec

-----------------------------------------------------------------------------
(* The last option of its letter, as CHOOSE finds it, is the latest of the *)
(* whole line.                                                             *)
LEMMA LastIsLatest ==
    ASSUME NEW p \in Procs, cmdline[p] \in Seq(Option), NEW x, NEW o,
           Honoured(o, cmdline[p], Len(cmdline[p])), Given(p, x) # {}
    PROVE  \E j : Latest(cmdline[p], x, Len(cmdline[p]), j) /\ LastOf(p, x) = cmdline[p][j]
<1> DEFINE line == cmdline[p]
           IsLast(k) == \A j \in Given(p, x) : j <= k
           m == CHOOSE k \in Given(p, x) : IsLast(k)
<1>1. DOMAIN line = 1..Len(line)
  OBVIOUS
<1>2. \A k : k \in Given(p, x) <=> k \in 1..Len(line) /\ line[k].opt = x
  BY <1>1 DEF Given
<1>3. \A k : Latest(line, x, Len(line), k) <=> k \in Given(p, x) /\ IsLast(k)
  BY <1>2 DEF Latest
<1>4. \E j \in 1..Len(line) : line[j].opt = x
  BY <1>2
<1>5. \E k : Latest(line, x, Len(line), k)
  BY <1>4 DEF Honoured
<1>6. m \in Given(p, x) /\ IsLast(m)
  <2> HIDE DEF IsLast
  <2> QED BY <1>3, <1>5
<1>7. LastOf(p, x) = line[m]
  BY DEF LastOf
<1> HIDE DEF m, IsLast
<1> QED BY <1>3, <1>6, <1>7

(* A command line that is parsed to the end is honoured as a whole. *)
LEMMA ParsedHonoured ==
    ASSUME CommandLineInv, NEW p \in Procs, Parsed(p)
    PROVE  /\ cmdline[p] \in Seq(Option) /\ Honoured(opts[p], cmdline[p], Len(cmdline[p]))
           /\ opts[p] \in Variables
           /\ \A k : k \in DOMAIN cmdline[p] <=> k \in 1..Len(cmdline[p])
<1> DEFINE line == cmdline[p]
<1>1. line \in CommandLines[p] /\ line \in Seq(Option) /\ argv[p] = <<>> /\ Len(line) \in Nat
  BY CommandLineAssumption DEF CommandLineInv, Parsing, Parsed
<1>2. PICK k \in 0..Len(line) : argv[p] = SubSeq(line, k + 1, Len(line)) /\ Honoured(opts[p], line, k)
  BY DEF CommandLineInv, Parsing, Parsed
<1>3. k = Len(line)
  BY <1>1, <1>2
<1> QED BY <1>1, <1>2, <1>3, Keeps

(* The variables are what a reader of the command line expects. *)
LEMMA HonouredOptions ==
    ASSUME CommandLineInv
    PROVE  OptionsHonoured
<1> SUFFICES ASSUME NEW p \in Procs, Parsed(p)
    PROVE  /\ opts[p].foreground_mode <=> \E x \in {"d", "f", "j"} : Given(p, x) # {}
           /\ opts[p].pidfile <=> Given(p, "s") # {}
           /\ Given(p, "h") # {} => IsPrefix(LastOf(p, "h").text, opts[p].global_hint_policy)
           /\ Given(p, "p") # {} /\ LastOf(p, "p").num \in 1..ULONG_MAX - 1
                 => opts[p].power_thresh = LastOf(p, "p").num
           /\ Given(p, "p") = {} \/ LastOf(p, "p").text = Off => opts[p].power_thresh = ULONG_MAX
           /\ Given(p, "c") # {} /\ LastOf(p, "c").num \in Nat => opts[p].deepest_cache = LastOf(p, "c").num
           /\ Given(p, "t") # {} /\ LastOf(p, "t").num \in 1..INT_MAX
                 => opts[p].sleep_interval = LastOf(p, "t").num
  BY DEF OptionsHonoured
<1> DEFINE line == cmdline[p]
           n == Len(line)
<1>1. line \in Seq(Option) /\ Honoured(opts[p], line, n)
  BY ParsedHonoured
<1>2. \A x : Given(p, x) # {} <=> \E j \in 1..n : line[j].opt = x
  BY ParsedHonoured DEF Given
<1>3. \A x : Given(p, x) # {} => \E j : Latest(line, x, n, j) /\ LastOf(p, x) = line[j]
  BY <1>1, LastIsLatest
<1> HIDE DEF line, n
<1>4. opts[p].foreground_mode <=> \E x \in {"d", "f", "j"} : Given(p, x) # {}
  BY <1>1, <1>2 DEF Honoured
<1>5. opts[p].pidfile <=> Given(p, "s") # {}
  BY <1>1, <1>2 DEF Honoured
<1>6. Given(p, "h") # {} => IsPrefix(LastOf(p, "h").text, opts[p].global_hint_policy)
  BY <1>1, <1>3 DEF Honoured, HintHonoured
<1>7. Given(p, "p") # {} => ThreshHonoured(opts[p], LastOf(p, "p"))
  BY <1>1, <1>3 DEF Honoured
<1>8. Given(p, "p") = {} => opts[p].power_thresh = ULONG_MAX
  BY <1>1, <1>2 DEF Honoured
<1>9. Given(p, "c") # {} => CacheHonoured(opts[p], LastOf(p, "c"))
  BY <1>1, <1>3 DEF Honoured
<1>10. Given(p, "t") # {} => IntervalHonoured(opts[p], LastOf(p, "t"))
  BY <1>1, <1>3 DEF Honoured
<1> QED BY <1>4, <1>5, <1>6, <1>7, <1>8, <1>9, <1>10 DEF ThreshHonoured, CacheHonoured, IntervalHonoured

(* What is banned is what the options say, whatever their order. *)
LEMMA HonouredBans ==
    ASSUME CommandLineInv
    PROVE  BansComplete
<1> SUFFICES ASSUME NEW p \in Procs, Parsed(p)
    PROVE  /\ \A name \in Names :
                 /\ Found(opts[p].cl_banned_modules, name)
                       <=> \E k \in Given(p, "m") : strstr(name, cmdline[p][k].text)
                 /\ Found(opts[p].banned_irq_names, name)
                       <=> \E k \in Given(p, "n") : Found(cmdline[p][k].names, name)
           /\ ToSet(opts[p].cl_banned_irqs) = {ToInt(cmdline[p][k].num) : k \in Given(p, "i")}
  BY DEF BansComplete
<1> DEFINE line == cmdline[p]
           n == Len(line)
<1>1. Honoured(opts[p], line, n)
  BY ParsedHonoured
<1>2. \A x, k : k \in Given(p, x) <=> k \in 1..n /\ line[k].opt = x
  BY ParsedHonoured DEF Given
<1>3. \A name \in Names :
         /\ Found(opts[p].cl_banned_modules, name)
               <=> \E k \in Given(p, "m") : strstr(name, line[k].text)
         /\ Found(opts[p].banned_irq_names, name)
               <=> \E k \in Given(p, "n") : Found(line[k].names, name)
  BY <1>1, <1>2 DEF Honoured
<1>4. \A i : i \in ToSet(opts[p].cl_banned_irqs) <=> \E k \in Given(p, "i") : i = ToInt(line[k].num)
  BY <1>1, <1>2 DEF Honoured
<1> QED BY <1>3, <1>4

(* However many daemons there are and whatever their command lines, the    *)
(* variables parse_command_line sets stay in their ranges; once a line has *)
(* been parsed they hold the last -h, -p, -c and -t, and ban every irq,    *)
(* module and name of the line and none besides.                           *)
THEOREM CommandLineIsHonoured == Spec => []CommandLineHonoured
<1>1. CommandLineInv /\ PidInv => TypeOK
  BY DEF CommandLineInv, PidInv, FileOwned, FileOf, Variables, TypeOK
<1>2. CommandLineInv /\ PidInv => CommandLineHonoured
  BY <1>1, HonouredOptions, HonouredBans DEF CommandLineHonoured
<1> QED BY <1>2, PidInvariance, CommandLineInvariance, PTL
=============================================================================
