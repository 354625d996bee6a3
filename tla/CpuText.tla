------------------------------- MODULE CpuText -------------------------------
(***************************************************************************)
(* How irqbalance gets the cpus it must not use (setup_banned_cpus,        *)
(* cputree.c): from the mask in IRQBALANCE_BANNED_CPUS, or from the lists  *)
(* of isolated and nohz_full cpus in sysfs.  Both texts are read character *)
(* by character (__bitmap_parse and __bitmap_parselist, bitmap.c), and no  *)
(* caller looks at what the parsers return.  The text comes into being as  *)
(* it is read, so every text up to the bound is tried.                     *)
(*                                                                         *)
(* Digits, chunks and words are scaled down: there are two digits, so a    *)
(* digit of a mask has one bit (4 in the code) and a list counts by two    *)
(* (10).  The numbers of a list are ints and nothing tests them for        *)
(* overflow, which C leaves undefined; as compiled here they wrap.  The    *)
(* texts hold no NUL: every caller passes their strlen.                    *)
(***************************************************************************)
EXTENDS Bitmap

CONSTANTS
    nmaskbits,   \* NR_CPUS
    CHUNKSZ,     \* bits of a chunk: 32
    INT_MAX,     \* the greatest int: 2^31 - 1
    MaxMask,     \* bound: characters of IRQBALANCE_BANNED_CPUS
    MaxList      \* bound: characters of isolated and nohz_full together

ASSUME TextAssumption == /\ nmaskbits \in Nat \ {0} /\ CHUNKSZ \in Nat \ {0}
                         /\ BITS_PER_LONG % CHUNKSZ = 0
                         /\ INT_MAX \in Nat /\ nmaskbits <= INT_MAX
                         /\ MaxMask \in Nat /\ MaxList \in Nat

DIGIT == 1   \* bits of a digit of a mask
BASEDEC == 2 \* what the digits of a list count by

Digits == {"0", "1"}
MaskChars == Digits \cup {",", " ", "x"}
ListChars == Digits \cup {",", "-", " ", "\n", "x"}
isspace(c) == c \in {" ", "\n"}
unhex(c)   == IF c = "1" THEN {0} ELSE {}   \* the bits of a digit
digit(c)   == IF c = "1" THEN 1 ELSE 0      \* c - '0'

ToInt(v) == ((v + INT_MAX + 1) % (2 * (INT_MAX + 1))) - INT_MAX - 1

Running == "running"
Wild == "wild"   \* set_bit wrote below the mask: what follows is undefined

VARIABLES
    pc,      \* where setup_banned_cpus is: the source it reads, or between two
    mem,     \* banned, isolated, nohz_full: the three masks
    p,       \* local variables of the parser, and the first character of its line
    ret,     \* Running, what the last parser returned, or Wild
    text     \* history: what was read of each source; None if there was none

vars == <<pc, mem, p, ret, text>>

Sources == {"banned", "isolated", "nohz_full"}
None == <<"none">>

(* The locals of both parsers at the head of a chunk or list element. *)
NewPiece(q) == [q EXCEPT !.chunk = {}, !.ndigits = 0,
                         !.a = 0, !.b = 0, !.exp_digit = TRUE, !.in_range = FALSE]
NewParser(first) == [first |-> first, c |-> "nul", totaldigits |-> 0, nchunks |-> 0, nbits |-> 0,
              chunk |-> {}, ndigits |-> 0,
              a |-> 0, b |-> 0, exp_digit |-> TRUE, in_range |-> FALSE]

(* An earlier scan may have left anything in banned_cpus: all ones here.   *)
Init == /\ pc = "start"
        /\ mem = [banned |-> bitmap_fill(nmaskbits), isolated |-> bitmap_zero(nmaskbits),
                  nohz_full |-> bitmap_zero(nmaskbits)]
        /\ p = NewParser("") /\ ret = "ok"
        /\ text = [s \in Sources |-> None]

-----------------------------------------------------------------------------
(* Reading a character; buflen is what the bounds leave.  A line ends with *)
(* its newline.                                                            *)
InMask == pc = "banned" /\ ret = Running
InList == pc \in {"isolated", "nohz_full"} /\ ret = Running

ListLength == MapThenSumSet(LAMBDA s : IF text[s] = None THEN 0 ELSE Len(text[s]),
                            {"isolated", "nohz_full"})
MoreText == IF pc = "banned" THEN Len(text[pc]) < MaxMask ELSE ListLength < MaxList

Read(c) == /\ MoreText
           /\ p.c # "\n"
           /\ text[pc] = <<>> /\ pc # "banned" => c = p.first
           /\ text' = [text EXCEPT ![pc] = Append(@, c)]

Return(r) == ret' = r /\ UNCHANGED <<pc, mem>>
Continue  == UNCHANGED <<pc, mem, ret>>

(* "If the last character was a space and the current character isn't      *)
(* '\0', we've got embedded whitespace."                                   *)
Embedded == p.totaldigits > 0 /\ isspace(p.c)

Skip(c) == /\ InMask \/ InList
           /\ Read(c) /\ isspace(c)
           /\ p' = [p EXCEPT !.c = c]
           /\ Continue

-----------------------------------------------------------------------------
(* __bitmap_parse *)
MaskEmbedded(c) == InMask /\ Read(c) /\ ~isspace(c) /\ Embedded /\ Return("ok") /\ UNCHANGED p

MaskIllegal(c) == /\ InMask /\ Read(c) /\ c = "x" /\ ~Embedded
                  /\ Return("EINVAL") /\ UNCHANGED p

(* One of the top DIGIT bits of the chunk is set. *)
NoRoom == \E bit \in p.chunk : bit >= CHUNKSZ - DIGIT

MaskOverflow(c) == /\ InMask /\ Read(c) /\ c \in Digits /\ ~Embedded
                   /\ NoRoom
                   /\ Return("EOVERFLOW") /\ UNCHANGED p

MaskDigit(c) == /\ InMask /\ Read(c) /\ c \in Digits /\ ~Embedded
                /\ ~NoRoom
                /\ p' = [p EXCEPT !.c = c, !.chunk = {bit + DIGIT : bit \in @} \cup unhex(c),
                                  !.ndigits = @ + 1, !.totaldigits = @ + 1]
                /\ Continue

(* Mutant: a chunk of zeros is skipped wherever it is. *)
SkipZeros == p.chunk = {}

(* Leading chunks of zeros are skipped. *)
LeadingZeros == p.nchunks = 0 /\ p.chunk = {}

StoreChunk ==
    [mem EXCEPT !.banned = bitmap_or(__bitmap_shift_left(mem, "banned", "banned", CHUNKSZ, nmaskbits).banned,
                                     [k \in Words(nmaskbits) |-> IF k = 0 THEN p.chunk ELSE {}])]

ChunkBits == IF p.nchunks = 0 THEN fls(p.chunk) ELSE CHUNKSZ

(* The end of a chunk: at a comma, or where the text ends (c = ""). *)
MaskPiece(c) ==
    /\ InMask
    /\ IF c = "," THEN Read(c) /\ ~Embedded ELSE UNCHANGED text
    /\ LET q == [p EXCEPT !.c = IF c = "," THEN c ELSE @]
           more == IF c = "," THEN Running ELSE "ok"
       IN  \/ /\ p.ndigits = 0
              /\ p' = q /\ Return("EINVAL")
           \/ /\ p.ndigits > 0 /\ LeadingZeros
              /\ p' = NewPiece(q) /\ Return(more)
           \/ /\ p.ndigits > 0 /\ ~LeadingZeros
              /\ mem' = StoreChunk
              /\ p' = NewPiece([q EXCEPT !.nchunks = @ + 1, !.nbits = @ + ChunkBits])
              /\ ret' = IF p.nbits + ChunkBits > nmaskbits THEN "EOVERFLOW" ELSE more
              /\ UNCHANGED pc

-----------------------------------------------------------------------------
(* __bitmap_parselist *)
ListEmbedded(c) == /\ InList /\ Read(c) /\ ~isspace(c) /\ Embedded
                   /\ Return("EINVAL") /\ UNCHANGED p

ListIllegal(c) == /\ InList /\ Read(c) /\ ~Embedded
                  /\ \/ c = "x"
                     \/ c = "-" /\ (p.exp_digit \/ p.in_range)
                  /\ Return("EINVAL") /\ UNCHANGED p

(* Mutant: the first number is kept. *)
DashKeeps(q) == [q EXCEPT !.in_range = TRUE, !.exp_digit = TRUE]

AtDash(q) == [q EXCEPT !.b = 0, !.in_range = TRUE, !.exp_digit = TRUE]

ListDash(c) == /\ InList /\ Read(c) /\ c = "-" /\ ~Embedded
               /\ ~p.exp_digit /\ ~p.in_range
               /\ p' = AtDash([p EXCEPT !.c = c])
               /\ Continue

ListDigit(c) == /\ InList /\ Read(c) /\ c \in Digits /\ ~Embedded
                /\ LET b == ToInt(p.b * BASEDEC + digit(c))
                   IN  p' = [p EXCEPT !.c = c, !.b = b, !.a = IF p.in_range THEN @ ELSE b,
                                      !.exp_digit = FALSE, !.totaldigits = @ + 1]
                /\ Continue

(* The end of an element: at a comma, or where the text ends. *)
ListPiece(c) ==
    /\ InList
    /\ IF c = "," THEN Read(c) /\ ~Embedded ELSE UNCHANGED text
    /\ p' = NewPiece([p EXCEPT !.c = IF c = "," THEN c ELSE @])
    /\ \/ p.a > p.b /\ Return("EINVAL")
       \/ p.a <= p.b /\ p.b >= nmaskbits /\ Return("ERANGE")
       \/ p.a <= p.b /\ p.b < nmaskbits /\ p.a < 0 /\ Return(Wild)
       \/ /\ 0 <= p.a /\ p.a <= p.b /\ p.b < nmaskbits
          /\ mem' = [mem EXCEPT ![pc] = FoldSet(set_bit, @, p.a..p.b)]
          /\ ret' = IF c = "," THEN Running ELSE "ok"
          /\ UNCHANGED pc

(* A text that ends with a comma has no element after it. *)
EndOfText ==
    /\ InMask \/ InList
    /\ InList => text[pc] # <<>>
    /\ \/ p.c # "," /\ (MaskPiece("") \/ ListPiece(""))
       \/ p.c = "," /\ Return("ok") /\ UNCHANGED <<p, text>>

-----------------------------------------------------------------------------
(* bitmap_scnprintf: the chunks from the highest that is not zero down to  *)
(* chunk 0, each with all its digits.                                      *)
Hex(v, width) ==
    [j \in 1..width |-> CHOOSE c \in Digits : unhex(c) = Shr(v, (width - j) * DIGIT) \cap LowBits(DIGIT)]

(* Mutant: a chunk of zeros is left out also between others. *)
PrintIfSet(val, buf, i) == val # {} \/ i = 0

(* val != 0 || !first || i == 0 *)
IsPrinted(val, buf, i) == val # {} \/ buf # <<>> \/ i = 0

bitmap_scnprintf(map) ==
    LET nchunks == (nmaskbits + CHUNKSZ - 1) \div CHUNKSZ
        top     == (nchunks - 1) * CHUNKSZ
        starts  == [j \in 1..nchunks |-> top - (j - 1) * CHUNKSZ]
        chunksz(i) == IF i = top /\ nmaskbits % CHUNKSZ # 0 THEN nmaskbits % CHUNKSZ ELSE CHUNKSZ
        val(i)  == Shr(map[i \div BITS_PER_LONG], i % BITS_PER_LONG) \cap LowBits(chunksz(i))
        sep(buf) == IF buf = <<>> THEN <<>> ELSE <<",">>
        print(buf, i) == IF IsPrinted(val(i), buf, i)
                         THEN buf \o sep(buf) \o Hex(val(i), (chunksz(i) + DIGIT - 1) \div DIGIT)
                         ELSE buf
    IN  FoldLeft(print, <<>>, starts)

-----------------------------------------------------------------------------
(* setup_banned_cpus *)
BeginParse(s, first) ==
    /\ pc' = s
    /\ mem' = [mem EXCEPT ![s] = bitmap_zero(nmaskbits)]
    /\ p' = NewParser(first) /\ ret' = Running
    /\ text' = [text EXCEPT ![s] = <<>>]

(* The environment overrides what the kernel says. *)
GetEnv == pc = "start" /\ BeginParse("banned", "")

NoEnv == pc = "start" /\ pc' = "open_isolated" /\ UNCHANGED <<mem, p, ret, text>>

(* Mutant: an empty line is parsed. *)
AnyLine(first) == TRUE

(* strlen(line) && line[0] != '\n' *)
HasList(first) == first # "\n"

(* No file or no line, an empty line, or a line to parse. *)
Open(s, after) ==
    /\ pc = "open_" \o s
    /\ \/ pc' = after /\ UNCHANGED <<mem, p, ret, text>>
       \/ \E first \in ListChars :
             /\ ListLength < MaxList
             /\ IF HasList(first) THEN BeginParse(s, first)
                ELSE /\ text' = [text EXCEPT ![s] = <<first>>]
                     /\ pc' = after /\ UNCHANGED <<mem, p, ret>>

(* Nobody looks at ret. *)
Parsed(s, after) == /\ pc = s /\ ret \notin {Running, Wild}
                    /\ pc' = after /\ UNCHANGED <<mem, p, ret, text>>

JoinLists == /\ pc = "join"
             /\ mem' = [mem EXCEPT !.banned = bitmap_or(mem.nohz_full, mem.isolated)]
             /\ pc' = "out" /\ UNCHANGED <<p, ret, text>>

setup_banned_cpus ==
    \/ GetEnv \/ NoEnv
    \/ Open("isolated", "open_nohz_full") \/ Open("nohz_full", "join")
    \/ Parsed("banned", "out") \/ Parsed("isolated", "open_nohz_full")
    \/ Parsed("nohz_full", "join") \/ JoinLists

Next ==
    \/ setup_banned_cpus
    \/ \E c \in MaskChars : /\ pc = "banned"
                             /\ \/ Skip(c) \/ MaskEmbedded(c) \/ MaskIllegal(c)
                                \/ MaskOverflow(c) \/ MaskDigit(c)
    \/ \E c \in ListChars : /\ pc # "banned"
                             /\ \/ Skip(c) \/ ListEmbedded(c) \/ ListIllegal(c)
                                \/ ListDash(c) \/ ListDigit(c)
    \/ MaskPiece(",") \/ ListPiece(",") \/ EndOfText

Spec == Init /\ [][Next]_vars
-----------------------------------------------------------------------------
(* What the texts mean, without a parser. *)
Trim(t) == LET dark == {i \in DOMAIN t : ~isspace(t[i])}
           IN  IF dark = {} THEN <<>> ELSE SubSeq(t, Min(dark), Max(dark))

Split(t, c) == LET cuts == SetToSortSeq({0, Len(t) + 1} \cup {i \in DOMAIN t : t[i] = c}, <)
               IN  [k \in 1..Len(cuts) - 1 |-> SubSeq(t, cuts[k] + 1, cuts[k + 1] - 1)]

Number(q)   == FoldLeft(LAMBDA v, c : v * 2 + digit(c), 0, q)
IsNumber(q) == q # <<>> /\ ToSet(q) \subseteq Digits
BitsOf(v)   == {c \in 0..nmaskbits - 1 : (v \div 2^c) % 2 = 1}

(* White space between two other characters, after the first digit. *)
EmbeddedSpace(t) == \E i, j \in DOMAIN t : /\ i < j /\ t[i] \in Digits /\ ~isspace(t[j])
                                           /\ isspace(t[j - 1])

(* The elements of s before the first that is not good. *)
GoodPart(s, Good(_)) == LET bad == {k \in DOMAIN s : ~Good(s[k])}
                        IN  IF bad = {} THEN s ELSE SubSeq(s, 1, Min(bad) - 1)

Chunks(t)     == Split(Trim(t), ",")
IsChunk(q)    == IsNumber(q) /\ Number(q) < 2^CHUNKSZ
MaskFormed(t) == \A k \in DOMAIN Chunks(t) : IsNumber(Chunks(t)[k])
MaskValue(s)  == FoldLeft(LAMBDA v, q : v * 2^CHUNKSZ + Number(q), 0, s)
MaskFits(t)   == /\ \A k \in DOMAIN Chunks(t) : IsChunk(Chunks(t)[k])
                 /\ MaskValue(Chunks(t)) < 2^nmaskbits
MaskTold(t)   == BitsOf(MaskValue(GoodPart(Chunks(t), IsChunk)))

(* An element is a number or two with a dash between; a missing number is  *)
(* a zero.                                                                 *)
Elements(t) == Split(SelectSeq(IF Last(t) = "," THEN Front(t) ELSE t, LAMBDA c : ~isspace(c)), ",")
Low(q)      == Split(q, "-")[1]
High(q)     == Last(Split(q, "-"))
IsRange(q)  == /\ Len(Split(q, "-")) <= 2
               /\ ToSet(Low(q)) \cup ToSet(High(q)) \subseteq Digits
               /\ "-" \in ToSet(q) => Low(q) # <<>>
IntRange(q) == ToInt(Number(Low(q)))..ToInt(Number(High(q)))
IsElement(q) == IsRange(q) /\ IntRange(q) # {} /\ IntRange(q) \subseteq 0..nmaskbits - 1
ListFormed(t) == ~EmbeddedSpace(t) /\ \A k \in DOMAIN Elements(t) : IsElement(Elements(t)[k])

(* White space within the text ends it in the middle of an element.        *)
ElementsRead(t) == IF EmbeddedSpace(t) THEN Front(Elements(Front(t))) ELSE Elements(t)
ListTold(t) == UNION {IntRange(q) : q \in ToSet(GoodPart(ElementsRead(t), IsElement))}
NoInt(q)    == Number(Low(q)) > INT_MAX \/ Number(High(q)) > INT_MAX

(* The cpus a source names; None or an empty line names none.              *)
Told(t)   == IF t \in {None, <<"\n">>} THEN {} ELSE ListTold(t)

Cpus(s) == Bits(mem[s], nmaskbits)

(* Types: the masks are bitmaps, the locals stay in their ranges; a chunk  *)
(* never has more than CHUNKSZ bits.                                       *)
TypeOK ==
    /\ pc \in Sources \cup {"start", "open_isolated", "open_nohz_full", "join", "out"}
    /\ mem \in [Sources -> [Words(nmaskbits) -> SUBSET AllOnes]]
    /\ ret \in {Running, "ok", "EINVAL", "EOVERFLOW", "ERANGE", Wild}
    /\ p.chunk \subseteq 0..CHUNKSZ - 1
    /\ {p.a, p.b} \subseteq -INT_MAX - 1..INT_MAX
    /\ p.nbits <= nmaskbits + CHUNKSZ

(* "Commas group hex digits into chunks ... %-EINVAL is returned for       *)
(* illegal characters and for grouping errors": a mask that is formed so   *)
(* is accepted, or refused with -EOVERFLOW if and only if a chunk or the   *)
(* whole has too many bits; what is not formed so is refused, except that  *)
(* a comma may end the text and that white space within it ends it.  In    *)
(* every case the mask is left with exactly the chunks up to the first one *)
(* that is no chunk.  And no chunk ever overflows.                         *)
MaskExact ==
    /\ TypeOK
    /\ pc = "banned" /\ ret # Running =>
        LET t == text.banned
        IN  /\ Cpus("banned") = MaskTold(t)
            /\ MaskFormed(t) => ret = IF MaskFits(t) THEN "ok" ELSE "EOVERFLOW"
            /\ ~MaskFormed(t) /\ ret = "ok" => Last(t) = "," \/ EmbeddedSpace(t)

(* A list is accepted if and only if its elements are numbers or ranges    *)
(* that, as ints, lie within the mask; the mask is left with exactly the   *)
(* cpus that the elements up to the first other one name.  A number that   *)
(* is missing counts as a zero: an empty element names cpu 0.  One that no *)
(* int holds counts modulo 2^32: it may name a cpu, and only it can make   *)
(* set_bit write outside the mask.                                         *)
ListExact ==
    pc \in {"isolated", "nohz_full"} /\ ret # Running =>
        LET t == text[pc]
        IN  /\ ret = "ok" <=> ListFormed(t)
            /\ ret # Wild => Cpus(pc) = ListTold(t)
            /\ ret = Wild => \E k \in DOMAIN Elements(t) : NoInt(Elements(t)[k])

(* "%-ERANGE: bit number specified too large for mask": a list with such a *)
(* number is not accepted.                                                 *)
TooLargeRefused ==
    pc \in {"isolated", "nohz_full"} /\ ret = "ok" =>
        \A k \in DOMAIN Elements(text[pc]) :
            LET q == Elements(text[pc])[k]
            IN  Number(Low(q)) < nmaskbits /\ Number(High(q)) < nmaskbits

(* "A manually specified cpumask overrides auto-detection", otherwise the  *)
(* isolated and the nohz_full cpus are banned, whatever was banned before. *)
(* Nobody looks at what the parsers return: of a text that is refused the  *)
(* part before what is wrong with it is in force, of a mask too, where     *)
(* that part was to be shifted by what follows it.  Empty lines ban no     *)
(* cpu, and a list that makes no sense does not harm the other one.        *)
BannedAsTold ==
    pc = "out" => Cpus("banned") = IF text.banned # None THEN MaskTold(text.banned)
                                   ELSE Told(text.isolated) \cup Told(text.nohz_full)

(* What bitmap_scnprintf prints of a mask, to the log and to smp_affinity, *)
(* is a mask in the format __bitmap_parse reads and means the same cpus.   *)
PrintExact ==
    pc = "out" => LET t == bitmap_scnprintf(mem.banned)
                  IN  MaskFormed(t) /\ MaskFits(t) /\ MaskTold(t) = Cpus("banned")
=============================================================================
