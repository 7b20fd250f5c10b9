---------------------------- MODULE CommandLine -----------------------------
(***************************************************************************)
(* parse_command_line: one pass over argv that takes the runtime's options *)
(* out and moves what is left, the program's own arguments, to the front.  *)
(* A step is one turn of the loop.                                         *)
(***************************************************************************)
EXTENDS Integers, SequencesExt

CONSTANTS
  Word,        \* the words a command line is made of
  Number,      \* what atoi makes of each
  MaxWords,    \* bound on the length of a command line
  DEFAULT_DEQ_DEPTH, DEFAULT_STACK_SIZE, DEFAULT_FIBER_POOL_CAP

(* A command line is a list of words; argv[0] is left out.                    *)
CommandLines == UNION {[1..n -> Word] : n \in 0..MaxWords}

ASSUME WordAssumption ==
  /\ MaxWords \in Nat /\ Number \in [Word -> Int]
  /\ {DEFAULT_DEQ_DEPTH, DEFAULT_STACK_SIZE} \subseteq Nat \ {0}
  /\ DEFAULT_FIBER_POOL_CAP \in Nat /\ DEFAULT_FIBER_POOL_CAP >= 8

VARIABLES
  given,     \* the command line
  argv,      \* the array, rewritten as it is read
  i, j,      \* the loop's indices: next to read, next to write
  options,
  result     \* "parsing", "run" (0 is returned) or "quit" (1)

vars == <<given, argv, i, j, options, result>>

DEFAULT_OPTIONS ==
  [nproc |-> 0, deqdepth |-> DEFAULT_DEQ_DEPTH, stacksize |-> DEFAULT_STACK_SIZE,
   fiber_pool_cap |-> DEFAULT_FIBER_POOL_CAP]

-----------------------------------------------------------------------------
(* Slips: plausible mistakes in the definitions below.                        *)

(* An option's argument is not skipped. *)
AfterArgument_Next(k) == k + 1

-----------------------------------------------------------------------------
Init ==
  /\ given \in CommandLines /\ argv = given
  /\ i = 1 /\ j = 1
  /\ options = DEFAULT_OPTIONS
  /\ result = "parsing"

-----------------------------------------------------------------------------
(* The words that begin with two dashes, and the entries of optarray.         *)
Table == [nproc |-> "--nproc", deqdepth |-> "--deqdepth", stacksize |-> "--stacksize",
          fiber_pool_cap |-> "--per-worker fiber pool capacity",
          version |-> "--version", help |-> "--help"]
Dashed == Range(Table) \union {"--", "--v", "--fiber-pool", "--other"}
WithArgument == {"nproc", "deqdepth", "stacksize", "fiber_pool_cap"}

(* The smallest pool. *)
PoolCap(n) == IF n < 8 THEN 8 ELSE n

Value(field, n) == IF field = "fiber_pool_cap" THEN PoolCap(n) ELSE n

(* CHECK: depth and stack size must be positive. *)
Acceptable(field, n) == field \in {"deqdepth", "stacksize"} => n > 0

Reading == result = "parsing" /\ i <= Len(argv)
Quit == result' = "quit"

(* Behind an option's argument. *)
AfterArgument(k) == k + 2

SetOption(field) ==
  /\ Reading /\ argv[i] = Table[field]
  /\ i + 1 <= Len(argv)
  /\ LET n == Number[argv[i + 1]]
     IN /\ Acceptable(field, n)
        /\ options' = [options EXCEPT ![field] = Value(field, n)]
  /\ i' = AfterArgument(i)
  /\ UNCHANGED <<given, argv, j, result>>

(* "Bad option argument": missing, or (set before it is checked) not positive. *)
BadArgument(field) ==
  /\ Reading /\ argv[i] = Table[field]
  /\ \/ i + 1 > Len(argv) /\ UNCHANGED options
     \/ /\ i + 1 <= Len(argv)
        /\ ~Acceptable(field, Number[argv[i + 1]])
        /\ options' = [options EXCEPT ![field] = Number[argv[i + 1]]]
  /\ i' = i + 1
  /\ Quit
  /\ UNCHANGED <<given, argv, j>>

(* The version or the help is printed, and the program quits. *)
Inform ==
  /\ Reading /\ argv[i] \in {Table.version, Table.help}
  /\ Quit
  /\ UNCHANGED <<given, argv, i, j, options>>

(* "Unrecognized options": END_OPTIONS has no case of its own. *)
Unrecognized ==
  /\ Reading /\ argv[i] \in Dashed \ Range(Table)
  /\ Quit
  /\ UNCHANGED <<given, argv, i, j, options>>

Keep ==
  /\ Reading /\ argv[i] \notin Dashed
  /\ argv' = [argv EXCEPT ![j] = argv[i]]
  /\ i' = i + 1 /\ j' = j + 1
  /\ UNCHANGED <<given, options, result>>

(* *argc = j. *)
Finish ==
  /\ result = "parsing" /\ i > Len(argv)
  /\ argv' = SubSeq(argv, 1, j - 1)
  /\ result' = "run"
  /\ UNCHANGED <<given, i, j, options>>

Terminated == result # "parsing" /\ UNCHANGED vars

Next ==
  \/ \E field \in WithArgument : SetOption(field) \/ BadArgument(field)
  \/ Inform \/ Unrecognized \/ Keep \/ Finish \/ Terminated

Spec == Init /\ [][Next]_vars

-----------------------------------------------------------------------------
(* The words of s that are neither the runtime's options nor their arguments. *)
Own(s) ==
  LET from[k \in 1..Len(s) + 2] ==
        IF k > Len(s) THEN <<>>
        ELSE IF \E f \in WithArgument : s[k] = Table[f] THEN from[k + 2]
        ELSE (IF s[k] \in Dashed THEN <<>> ELSE <<s[k]>>) \o from[k + 1]
  IN from[1]

(* The program sees its own arguments, all of them, in their order, although  *)
(* parse_command_line moves them within the array that it is still reading.   *)
ProgramArguments == result = "run" => argv = Own(given)

=============================================================================
