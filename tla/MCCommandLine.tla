---------------------------- MODULE MCCommandLine ---------------------------
(* The table's options, an unknown one, numbers at the limits that are        *)
(* checked, and a word of the program's own.                                  *)
EXTENDS CommandLine

Options == {"--nproc", "--deqdepth", "--stacksize", "--per-worker fiber pool capacity",
            "--fiber-pool", "--v", "--version", "--help", "--"}
Words == Options \union {"-1", "0", "3", "65536", "input"}

(* atoi gives 0 for what is not a number. *)
Numbers ==
  [x \in Words |-> CASE x = "-1" -> -1 [] x = "3" -> 3 [] x = "65536" -> 65536 [] OTHER -> 0]
=============================================================================
