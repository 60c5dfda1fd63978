----------------------------- MODULE DarshanCli -----------------------------
(***************************************************************************)
(* The command line of darshan-parser: parse_args and usage               *)
(* (src/darshan-util/darshan-parser.c).                                    *)
(*                                                                         *)
(* An argument vector is a sequence of tokens.  A token is one of the long *)
(* options of long_opts, an option-like token that long_opts does not know *)
(* (getopt_long then returns '?'), or a positional word.  getopt_long     *)
(* permutes argv, so options after the file name are still parsed.  The    *)
(* result is the option mask and the file name, or the exit status 1 of    *)
(* usage(), which prints to stderr and calls exit(1).                      *)
(***************************************************************************)
EXTENDS Sequences, Functions

\* the long_opts table: option name -> the bits it sets in the mask
LongOpts ==
    [o \in {"--all", "--base", "--file", "--perf", "--total",
            "--show-incomplete"} |->
        CASE o = "--all"   -> {"BASE", "TOTAL", "PERF", "FILE",
                               "SHOW_INCOMPLETE"}
          [] o = "--base"  -> {"BASE"}
          [] o = "--file"  -> {"FILE"}
          [] o = "--perf"  -> {"PERF"}
          [] o = "--total" -> {"TOTAL"}
          [] OTHER         -> {"SHOW_INCOMPLETE"}]

\* "--help" is in long_opts with val 0, which falls into case 0: usage()
HelpOpt == "--help"

\* option-like tokens that long_opts does not know, such as "--file-list"
IsOption(t) == t \in DOMAIN LongOpts \cup {HelpOpt, "--file-list"}

\* usage(): the message goes to stderr and the process exits with status 1
UsageExit == 1

(***************************************************************************)
(* parse_args: every recognised option ORs its bits into the mask; "--help"*)
(* and unknown options call usage(); so does a missing file name.  An      *)
(* empty mask, or one with only SHOW_INCOMPLETE, gets OPTION_BASE.         *)
(***************************************************************************)
ParseArgs(args) ==
    LET opts   == {args[k] : k \in {j \in DOMAIN args : IsOption(args[j])}}
        words  == SelectSeq(args, LAMBDA t : ~IsOption(t))
        mask   == UNION {LongOpts[o] : o \in opts \cap DOMAIN LongOpts}
    IN  IF \/ ~(opts \subseteq DOMAIN LongOpts)
           \/ words = <<>>
        THEN [exit |-> UsageExit]
        ELSE [exit |-> 0,
              mask |-> IF mask \subseteq {"SHOW_INCOMPLETE"}
                       THEN mask \cup {"BASE"} ELSE mask,
              filename |-> Head(words)]
=============================================================================
