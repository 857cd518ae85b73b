----------------------------- MODULE ProgramArgs -----------------------------
(***************************************************************************)
(* The command line of ocldbg (ocldbg/args.cpp) and what main() does with  *)
(* it (ocldbg/main.cpp).                                                   *)
(*                                                                         *)
(* An argument is a string; options are spelled as in the code.  Number is *)
(* what std::stoul and its kin read from an argument: a number, or, outside*)
(* its domain, an exception that nobody catches.                           *)
(***************************************************************************)
EXTENDS Integers, Sequences

CONSTANTS Number,       \* the arguments that are numbers, each with its value
          Unknown,      \* arguments that begin with "-" and spell no option
          PortWidth,    \* the bits of a port
          LineWidth     \* the bits of a line

ASSUME ArgsAssumption ==
    /\ \A a \in DOMAIN Number : Number[a] \in Nat
    /\ PortWidth \in Nat /\ LineWidth \in Nat

None == ""

\* The option an argument spells.  An empty argument spells --print, whose
\* short form is empty; --backend, which has none either, is tried after it.
Option(arg) ==
    CASE arg \in {"-O", "--one-line-before-file"} -> "one_line_before"
      [] arg \in {"-S", "--source-before-file"}   -> "source_before"
      [] arg \in {"-s", "--source"}               -> "source_after"
      [] arg \in {"-o", "--one-line"}             -> "one_line_after"
      [] arg \in {"", "--print"}                  -> "print_exprs"
      [] arg = "--backend"                        -> "backend_name"
      [] arg \in {"-b", "--batch"}                -> "batch_mode"
      [] arg = "--dry-run"                        -> "dry_run"
      [] arg = "--show-wg-bounds"                 -> "show_wg_bounds"
      [] arg = "--track-wg"                       -> "track_wg"
      [] arg = "--dap"                            -> "dap_mode"
      [] arg = "--inspect-vars"                   -> "inspect_vars"
      [] arg \in {"-v", "--version"}              -> "show_version"
      [] arg \in {"-h", "--help"}                 -> "show_help"
      [] arg = "--break-at"                       -> "break_at"
      [] arg = "--break-for"                      -> "break_for"
      [] arg = "--port"                           -> "dap_port"
      [] OTHER                                    -> None

Lists == {"one_line_before", "source_before", "source_after", "one_line_after", "print_exprs"}
Numbers == {"break_at", "break_for", "dap_port"}
Flags == {"batch_mode", "dry_run", "show_wg_bounds", "track_wg", "dap_mode", "inspect_vars",
          "show_version", "show_help"}
Valued == Lists \cup Numbers \cup {"backend_name"}

NoArgs ==
    [host_binary |-> None, host_args |-> <<>>, backend_name |-> "cpu", flags |-> {},
     lists |-> [l \in Lists |-> <<>>], numbers |-> [n \in Numbers |-> 0], thrown |-> FALSE]

\* The conversion to the type of the member: a line of 32 bits and a port of 16.
Narrow(field, n) ==
    CASE field = "break_at" -> n % 2 ^ LineWidth
      [] field = "dap_port" -> n % 2 ^ PortWidth
      [] OTHER              -> n

\* parse_vector_opt, parse_string_opt, parse_numeric_opts.
Take(args, field, value) ==
    CASE field \in Lists -> [args EXCEPT !.lists[field] = Append(@, value)]
      [] field = "backend_name" -> [args EXCEPT !.backend_name = value]
      [] field \in Numbers /\ value \in DOMAIN Number ->
             [args EXCEPT !.numbers[field] = Narrow(field, Number[value])]
      [] OTHER -> [args EXCEPT !.thrown = TRUE]

\* parse_positional_arg, parse_trailing_args.
Dashed(arg) == arg \in Unknown \/ Option(arg) # None
Positional(args, arg) ==
    IF args.host_binary = None THEN [args EXCEPT !.host_binary = arg]
                               ELSE [args EXCEPT !.host_args = Append(@, arg)]

\* The loop of parse_arguments() at the argument k.  value says that this argument
\* was the value of the option before it, rest that a "--" was seen.
Looking == [args |-> NoArgs, value |-> FALSE, rest |-> FALSE]

\* Wrong variant: options are looked for among the host program's arguments too.
ParseOneGreedy(s, argv, k) ==
    LET field == Option(argv[k]) IN
    IF s.value THEN [s EXCEPT !.value = FALSE]
    ELSE CASE field \in Flags -> [s EXCEPT !.args.flags = @ \cup {field}]
           [] field \in Valued /\ k < Len(argv) ->
                  [s EXCEPT !.args = Take(s.args, field, argv[k + 1]), !.value = TRUE]
           [] argv[k] = "--" /\ ~s.rest -> [s EXCEPT !.rest = TRUE]
           [] OTHER -> [s EXCEPT !.args = Positional(s.args, argv[k])]

ParseOne(s, argv, k) ==
    LET field == Option(argv[k])
        positional == [s EXCEPT !.args = Positional(s.args, argv[k])]
    IN IF s.args.thrown \/ s.value THEN [s EXCEPT !.value = FALSE]
       ELSE IF s.rest \/ s.args.host_binary # None THEN positional
       ELSE CASE field \in Flags -> [s EXCEPT !.args.flags = @ \cup {field}]
              [] field \in Valued /\ k < Len(argv) ->
                     [s EXCEPT !.args = Take(s.args, field, argv[k + 1]), !.value = TRUE]
              [] argv[k] = "--" -> [s EXCEPT !.rest = TRUE]
              [] OTHER -> IF Dashed(argv[k]) THEN s ELSE positional

parse_arguments(argv) ==
    LET after[k \in 0 .. Len(argv)] == IF k = 0 THEN Looking ELSE ParseOne(after[k - 1], argv, k)
    IN after[Len(argv)].args

\* What main() and run_dry_run() do.
has_ocldbg_specific_args(args) ==
    \/ {"show_wg_bounds", "track_wg", "inspect_vars"} \cap args.flags # {}
    \/ args.numbers["break_at"] > 0 \/ args.numbers["break_for"] > 0
    \/ args.lists["print_exprs"] # <<>>
Mode(args) ==
    IF args.thrown THEN "abort"
    ELSE IF "show_version" \in args.flags THEN "version"
    ELSE IF "show_help" \in args.flags THEN "help"
    ELSE IF "dry_run" \in args.flags
    THEN IF args.host_binary = None THEN "usage"
         ELSE IF args.backend_name = "oclgrind" THEN "oclgrind_session" ELSE "dry_run"
    ELSE IF has_ocldbg_specific_args(args) THEN "error"
    ELSE IF "dap_mode" \in args.flags \/ args.numbers["dap_port"] > 0 THEN "dap" ELSE "cli"

=============================================================================
