------------------------------- MODULE Console -------------------------------
(***************************************************************************)
(* The terminal client (cli.cpp, CustomCommands.cpp) over the debugger     *)
(* (DebuggerContext.cpp): commands from the command line and from the user,*)
(* of which "ocl ..." is ocldbg's and everything else LLDB's; the program, *)
(* which LLDB runs and stops on its own; and the callback that puts the    *)
(* kernel's breakpoints in place behind LLDB's back.                       *)
(*                                                                         *)
(* A command is the sequence of its words.  A place is where a thread is   *)
(* and, in the host program or the kernel's module, at which address; only *)
(* addresses of the line table tell places apart.  Threads are numbered as *)
(* LLDB lists them, the main thread first.                                 *)
(***************************************************************************)
EXTENDS ProgramArgs, DWARFSourceModel, CPUVariables, WorkItems, FiniteSets
LOCAL INSTANCE SequencesExt

CONSTANTS
    NumWorkers,   \* threads of pocl
    MaxGroups,    \* work-groups of the kernel
    MaxTyped,     \* bound on the commands the user types
    CommandLines, \* command lines of ocldbg
    Typed,        \* commands the user may type
    Words,        \* Words[s]: the words of an argument that is a command
    Sourced,      \* Sourced[f]: what the LLDB commands in file f come to
    Binaries,     \* the host programs LLDB can make a target of
    LocationOf,      \* LocationOf[w]: the file and line in a word that is a location
    Rows,         \* Rows[m]: the line table of module m
    Mapped        \* the file addresses in the sections of the kernel's module

ASSUME ConsoleAssumption == NumWorkers \in Nat /\ MaxGroups \in Nat /\ MaxTyped \in Nat
ASSUME RowAssumption ==
    /\ {"host", "kernel"} \subseteq DOMAIN Rows \cap DOMAIN Scope
    /\ \A m \in DOMAIN Rows : \A k \in DOMAIN Rows[m] : Rows[m][k].address \in Nat \ {0}
    /\ \A k \in DOMAIN Rows["kernel"] : Rows["kernel"][k].address \in Mapped

main == 1
Workers == 2 .. NumWorkers + 1
Threads == {main} \cup Workers

VARIABLES
    script,       \* the commands of the command line still to be given
    batch,        \* config.batch
    typed,        \* how many commands were typed
    pc,           \* "read", "running" (in LLDB's run or continue), "end"
    target,       \* LLDB has a target
    process,      \* "none", "running", "stopped", "exited"
    dwarf,        \* the module whose DWARF dwarf_model holds
    bps,          \* ocl_breakpoints, with the line that was "asked" for
    next_id,      \* next_ocl_bp_id
    trampoline,   \* ocl_trampoline_bp is there
    tracker,      \* wg_tracker: the group of each thread it knows
    selected,     \* the thread of selected_work_item
    lldb_thread,  \* LLDB's selected thread
    cache,        \* s_param_cache
    shown,        \* the variables the last command showed
    at, group,    \* threads: where they are, the work-group they run
    reason,       \* threads: LLDB's stop reason
    groups,       \* groups no worker has taken
    loaded,       \* the kernel's module is loaded
    past          \* history: variables "peeked" at in the host program, the program
                  \* run by a command that was "missed"

inputVars == <<script, batch, typed>>
bpVars == <<dwarf, bps, next_id, trampoline>>
itemVars == <<tracker, selected>>
varVars == <<cache, shown>>
hostVars == <<at, group, groups, loaded>>
vars == <<inputVars, pc, target, process, bpVars, itemVars, lldb_thread, varVars, hostVars,
          reason, past>>

Place(p) == <<p, 0>>
NothingShown == [now |-> NoReading, values |-> [n \in Names |-> NoReading]]

\* execute_pre_session_commands(): what the command line says, in this order.
Commands(strings) == [k \in DOMAIN strings |-> Words[strings[k]]]
Sources(files) == [k \in DOMAIN files |-> <<"command", "source", files[k]>>]
PreSession(args) ==
    Sources(args.lists["source_before"]) \o Commands(args.lists["one_line_before"])
      \o (IF args.host_binary = None THEN <<>>
          ELSE <<<<"target", "create", args.host_binary>>>>
                 \o (IF args.host_args = <<>> THEN <<>>
                     ELSE <<<<"settings", "set", "--", "target.run-args">> \o args.host_args>>))
      \o Sources(args.lists["source_after"]) \o Commands(args.lists["one_line_after"])

Init ==
    /\ \E argv \in CommandLines :
         /\ Mode(parse_arguments(argv)) = "cli"
         /\ script = PreSession(parse_arguments(argv))
         /\ batch = ("batch_mode" \in parse_arguments(argv).flags)
    /\ typed = 0 /\ pc = "read" /\ target = FALSE /\ process = "none"
    /\ dwarf = NoModule /\ bps = {} /\ next_id = 1 /\ trampoline = FALSE
    /\ tracker = <<>> /\ selected = NoThread /\ lldb_thread = main
    /\ cache = [n \in Names |-> NoReading] /\ shown = NothingShown
    /\ at = [t \in Threads |-> Place(IF t = main THEN "start" ELSE "idle")]
    /\ group = [t \in Threads |-> 0] /\ reason = [t \in Threads |-> "none"]
    /\ groups = MaxGroups /\ loaded = FALSE /\ past = {}

-----------------------------------------------------------------------------
(* Breakpoints.                                                            *)

\* find_kernel_module() and load_kernel_dwarf().
load_kernel_dwarf == IF dwarf = NoModule /\ target /\ loaded THEN "kernel" ELSE dwarf

IsKernelFile(file) == file = <<>> \/ IsKernelPath(file)

\* resolve_host_breakpoint(), by LLDB's own lookup; resolve_one_breakpoint() takes
\* an address of the loaded DWARF for one of the kernel's module.
ResolvedIn(bp, d) ==
    LET host == resolve_one_breakpoint(Rows["host"], bp)
        kernel == resolve_one_breakpoint(Rows[d], bp)
    IN CASE ~bp.resolved /\ ~IsKernelFile(bp.file) /\ host.resolved ->
              [bp EXCEPT !.resolved = TRUE, !.address = <<"host", host.address>>]
         [] ~bp.resolved /\ IsKernelFile(bp.file) /\ loaded /\ process # "exited"
              /\ kernel.resolved /\ kernel.address \in Mapped ->
              [bp EXCEPT !.resolved = TRUE, !.address = <<"kernel", kernel.address>>,
                         !.line = kernel.line]
         [] OTHER -> bp

resolve_pending(entries, d) ==
    IF target THEN {ResolvedIn(bp, d) : bp \in entries} ELSE entries

Armed == {bp.address : bp \in {bp \in bps : bp.resolved}}

NewBreakpoint(loc) ==
    [id |-> next_id, file |-> loc.file, line |-> loc.line, asked |-> loc.line,
     resolved |-> FALSE, address |-> Place(NoModule)]

\* Wrong variant: breakpoints are numbered by how many there are.
add_ocl_breakpoint_counting(loc) ==
    /\ dwarf' = load_kernel_dwarf
    /\ bps' = resolve_pending(bps \cup {NewBreakpoint(loc)}, dwarf')
    /\ next_id' = Cardinality(bps) + 1
    /\ trampoline' = (trampoline \/ target)

\* add_ocl_breakpoint() and delete_ocl_breakpoint().
add_ocl_breakpoint(loc) ==
    /\ dwarf' = load_kernel_dwarf
    /\ bps' = resolve_pending(bps \cup {NewBreakpoint(loc)}, dwarf')
    /\ next_id' = next_id + 1
    /\ trampoline' = (trampoline \/ target)

delete_ocl_breakpoint(id) ==
    /\ bps' = {bp \in bps : bp.id # id}
    /\ UNCHANGED <<dwarf, next_id, trampoline>>

-----------------------------------------------------------------------------
(* Commands.                                                               *)

\* The commands of the command line come first, all of them; then the user's, or
\* the end.
Given(cmd) ==
    /\ pc = "read"
    /\ \/ /\ script # <<>> /\ cmd = Head(script) /\ script' = Tail(script) /\ UNCHANGED typed
       \/ /\ script = <<>> /\ ~batch /\ typed < MaxTyped /\ cmd \in Typed
          /\ typed' = typed + 1 /\ UNCHANGED script
    /\ UNCHANGED batch

\* "ocl" and what follows it; "wi" and "workitem" may be followed by "select".
Verb(cmd) ==
    IF cmd[1] # "ocl" \/ Len(cmd) = 1 THEN None
    ELSE CASE cmd[2] \in {"break", "b"}      -> "break"
           [] cmd[2] \in {"print", "p"}      -> "print"
           [] cmd[2] \in {"vars", "v"}       -> "vars"
           [] cmd[2] \in {"workitem", "wi", "select"} -> "select"
           [] OTHER                          -> None
Operands(cmd) ==
    IF cmd[2] \in {"workitem", "wi"} /\ Len(cmd) > 2 /\ cmd[3] = "select"
    THEN SubSeq(cmd, 4, Len(cmd)) ELSE SubSeq(cmd, 3, Len(cmd))
Deletes(ops) == Len(ops) > 1 /\ ops[1] \in {"delete", "del"}
IsList(ops) == ops = <<>> \/ ops = <<"list">>
NumberAt(ops, k) == IF k <= Len(ops) /\ ops[k] \in DOMAIN Number THEN Number[ops[k]] ELSE 0

\* handle_break_command(): "delete" on its own is taken for a location.
HandleBreak(cmd) ==
    LET ops == Operands(cmd) IN
    /\ Given(cmd) /\ Verb(cmd) = "break"
    /\ CASE Deletes(ops) /\ ops[2] \in DOMAIN Number -> delete_ocl_breakpoint(Number[ops[2]])
         [] ~Deletes(ops) /\ ~IsList(ops) /\ ops[1] \in DOMAIN LocationOf ->
                add_ocl_breakpoint(LocationOf[ops[1]])
         [] OTHER -> UNCHANGED bpVars
    /\ shown' = NothingShown
    /\ UNCHANGED <<pc, target, process, itemVars, lldb_thread, cache, hostVars, reason, past>>

Stopped == {t \in Threads : reason[t] # "none"}

\* What LLDB reads at a stop: a thread's registers may have been used again.
Frames(clobbered) ==
    [t \in Threads |-> [stopped |-> t \in Stopped, readable |-> TRUE, local_var |-> {},
                        global_var |-> {}, r10 |-> 0, rsi |-> 0,
                        group |-> Triple(IF t \in clobbered THEN MaxGroups ELSE group[t], 0, 0)]]

\* handle_select_command()
HandleSelect(cmd) ==
    LET ops == Operands(cmd)
        id == Triple(NumberAt(ops, 1), NumberAt(ops, 2), NumberAt(ops, 3))
    IN /\ Given(cmd) /\ Verb(cmd) = "select"
       /\ IF process # "stopped" THEN UNCHANGED <<itemVars, lldb_thread>>
          ELSE \E clobbered \in SUBSET Stopped :
            LET threads == Frames(clobbered) IN
            \/ /\ IsList(ops)
               /\ tracker' = record_wgs(tracker, threads, Stopped)
               /\ UNCHANGED <<selected, lldb_thread>>
            \/ /\ ~IsList(ops) /\ ops[1] \in DOMAIN Number
               /\ tracker' = TrackerAfter(threads, NotInferred, tracker, id)
               /\ \E wi \in select_work_item(threads, NotInferred, tracker, id) :
                    IF wi.thread = NoThread THEN UNCHANGED <<selected, lldb_thread>>
                    ELSE selected' = wi.thread /\ lldb_thread' = wi.thread
            \/ /\ ~IsList(ops) /\ ops[1] \notin DOMAIN Number
               /\ UNCHANGED <<itemVars, lldb_thread>>
       /\ shown' = NothingShown
       /\ UNCHANGED <<pc, target, process, bpVars, cache, hostVars, reason, past>>

\* inspect_current_frame_variables(): the frame of the selected work-item, however
\* long ago it was selected, if its thread is still in it; or that of a stop.
Inspected ==
    CASE selected # NoThread -> selected
      [] selected = NoThread /\ lldb_thread \in Stopped -> lldb_thread
      [] OTHER -> First(Stopped)
InFrame(t) == at[t][1] \in {"host", "kernel"} \/ (t = main /\ at[t][1] = "waiting")
Reading(t) ==
    [thread |-> t, group |-> group[t],
     place |-> IF t = main THEN <<"host", at[t][2]>> ELSE at[t]]

\* inspect_variables() at a frame.  The kernel's DWARF is looked for first; then the
\* resolver takes that of the frame's module.
InspectVariables(now) ==
    /\ dwarf' = ensure_loaded(load_kernel_dwarf, now.place)
    /\ shown' = [now |-> now, values |-> Shown(dwarf', now, cache)]
    /\ cache' = Learnt(dwarf', now, cache)
    /\ past' = past \cup (IF dwarf' = "host" THEN {"peeked"} ELSE {})

\* handle_vars_command(), and handle_print_command(), which looks at all of them too.
HandleVars(cmd) ==
    /\ Given(cmd)
    /\ Verb(cmd) = "vars" \/ (Verb(cmd) = "print" /\ Operands(cmd) # <<>>)
    /\ \/ /\ process = "stopped" /\ InFrame(Inspected) /\ InspectVariables(Reading(Inspected))
       \/ /\ process = "stopped" /\ ~InFrame(Inspected)
          /\ dwarf' = load_kernel_dwarf /\ shown' = NothingShown /\ UNCHANGED <<cache, past>>
       \/ /\ process # "stopped" /\ shown' = NothingShown /\ UNCHANGED <<dwarf, cache, past>>
    /\ UNCHANGED <<pc, target, process, bps, next_id, trampoline, itemVars, lldb_thread>>
    /\ UNCHANGED <<hostVars, reason>>

\* An "ocl" command that is nothing, or lacks its operand.
HandleOther(cmd) ==
    /\ Given(cmd) /\ cmd[1] = "ocl"
    /\ Verb(cmd) = None \/ (Verb(cmd) = "print" /\ Operands(cmd) = <<>>)
    /\ shown' = NothingShown
    /\ UNCHANGED <<pc, target, process, bpVars, itemVars, lldb_thread, cache, hostVars, reason, past>>

\* The commands before which ocldbg sets its trampoline, by their spelling.
IsPrefixOf(words, cmd) == Len(words) <= Len(cmd) /\ SubSeq(cmd, 1, Len(words)) = words
Prepares(cmd) ==
    \/ cmd \in {<<"r">>, <<"c">>} \/ cmd[1] \in {"run", "continue"}
    \/ IsPrefixOf(<<"process", "launch">>, cmd)

\* What LLDB takes a command for.
Meant(cmd) == IF IsPrefixOf(<<"command", "source">>, cmd) THEN Sourced[cmd[3]] ELSE cmd
Creates(cmd) == IsPrefixOf(<<"target", "create">>, cmd) /\ cmd[3] \in Binaries
Runs(cmd) == cmd[1] \in {"r", "run"} \/ IsPrefixOf(<<"process", "launch">>, cmd)
Continues(cmd) == cmd[1] \in {"c", "continue"}
Goes(cmd) ==
    \/ Runs(Meant(cmd)) /\ target /\ process = "none"
    \/ Continues(Meant(cmd)) /\ process = "stopped"

\* A command for LLDB.  The program is launched once.
HandleLLDB(cmd) ==
    /\ Given(cmd) /\ cmd[1] \notin {"ocl", "quit"}
    /\ Runs(Meant(cmd)) => process = "none"
    /\ target' = (target \/ Creates(Meant(cmd)))
    /\ trampoline' = (trampoline \/ (Prepares(cmd) /\ target))
    /\ IF Goes(cmd)
       THEN /\ pc' = "running" /\ process' = "running"
            /\ reason' = [t \in Threads |-> "none"]
            /\ past' = past \cup (IF trampoline' THEN {} ELSE {"missed"})
       ELSE UNCHANGED <<pc, process, reason, past>>
    /\ shown' = NothingShown
    /\ UNCHANGED <<dwarf, bps, next_id, itemVars, lldb_thread, cache, hostVars>>

\* Only the user's "quit" ends the session; in the command line it is LLDB's.
IgnoreQuit ==
    /\ Given(<<"quit">>) /\ script # <<>>
    /\ shown' = NothingShown
    /\ UNCHANGED <<pc, target, process, bpVars, itemVars, lldb_thread, cache, hostVars, reason, past>>

\* The user's "quit", the end of the input, or that of a batch.  The destructor of
\* the debugger kills what is left of the program.
EndSession ==
    /\ pc = "read" /\ script = <<>> /\ pc' = "end"
    /\ process' = IF process = "stopped" THEN "exited" ELSE process
    /\ UNCHANGED <<inputVars, target, bpVars, itemVars, lldb_thread, varVars, hostVars, reason, past>>

Client ==
    \/ EndSession \/ IgnoreQuit
    \/ \E cmd \in Typed \cup ToSet(script) :
         HandleBreak(cmd) \/ HandleSelect(cmd) \/ HandleVars(cmd) \/ HandleOther(cmd)
           \/ HandleLLDB(cmd)

-----------------------------------------------------------------------------
(* The program: the main thread passes the lines of the host program,      *)
(* enqueues the kernel and waits; workers run the groups.                  *)

Addresses(m) == {Rows[m][k].address : k \in {k \in DOMAIN Rows[m] : ~Rows[m][k].end}}

Go(t, place) ==
    /\ process = "running" /\ reason[t] = "none"
    /\ at' = [at EXCEPT ![t] = place]
    /\ reason' = [reason EXCEPT ![t] = IF place \in Armed THEN "breakpoint" ELSE "none"]
    /\ UNCHANGED <<inputVars, pc, target, process, next_id, trampoline, selected, lldb_thread>>
    /\ UNCHANGED <<varVars, past>>

NextHostLine ==
    /\ at[main][1] \in {"start", "host"}
    /\ \E a \in Addresses("host") : a > at[main][2] /\ Go(main, <<"host", a>>)
    /\ UNCHANGED <<dwarf, bps, tracker, group, groups, loaded>>

\* pocl loads the kernel's module.
Enqueue ==
    /\ at[main][1] = "host" /\ Go(main, <<"waiting", at[main][2]>>) /\ loaded' = TRUE
    /\ UNCHANGED <<dwarf, bps, tracker, group, groups>>

TakeGroup(t) ==
    /\ loaded /\ at[t] = Place("idle") /\ groups > 0 /\ Go(t, Place("entry"))
    /\ group' = [group EXCEPT ![t] = MaxGroups - groups] /\ groups' = groups - 1
    /\ UNCHANGED <<dwarf, bps, tracker, loaded>>

\* Wrong variant: the callback only records the group.
EnterBodyRecording(t) ==
    /\ at[t] = Place("entry") /\ Go(t, Place("kernel"))
    /\ UNCHANGED <<dwarf, bps>>
    /\ IF trampoline THEN tracker' = record_wgs(tracker, Frames({}), {t}) ELSE UNCHANGED tracker
    /\ UNCHANGED <<group, groups, loaded>>

\* A worker passes the trampoline: its callback resolves and records, and lets the
\* worker go on.
EnterBody(t) ==
    /\ at[t] = Place("entry") /\ Go(t, Place("kernel"))
    /\ IF trampoline
       THEN /\ dwarf' = load_kernel_dwarf /\ bps' = resolve_pending(bps, dwarf')
            /\ tracker' = record_wgs(tracker, Frames({}), {t})
       ELSE UNCHANGED <<dwarf, bps, tracker>>
    /\ UNCHANGED <<group, groups, loaded>>

NextLine(t) ==
    /\ at[t][1] = "kernel"
    /\ \E a \in Addresses("kernel") : a > at[t][2] /\ Go(t, <<"kernel", a>>)
    /\ UNCHANGED <<dwarf, bps, tracker, group, groups, loaded>>

LeaveKernel(t) ==
    /\ at[t][1] = "kernel" /\ Go(t, Place("idle"))
    /\ UNCHANGED <<dwarf, bps, tracker, group, groups, loaded>>

KernelDone == groups = 0 /\ \A t \in Workers : at[t] = Place("idle")
HostExits ==
    /\ process = "running" /\ at[main][1] = "waiting" /\ KernelDone /\ Stopped = {}
    /\ process' = "exited" /\ pc' = "read"
    /\ UNCHANGED <<inputVars, target, bpVars, itemVars, lldb_thread, varVars, hostVars, reason, past>>

\* LLDB's run or continue returns when the program has stopped as a whole.
Stop ==
    /\ process = "running" /\ Stopped # {}
    /\ process' = "stopped" /\ pc' = "read" /\ lldb_thread' \in Stopped
    /\ UNCHANGED <<inputVars, target, bpVars, itemVars, varVars, hostVars, reason, past>>

Program ==
    \/ NextHostLine \/ Enqueue \/ HostExits \/ Stop
    \/ \E t \in Workers : TakeGroup(t) \/ EnterBody(t) \/ NextLine(t) \/ LeaveKernel(t)

Next == Client \/ Program

Spec == Init /\ [][Next]_vars

-----------------------------------------------------------------------------
\* The places variables are read at.
Places == {<<m, a>> : m \in {"host", "kernel"}, a \in {0} \cup Addresses("host") \cup Addresses("kernel")}
Readings == [thread : Threads, group : 0 .. MaxGroups, place : Places] \cup {NoReading, Garbage}

TypeOK ==
    /\ batch \in BOOLEAN /\ typed \in 0 .. MaxTyped /\ pc \in {"read", "running", "end"}
    /\ target \in BOOLEAN /\ process \in {"none", "running", "stopped", "exited"}
    /\ dwarf \in {NoModule, "host", "kernel"} /\ next_id \in Nat \ {0} /\ trampoline \in BOOLEAN
    /\ \A bp \in bps : bp.id \in 1 .. next_id - 1 /\ bp.resolved \in BOOLEAN
    /\ \A bp, other \in bps : bp.id = other.id => bp = other
    /\ DOMAIN tracker \subseteq Threads /\ selected \in Threads \cup {NoThread}
    /\ lldb_thread \in Threads
    /\ cache \in [Names -> Readings]
    /\ shown.now \in Readings /\ shown.values \in [Names -> Readings]
    /\ group \in [Threads -> 0 .. MaxGroups] /\ reason \in [Threads -> {"none", "breakpoint"}]
    /\ groups \in 0 .. MaxGroups /\ loaded \in BOOLEAN /\ past \subseteq {"peeked", "missed"}

\* The user's breakpoints that mean the line at an address of the kernel.
Asked(bp) == resolve_one_breakpoint(Rows["kernel"], [file |-> bp.file, line |-> bp.asked])
Means(bp, place) ==
    IsKernelFile(bp.file) /\ Asked(bp).resolved /\ place = <<"kernel", Asked(bp).address>>
ArrivesUnnoticed(t) ==
    /\ at'[t] # at[t] /\ reason'[t] = "none"
    /\ \E bp \in bps : Means(bp, at'[t])

(***************************************************************************)
(* A breakpoint on a line of the kernel, set on the command line, before   *)
(* the program runs or at a stop, and not deleted, stops every worker that *)
(* arrives at the line: commands that run the program have the trampoline  *)
(* set, and its callback comes before the line and finds the kernel's      *)
(* module (cli.cpp:30-33, DebuggerContext.cpp:584-599, 793).  It takes     *)
(* that the program was run by a command ocldbg knows, and that variables  *)
(* were not looked at in the host program before.                          *)
(***************************************************************************)
BreakpointStops ==
    [][past = {} => \A t \in Workers : ~ArrivesUnnoticed(t)]_vars

(***************************************************************************)
(* "Attempt to resolve any pending OpenCL breakpoints using currently      *)
(* loaded modules" (DebuggerContext.h:89), with DWARF information "from    *)
(* the loaded kernel module" (DebuggerContext.h:74): the same, whatever    *)
(* was looked at before.                                                   *)
(***************************************************************************)
BreakpointStopsAfterALook ==
    [][past \subseteq {"peeked"} => \A t \in Workers : ~ArrivesUnnoticed(t)]_vars

(***************************************************************************)
(* At a place in the kernel, every variable of the kernel that LLDB or its *)
(* location gives there is shown with the value it has there and then, in  *)
(* the inspected thread, and never with one that was seen at another stop, *)
(* of another thread or group (PoclCPUBackend.cpp:546-583,                 *)
(* OCLVariableResolver.cpp:67-100); unless the host program's DWARF was    *)
(* loaded first.                                                           *)
(***************************************************************************)
ReadableIsShown ==
    LET here == shown.now.place IN
    (here[1] = "kernel" /\ "peeked" \notin past) =>
        \A n \in Scope["kernel"] \cap (Gives[here] \cup Located[here]) : shown.values[n] = shown.now

=============================================================================
