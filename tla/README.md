# ocldbg: a verification development

TLA+ models of `ocldbg`, a debugger for OpenCL C kernels, with the TLC runs that check
them and proofs checked by TLAPS. It is kept beside the C++ source; every definition that
stands for code is listed in `PROJECT.json` under `map` with the lines it models. Paths
below are relative to `src/ocldbg/` unless they start with `src/`.

## 1. Inventory of the system

`ocldbg` debugs a host program that enqueues OpenCL kernels. It has two backends behind one
interface (`src/include/ocldbg/Backend.h`): PoCL on the CPU through LLDB, and Oclgrind through a
plugin inside the host process. Clients are a terminal, a dry run on the command line, and
editors over the Debug Adapter Protocol (DAP).

| Component | State | Operations | Interacts with |
|---|---|---|---|
| Oclgrind plugin (`backends/oclgrind/plugin/DebugPlugin.cpp`) | socket, breakpoints by id and by line, last halted line per work-item, stepped work-item, mode, invocation | connect, callbacks of the interpreter (kernel begin and end, instruction), `serve()` with every command | the backend, over a socket; the interpreter, by callbacks |
| Oclgrind backend (`OclgrindBackend.cpp`) | socket, child, breakpoints, `next_bp_id`, `halted`, the work-item of the stop | launch, detach, breakpoints, resume, steps, select, evaluate, read memory | the plugin; its client, by the stop callback |
| Oclgrind protocol (`OclgrindProtocol.h`) | the lines under way in each direction | send and receive a line | both ends |
| Oclgrind session (`OclgrindSession.cpp`) | hits, the limit on them | `run_oclgrind_session()` | the Oclgrind backend |
| Backend interface (`src/include/ocldbg/Backend.h`, `OCLWorkItem.h`) | none: a contract | the calls of a backend | every client, both backends |
| DAP server (`dap/DAPServer.cpp`) | sequence number, threads, references, the stop, the selected work-item, `running` | one handler per DAP request, the stop callback | an editor, over a stream; a backend, by blocking calls |
| NDRange inference (`DebuggerContext.cpp`, `backends/cpu/CPUABI.cpp`) | none | arguments of `clEnqueueNDRangeKernel`, groups, sample work-items | dry run |
| Work-group tracking (`DebuggerContext.cpp`, `WorkGroupTracker.cpp`) | the group of each thread, dispatches, line hits | `track_workgroup_dispatches()` | LLDB, pocl's workers |
| Breakpoints of the CPU debugger (`DebuggerContext.cpp`, `PoclCPUBackend.cpp`) | pending breakpoints, two id spaces, the debugger's own breakpoints, the inferred launch | set, remove, resolve, launch, `continue_execution()`, steps | LLDB, the trampoline callback |
| CPU variable evaluation (`backends/cpu/PoclCPUBackend.cpp`, `WIContextExtractor.cpp`, `CPUABI.cpp`) | the cache of parameters, the tracker | evaluate a variable, its location expression, ids of work-items from registers, list and select work-items | LLDB, the DWARF source model |
| DWARF source model (`dwarf/DWARFSourceModel.cpp`) | the DWARF of one module, read once | line to addresses and back, next line with code, variables in scope, names of types | breakpoints, variables |
| OpenCL debug model (`ocl_debug_model/`) | which module's DWARF is loaded | the variables of a frame, vector types | variables |
| Command line (`main.cpp`, `args.cpp`, `cli.cpp`, `CustomCommands.cpp`) | arguments, the commands still to run | parse, choose the mode, run the commands before the terminal, then a terminal with `ocl ...` commands among LLDB's | the debugger (`DebuggerContext`), LLDB |
| Runtime injection, editor extension, examples | none | stubs, configuration, inputs | - |

What is hard, and what makes each component correct:

* **Oclgrind backend and plugin.** Two processes block on each other over a protocol without
  request ids. Either may die at any point; a stale reply, a breakpoint known to one side only, a
  step sent after its work-item could not be selected, or a wait for a process that waits in turn
  would all look like an unrelated failure to the user. Correct: replies belong to requests; both
  ends agree on breakpoints, on the current work-item and on whether the interpreter is halted;
  stops are the ones asked for; calls return; the host finishes when the debugger goes.
* **DAP server.** It reads nothing while the target runs, queues requests meanwhile, and numbers
  frames, scopes and variables in one space. A client may close its end at any time, and a write to it
  then kills the server. Correct: the stream is in order, references name the thread they came from, a
  disconnect is obeyed.
* **Work-group tracking.** Any number of threads stop together, for different reasons, and one kind
  of stop is handled at a time. Correct: every dispatch is counted, a line is reported as often as
  asked and for the group that runs.
* **CPU breakpoints.** Kernel lines have no address before the kernel's module is loaded, which
  happens after the launch, and the debugger has stops of its own that it must hide without hiding
  the user's. Correct: breakpoints are in place in time, ids mean the same on both sides, no user
  stop is passed over.
* **NDRange inference.** Rounding up and cutting off. Correct: the groups partition the range.
* **Variables and DWARF.** A value comes from LLDB, a location expression, a cache filled at another
  stop or another name, in this order; DWARF is read once, from the module somebody asked about
  first; the tracker remembers groups of threads that have moved on. Correct: what is shown is the
  value there and then, of the selected work-item; a location means the bytes it names whatever the
  length of its operands; a breakpoint goes to the line or the next one with code.
* **Command line.** LLDB runs the program for some commands that ocldbg must recognise by their
  spelling to set its trampoline in time, and the trampoline's callback changes the breakpoints
  while the command runs. Correct: a breakpoint that was typed at any time before stops the kernel; an
  argument of the host program is never an option of `ocldbg`.

`PROJECT.json` lists each hazard at its line with the properties aimed at it, and those that no
property covers with the reason.

## 2. Modules and how they correspond to the code

```
OclgrindProtocol ── OclgrindPlugin ──┐
       └─────────── OclgrindBackend ─┴─ OclgrindLink ── OclgrindSession
                                            │ implements
                                       DebuggerContract
PoclBackend ── implements ── TransparentDebugger
DAPServer              NDRange ── WorkGroupTracking
ProgramArgs ──────┬─ Console (with CPUVariables)
DWARFSourceModel ─┤
WorkItems ────────┴─ Lookups (with DWARFExpressions)
```

* `OclgrindProtocol`: the lines of the protocol as records, the two directions of the socket as
  sequences, the two descriptors, end of stream and SIGPIPE. Splitting bytes at newlines is left out.
* `OclgrindPlugin`: one action per callback of the interpreter and one (`Serve`) for a command,
  whose alternatives are the branches of `serve()`. `Execute(wi, line, depth)` is
  `instructionExecuted()` with `should_halt()`. The interpreter and the host program are
  external: any unfinished work-item may execute next, at any line and call depth.
* `OclgrindBackend`: every call, cut where the process blocks. `dpc` says where it waits
  (`accept`, the handshake, a reply, the event after a resume, the end of the child); `after` says
  what the call does next. The wait for the plugin ends by a connection (`Accept`), by the `waitpid()` in its loop that finds
  the host ended (`HostEndedFirst`), or by a `poll()` or `accept()` that fails (`PollFails`).
* `OclgrindLink`: the two processes, calls of any client, and the death of either process.
* `DebuggerContract`: what a client may rely on: the debugger is free, halted or running; at a halt
  the kernel does not move; only a resume lets it go.
* `OclgrindSession`: `run_oclgrind_session()` as the client of the link, one action per
  statement that calls the backend.
* `DAPServer`: a client that sends requests ahead of the answers, the loop of `run()`, and one
  action per handler. A backend call that runs the target is the state `resuming`. `client` and
  `answered`, `stops`, `sent` are history: what the client has been told and expects. A client may close its end at any
  time (`HangUp`); nothing in the repository changes the action of SIGPIPE, so an answer or a stop that is
  written after that may kill the server (`KilledByWrite`), or be taken by the connection and lost.
* `NDRange`: the pure functions, `read_enqueue_ndrange()` to `compute_sample_work_items()`.
* `WorkGroupTracking`: the loop of `track_workgroup_dispatches()` against pocl's workers, each of
  which takes groups, reaches its breakpoints and stops alone or together with others. `setup`
  is a variable that never changes: one run covers many command lines and host programs.
* `PoclBackend`: `PoclCPUBackend` over `DebuggerContext`. A thread of the program is at a `place`
  (the host line, the enqueue, a dispatch, the entry of the work-group function, its body, a
  line). An address is a module and a line. `wg_breakpoint` says which of its three forms the
  debugger's breakpoint has. `HandleStop` is one turn of the loop of `continue_execution()`.
* `TransparentDebugger`: what a client of `PoclBackend` may believe, a debugger that has no
  breakpoints but the client's. Its `sites` are the resolved addresses of the client's breakpoints; a thread is
  at one or `Nowhere`; a thread that reaches one waits (`reached`) until the target halts and the client is
  told. In the mapping (`Target`, `Where`, `Reached` of `PoclBackend`) the target runs from a call until the
  call returns, however often LLDB stopped it in between, and the enqueue, a dispatch and the entry are nowhere.
* `ProgramArgs`: `parse_arguments()` as the states of its loop, one turn `ParseOne` after the other, and `Mode`, what
  `main()` and `run_dry_run()` do with the result. An argument is a string that is compared, never
  taken apart.
* `DWARFSourceModel`: a line table is the sequence of its rows, DIEs are a sequence, parents first. A path is
  the sequence of its parts, so that suffixes and the kernel's extension mean what they do in the code.
* `DWARFExpressions`: `eval_from_dwarf_expr()`, over words, ints and LEB128 bytes of fewer bits.
  A value is where it was read, how many bytes, and the offsets of the elements shown.
* `CPUVariables`: where a variable's value comes from. A value is the `Reading` it was read at: a
  thread, a place and a group; a value that says something of another module is `Garbage`.
* `WorkItems`: listing and selecting the work-items of a stop, with the tracker and the registers.
* `Lookups`: a question and its answer by the four modules it extends, each against what the
  question means: the reference definitions are in its properties.
* `Console`: the terminal client over the debugger and LLDB, against a program with a main thread and
  pocl's workers. `Given` takes the next command, from the command line or from the user; each
  command of `ocl` and LLDB's are an action (`HandleBreak`, `HandleSelect`, `HandleVars`, `HandleLLDB`). A
  worker is at a `Place`; `EnterBody` is the trampoline with its callback. `asked` in a
  breakpoint and `past` are history.
* `MC*` give the constants their values for TLC. Theorems (section 4) are in a module per component:
  `OclgrindLinkProofs`, `OclgrindSessionProofs` (which extends it), `DAPServerProofs`,
  `WorkGroupTrackingProofs`, `PoclBackendProofs`, `ConsoleProofs`, `LookupsProofs`; the last three
  extend `LeastElement`, which has lemmas about numbers.

Operators introduced as "Wrong variant" state a plausible bug next to the definition it would
be made in; no specification uses them. Each checked property was seen to fail when one of
them takes the place of the definition (`mutants` in `PROJECT.json`).

## 3. Runs

| Run | Module | Question and result |
|---|---|---|
| `link_safety` | MCOclgrindLink | every call in every order, both processes killable, one relaunch: replies paired (`RepliesMatch`, `AfterResume`), both ends agree (`BreakpointsAgree`, `SelectedIsCurrent`), stops are asked for, a first arrival at a breakpoint halts, and the pair implements `DebuggerContract`. Holds |
| `link_liveness` | MCOclgrindLink | the debugger may be killed, SIGPIPE ignored: every call returns, also the launch of a host that ends without connecting, and the host ends. Holds |
| `link_sigpipe` | MCOclgrindLink | the same with the default action of SIGPIPE: the host is killed. **Finding** |
| `session` | MCOclgrindSession | a session with a breakpoint and a limit, over two kernels: reports enough, lets the host finish, ends, also with a host that never connects. Holds |
| `session_loop` | MCOclgrindSession | a loop that comes back to the breakpoint: the second arrival does not halt. **Finding** |
| `dap` | MCDAPServer | requests pipelined two deep, and a client that may hang up: order, references, disconnect (`DisconnectEnds`: the server ends and leaves no program, or was killed writing to a client that had hung up). Holds |
| `tracking` | MCWorkGroupTracking | all small ranges, and runs of one and two workers: groups partition the range, counts and samples are right, dispatches counted, line hits bounded and complete. Holds |
| `tracking_lines` | MCWorkGroupTracking | a dispatch that coincides with a line hit is lost, and the group shown later is wrong. **Finding** |
| `pocl` | MCPoclBackend | two kernels, two workers, two breakpoints at any time: in place in time, ids agree, user stops not hidden, bounds from the enqueue, calls return, and the debugger implements `TransparentDebugger` (`HidesOwnStops`). Holds |
| `lookups` | MCLookups | every small command line is parsed back (`ParsesBack`); a breakpoint goes to the line, or the next with code, and never before (`BreakpointMovesForward`); every variable in scope is found by name, and in one unit no other name than of an inlined call (`ScopeComplete`); a location means the bytes it names (`ValueMeansLocation`); a listed work-item, selected, is the same thread's with the same ids, if its registers can be read, its groups have one row of items or it is in row 0 of groups, and it is the first listed that its group, or in row 0 its column, can be taken for (`ListedIsSelected`). Holds |
| `console` | MCConsole | batches, files of commands and a user: breakpoints stop every worker (`BreakpointStops`), a variable that can be read is shown with its value at the place looked at (`ReadableIsShown`). Holds |
| `console_vars` | MCConsole | after a look at the variables of the host program, breakpoints of the kernel stay pending. **Finding** |

### Findings

Each is a run that TLC ends with a counterexample, against a line of the repository's own
comments, quoted in `PROJECT.json`.

1. `link_sigpipe`: "let the host program run to completion" (`DebugPlugin.cpp:161`) is true of a
   debugger that goes away while the plugin serves. When it goes while the kernel runs, the next
   report is written to a closed socket and SIGPIPE ends the host.
2. `session_loop`: "report each breakpoint hit" (`OclgrindSession.h:16`); `should_halt()` compares
   with the line last *halted* at, so a loop over the line halts once per work-item.
3. `tracking_lines`: a stop with one thread at the line and another at its dispatch is
   handled as a line hit only, so the dispatch is not recorded and the group shown later is wrong.
4. `console_vars`: "Attempt to resolve any pending OpenCL breakpoints using currently loaded
   modules" (`DebuggerContext.h:89`); a look at variables before the kernel is loaded fills the
   one DWARF model with the host program's (`OCLVariableResolver.cpp:53-55`), and it stays.

Other behaviour that may surprise is in the models as the code has it, and is listed under
`hazards` with the reason why no property speaks of it: variables of a thread of the stop are
that thread's, also after `ocldbg/selectWorkItem`; the second enqueue counts as a dispatch; a
client is not told that a launch failed or that the program has ended; `setBreakpoints` only adds. Two more
are named by the conditions of properties that hold:

* `DisconnectEnds` leaves out the detach when the client has hung up before the server writes to it:
  `handle_disconnect()` answers before it calls `backend.detach()` (`DAPServer.cpp:509-510`), and the stop
  callback writes while the program is halted, so SIGPIPE ends `ocldbg` first. Backend.h:37 has detach "Called on
  debugger exit".
* `ListedIsSelected` leaves out a work-item in row 0 of groups when a thread in another row of the same column
  is listed before it: `match_wg()` takes row 0 for any row (`DebuggerContext.cpp:614`), so with threads
  in groups (0,1) and (0,0) the item (0,0,0), selected, is the thread of group (0,1). It also leaves out, in groups of
  several rows of items, the items of other rows of groups: the list multiplies the row by 1
  (`DebuggerContext.cpp:763`) and the selection divides it by the local size.

Some properties cover a hazard in part. Which breakpoint an id means after a removal before the launch
(`IdsAgree`), what is inferred at a step or a user stop before the enqueue (`InferredAtEnqueue`), a value from
the cache for a variable that cannot be read (`ReadableIsShown`), implicit values, whose length is an operand
(`ValueMeansLocation`), which of two variables of one name is shown (`ScopeComplete`) and an option at the end
of the command line without its value (`ParsesBack`) are in the models but outside these properties: the
repository does not say what should happen.

### Bounds, and why they are enough

* Link: two work-items and an id out of range, two breakpoints (so that two can share a line), two
  lines, two instructions of each kernel, one relaunch. The protocol is synchronous: an exchange
  that goes wrong needs one request, one resume and one more request, and a stale breakpoint
  needs one relaunch. Work-items are symmetric in `link_safety` (one group), where no liveness is
  checked. The liveness run has one line and one launch: waits do not depend on data.
* Session: two kernels, three hits wanted of at most four first arrivals, so that the limit
  is met in the middle of the second kernel.
* DAP: three requests after the handshake, two in flight: a request queued behind a resume, and one
  behind that.
* Tracking: ranges up to 5x3x2 with local sizes up to 3x2x2 include exact and cut-off groups,
  groups larger than the range and a local size of 0; the runs have up to four groups for two workers,
  so a worker takes a second group while the other is at a breakpoint.
* CPU breakpoints: two kernels (a launch that is inferred once and kept), two groups each for
  two workers, and two breakpoints of three locations: one on a line without code, one on a line, one in
  the host program.
* Lookups: each state is one question, so bounds are on its size: two options before the host
  program and two arguments after it; three rows of two files with one row past the end; up to four DIEs below a
  function, so that a block in an inlined call in a block occurs, and a second function with variables of the same names, in
  the same unit or in one of its own; words of 7 bits in LEB128
  bytes of 3, which leaves one bit in the last of three bytes as 64 bits leave one in the last of
  ten; two threads in groups of three dimensions, with local sizes of one row, of two and of 0 (which counts as 1), so that
  a group of the same column comes before and after the one that is selected.
* Console: five typed commands after one of six command lines: a breakpoint, a run, a selection, a look and
  a continue. Two workers and two groups, so that one worker enters the kernel while the other is stopped in
  it; two lines of the kernel, one of them with the address of a line of the host program.

### Fairness

Weak fairness of each process: the operating system schedules both, and `recv`, `accept`
and `waitpid` return when what they wait for is there. Nothing obliges `poll()` or `accept()` to fail: `PollFails`
is possible at any time but is no part of the fairness, so a wait for a host that never connects ends only
because `accept_plugin()` asks for the end of its child (`OclgrindBackend.cpp:71-87`); without that `CallsReturn` and
`SessionEnds` are violated (`HostReapedUnseen`). In addition a kernel is finite
(`Finish` of each work-item) and so is the host program (`HostExit`): without it no call that
waits for the target could be said to return. Nothing obliges a client to make another
call, or the environment to kill a process. In `dap`, a running target eventually stops or
ends (`DisconnectEnds` is not true of a target that runs for ever, since the server reads
nothing meanwhile); a write to a client that hung up goes either way. In `pocl` kernels do not loop.

### Assumptions of the models

* `SigPipeFatal` is TRUE, as in the code, in `link_safety`, `link_sigpipe` and `session_loop`; the
  two liveness runs take it as FALSE to ask about waiting alone.
* Tracking: a step into the kernel stops before the line, and a work-item passes the line once.
* DAP: requests are well-formed; the set of breakpoints is kept in the backend; a client names threads
  that every stop has (`ThreadAssumption`).
* Console: the program is launched once, LLDB's own breakpoint commands are not typed, and kernels do not loop. Rows of
  the kernel's line table have positive addresses inside its sections (`RowAssumption`). `BreakpointStops`
  takes that the program was run by a command ocldbg recognises (not from a sourced file) and
  that nobody looked at variables of the host program first; `past` records both, and `console_vars`
  shows that the second is needed.
* Lookups: a command line spells options as the code does, gives a value to those that take one and no number that its
  field cannot hold, and its host program is not spelled like an option unless "--" comes first (`IsCommandLine`): a
  larger number is narrowed without a word (`Narrow`), and a host program spelled like an option is one. The row that ends a sequence of a line table repeats the line and the file of an earlier row
  at a lower address, as compilers write it (`IsLineTable`); without that, a breakpoint that moved to such a
  row would be shown at the line it was asked for. A DIE comes after its parent, which is no variable, and belongs to
  a unit of the file (`IsInfo`); an address looked up is not 0, which `collect_die_vars()` takes for "any".
* CPU breakpoints: there is a kernel (`CodeLines # <<>>`). The debugger's breakpoints are a set of records whose ids
  grow in the order they were added, so that the backend's position in the code's vector is the `Rank` of
  an id. One launch; each line has an address of its own; the module found first is kernel 1's
  (the host executable is not named like a kernel); all threads may run during a step, which
  allows more than LLDB does. Properties that hold only without a step or a removal before the launch
  say so, by the history variable `past`.

`CHECK_DEADLOCK FALSE` is given everywhere: sessions end, and a client may stop making calls.

## 4. Proofs

Checked by TLAPS for every value of the constants that satisfies the named assumptions in the
modules (work-items are not "no work-item", lines are positive numbers, bounds are numbers, workers
are finitely many, a kernel's range is not empty).

* `OclgrindLinkProofs`: `Spec => []TypeOK`. `TypeOK` is not inductive: a breakpoint sent during
  `launch()` is a line of the protocol only if what is still to be registered is in the backend's map
  (`TodoRegistered`), and a step that is sent after its select must still know which step it is
  (`StepKnown`). `TypeInv` adds both. The proof has a lemma per group of actions (the plugin's
  commands, the interpreter, the calls, their progress, launch, deaths), each over lemmas about
  sequences of protocol lines (`AppendTypes`, `TailTypes`) and about the answers of the plugin.
* `OclgrindLinkProofs`, second half: every safety property the
  run `link_safety` checks of the link, the action property `FirstArrivalHalts` and the refinement
  `ImplementsContract`. None of them is inductive: whether a reply matches its request depends on
  what the plugin knew when the request left. The invariant is built in layers, each proved
  inductive over the ones before it:

  | Layer | What it says | Why it is needed |
  |---|---|---|
  | `EndsInv` | which ends of the socket exist, by where host and debugger are | a process that died must not look like one that has not started |
  | `PurposeInv` | what a request is for fits the request | only a break is sent for `launch()`, only a select for a step |
  | `PhaseInv` | for each place the debugger can be in, the lines under way and where the host is (`Greeting`, `Waiting`, `Asking`, `Resumed`) | one side never reads what the other has not meant for it; gives `AfterResume` |
  | `SelectionInv` | the interpreter's work-item is the backend's, but for a `Located` under way | gives `SelectedIsCurrent`; `print` answers for the right work-item |
  | `BreakpointInv` | ids of both ends agree but for those `launch()` has still to send (`Unregistered`) and the one under way (`Unheard`); an id that arrives is new, one that is deleted is known | gives `BreakpointsAgree` and, with the phases, `RepliesMatch`; an id that were not new would leave its old line armed |
  | `ModeInv` | the plugin's mode is the resumption it was sent, and it steps `stopped` | gives `StopsAreAskedFor` and `FirstArrivalHalts` |
  | `HaltInv` | `halted` means a linked plugin in `serve()`; a plugin that lost its channel has no debugger | a halted kernel stands still: the refinement |

  Each layer has a lemma per group of actions (`...Serve`, `...HostRuns`, `...Client`,
  `...Progress`). The proofs hold for both values of `SigPipeFatal`, for any `Killable` and for every
  bound. The refinement maps each step to a step of `DebuggerContract` or a stutter, with the mapping of
  `OclgrindLink` (`HostContract`, `ClientContract`, `ProgressContract`).
* `OclgrindSessionProofs`: every invariant of `session`, for every range, limit and number of
  kernels and for both values of `SigPipeFatal`. `SessionIsAClient` comes first: a step of the session is a
  step of the link with a client that makes just these calls, so that all layers above hold under it and the
  proofs build on them. `SessionInv` adds
  - `CallInv`: which call of the backend each place of the session waits in, and that it is not halted
    before it launches;
  - `ArmedInv`: the session's breakpoint is in the backend's map all the time, so by the link's
    `BreakpointInv` the plugin halts there;
  - `HitsInv` and `CountInv`: the work-items that came to the line are no more than the hits, and
    one more while a stopped event is under way (`Due`). That a first arrival is reported comes from
    `KernelInv`: a work-item whose last line is the breakpoint's has been counted in this kernel;
  - `OverInv` and `EndInv`: a session that ends short of its hits has a host that runs no kernels any
    more, and a host that ends unkilled has executed what it began.

  `ReportsEnough` is `HitsInv` and `CountInv` at the end, `HostRanToCompletion` is `OverInv` and `EndInv`.
* `WorkGroupTrackingProofs`: every property of `tracking`, for any number of workers, groups and kernels.
  - The NDRange: `GroupsPartition` rests on two facts of division, that the interval of a number
    is unique (`DivUnique`) and lies below the rounded-up quotient (`DivBelowCeiling`), lifted to
    three dimensions. `GroupItems` and `GroupCount` count boxes (`BoxCount`: a box is in
    bijection with the product of its sides). `LaunchKnown` (the launch is inferred once, and
    kept) carries them to `EveryItemInOneGroup`, `ItemCountsRight` and `SamplesExist`.
  - `NoMoreThanBreakFor` needs `LineHitsLeft`: a line that is armed has hits to go.
  - `ReportsRight` needs `ReportInv`: the only worker's group is in the map whenever it is in the
    kernel, unless it is stopped at a dispatch the debugger has not handled yet (`GroupKnown`); the
    inspection never meets the main thread, whose registers hold no group, because the
    first kernel is not over before a dispatch was inspected (`FirstInspected`).
  - `EveryDispatchCounted` needs `GroupsAccounted`: counted dispatches, groups no worker has taken
    and dispatches under way add up to the kernel's groups. A thread stopped at a
    breakpoint is at a dispatch or at the line that is broken at (`StopsKnown`), so the
    number of stopped threads is the number of dispatches under way.
  - `EveryPassReported` needs `PassInv`: hits, work-items of groups not taken and passes ahead of the only
    worker add up to all passes of all kernels (`PassesReported`). A pass is a hit because the line is armed
    from the worker's first dispatch on while hits are wanted (`LineArmed`), and the sum starts again with each
    kernel because nothing runs between two (`BetweenKernels`). That a group's items leave the sum when it is
    taken is the partition of the range again, so no sum over groups is needed.
* `PoclBackendProofs`: every safety property of `pocl`, for any number of workers, kernels, groups and
  breakpoints, and every set of lines. `Inv` has a part per concern:
  - `HostInv`, `StopInv`: where the main thread may be says whether the workers are in a kernel; a thread has a
    reason to stop only at a breakpoint's place. `NoUserStopIsPassedOver` (a thread that stopped for the client
    goes on only when the client says so; the run has it as a part of `HidesOwnStops`) rests on the second.
  - `AddressInv`: a breakpoint that is resolved is at its line, and while a worker is in a
    kernel only lines without code are pending. The trampoline's callback makes it true (`ResolvingPlaces`)
    before any worker is past the entry; `KernelLineStops` follows.
  - `LaunchInv`: until a launch was inferred, without a step the first kernel stands at its enqueue.
    `InferredAtEnqueue` needs it: otherwise the launch could be read in a worker.
  - `IdInv`: both ends have counted alike while nothing was removed, and the client's ids have no gap at the
    launch, which replays them in order. `IdsAgree` is inductive with it.

  Beside `Inv`, `NumberInv` says that no two breakpoints have one id, and none exists before the launch: a removal
  by id takes one site along, or none, as `TransparentDebugger` demands.

  `OwnStopsAreHidden` is the refinement, one step of the code at a time. A worker's stop at the trampoline or at
  the entry moves it from nowhere to nowhere (`NothingSeen`), at a line to the site of that line (`ArrivesAtPlace`,
  `ProgramSeen`); a turn of `continue_execution()` that goes on changes nothing the client sees but
  sites that become known (`TrampolineFinds`), and one that returns is `Halt` (`DebuggerSeen`, `CallLeaves`):
  outside a step it returns only if a thread is in `Reached`, because what is at none of the debugger's own addresses is a
  stop of the client. Calls of the client are the abstract ones (`ClientSeen`, with `AddingFinds` for what a
  breakpoint that is set adds).
* `DAPServerProofs`: `TypeOK`, `StreamInOrder` and `VariablesOfThread`, for any number of requests sent ahead.
  - `StreamInv` adds to `StreamInOrder` that the numbers on the stream end where `next_seq` begins and
    that no message on it answers a request that was not read.
  - `VariablesOfThread` is about the reply to a request that was made from an earlier reply; between the two a
    stop may have replaced the threads. `ReferenceInv` says what each side may still believe: every
    message under way (`Mail`), every request in the inbox (`Requests`) and everything the client
    remembers (`Knowledge`) is right of the server's threads unless a stop that the client has not
    heard of yet lies between (`Epochs` counts them along the stream). References are taken apart as
    they were made (`RefRoundTrip`).
* `ConsoleProofs`: every property of `console`, for every command line, line table, number of workers and
  groups. Both safety properties rest on `DwarfInv`: DWARF is the kernel's unless `peeked` is
  in `past`. `ReadableIsShown` is then inductive. `BreakpointStops` needs
  - `LaunchInv`: a worker is on its way into the kernel only with the module loaded, by a program that
    was run, with the trampoline set;
  - `BreakpointInv`: a breakpoint that is pending still has the line that was asked for, one that is
    resolved is at that line's address, and while a worker is in the kernel none is pending.

  The step that matters is `EnterBody`: the callback resolves what is pending before the worker is
  in the kernel.
* `LookupsProofs`: `BreakpointMovesForward` for every line table, `ListedIsSelected` for every stop,
  `ScopeComplete` for every tree of DIEs and `ParsesBack` for every command line, four properties of definitions. The first divides into what `source_to_pcs()` answers (`PcsOfNextLine`), which row a
  breakpoint is at (`ResolvesToNextLine`) and what the lookup back says there (`LineOfOnlyRow`); the
  assumption about rows that end a sequence is needed in the last step. The second takes a global id
  apart as it was put together (`TakeApart`, `LocalSizes`), so that the group looked for is the item's own
  (`ListedItemGroup`), and then shows that the item's thread is the first whose registers match, row 0 standing for
  any row (`ListedSelects`). The third
  - shows that what is around a DIE lies before it and forms a chain (`AroundFacts`), so that of the DIEs
    between a variable and the innermost function those that contain the address are blocks;
  - gives the recursion of `collect_die_vars()` a closed form, "every DIE in between is entered"
    (`CollectedAre`), which at an address inside the function is what the property calls shown
    (`ShownAreCollected`);
  - shows that LLVM's lookup in the function's unit returns that function (`SubroutineIsInnermost`), that
    later units only add (`UnitAdds`, `FoundStays`) and that `append_unique_var()` loses no name (`NamesStay`).

  The property had to be corrected for the proof: a single unit with two functions of which the one at the
  address has no variable to show lists the variables of both, as `UnitVars` falls back to all of them. The
  model-checked instances had one function per unit; now they also have two.
  The fourth follows the loop of `parse_arguments()` through a command line of any length. `Rendered` says where in the
  arguments each option, its value, "--", the host program and its arguments are; `Reading` what the loop has read after
  the first options, namely what they say and nothing else, with no host program in sight; `OptionTurns` takes it one option
  further, in one turn or in two (a value is skipped by the second, so it is never looked at as an option); from the host
  program on, `Running` says that every argument is the host program's. `LoopExists` is what ties these to the
  recursive function of the model.
* `LeastElement`: a set of numbers has a least one, so that the lowest address of a line, the next line with
  code and the first thread of a stop exist, and a bounded one has a greatest. From it follow induction for a
  set (`SetInduction`: a set that holds every number whose smaller ones it holds has all numbers) and that
  a function exists which looks up its own value at a smaller number (`RecursionExists`). `UpToAll` and `TurnsExist` are the two for
  loops, which look back one turn. The library states them
  for operators, which the provers cannot instantiate; for sets and functions they can.

One assumption states arithmetic: `SizeAssumption` says that `2 ^ SizeBits` is a positive number, because
the provers know nothing of exponentiation. TLC evaluates it with the others.

Only model-checked: liveness under fairness (`CallsReturn`, `HostOutlivesDebugger`, `SessionEnds`,
`DisconnectEnds`) and everything about ENABLED, which are out of the prover's reach, and `ValueMeansLocation` of
`lookups`, which needs the arithmetic of powers of two (sign bits and bytes of LEB128), about which the provers have no
facts. Every other property of a passing run is
a theorem.

## 5. Plan

Done: the modules above, in this order: protocol, plugin, backend, link, contract, session; DAP
server; NDRange and tracking; CPU breakpoints; command line, DWARF, variables, work-items and the
terminal.

What is left, in this order:

1. A second `launch()` of one backend object, with what it keeps of the first.
2. Theorems about parts of `ValueMeansLocation`: what a number in LEB128 is worth, one byte at a time, and what one
   operation of an expression contributes.

## 6. Not modelled

* Address spaces of kernel parameters (`OCLAddressSpaces.cpp`): read from the bitcode that pocl
  caches, and only printed. `eval_from_sbvalue()`: LLDB's value as text. Both are layout.
* `LocationExprEval.cpp` and the runtime injection sources: stubs, without a function that does
  anything.
* Help, errors, tables and colours of the terminal. The editor extension is configuration; the
  examples are inputs.
* Oclgrind, PoCL, LLDB and LLVM: external, and modelled only by what `ocldbg` relies on.
* A host with two OpenCL contexts under Oclgrind (the plugin would be loaded twice), and a second
  `launch()` of the CPU backend.
