--------------------------- MODULE OclgrindSession ---------------------------
(***************************************************************************)
(* run_oclgrind_session(): the client that drives the backend for          *)
(* "--backend oclgrind --dry-run".  It sets its breakpoint before the host *)
(* is launched, evaluates its expressions in the stop callback, resumes    *)
(* until it has seen enough hits or the program has ended, and detaches.   *)
(***************************************************************************)
EXTENDS OclgrindLink, FiniteSets

CONSTANTS
    break_at,    \* config.break_at, NoLine for none
    break_for,   \* config.break_for: hits to report, 0 for all of them
    print_exprs  \* how many expressions config.print_exprs holds

ASSUME ConfigAssumption ==
    break_at \in MaybeLine /\ break_for \in Nat /\ print_exprs \in Nat

VARIABLES
    spc,      \* where the session is
    hits,     \* hits
    printed,  \* expressions evaluated at this hit
    seen,     \* history: the kernel and work-item of each first arrival at break_at
    killed    \* history: the host was killed

sessionVars == <<spc, hits, printed, seen, killed>>
allVars == <<vars, sessionVars>>

SessionTypeOK ==
    /\ spc \in {"begin", "launch", "launching", "running", "loop", "detaching", "done", "failed"}
    /\ hits \in Nat /\ printed \in 0 .. print_exprs
    /\ seen \in SUBSET ((1 .. MaxKernels) \X WorkItems)

SessionInit ==
    /\ Init
    /\ spc = "begin" /\ hits = 0 /\ printed = 0 /\ seen = {} /\ killed = FALSE

Goto(from, to) == spc = from /\ spc' = to

RegisterBreakpoint ==
    /\ Goto("begin", "launch")
    /\ \/ break_at = NoLine /\ UNCHANGED vars
       \/ break_at # NoLine /\ set_breakpoint(break_at) /\ UNCHANGED pluginVars
    /\ UNCHANGED <<hits, printed, seen, killed>>

SessionLaunch ==
    /\ Goto("launch", "launching")
    /\ LaunchHost
    /\ UNCHANGED <<hits, printed, seen, killed>>

\* launch() returned false, having detached.
LaunchFailed ==
    /\ Goto("launching", "failed")
    /\ dpc = "idle" /\ ~halted
    /\ UNCHANGED <<vars, hits, printed, seen, killed>>

FirstResume ==
    /\ Goto("launching", "running")
    /\ resume /\ UNCHANGED pluginVars
    /\ UNCHANGED <<hits, printed, seen, killed>>

\* resume() reads the event; on a stop the callback counts it.
EventRead ==
    /\ Goto("running", "loop")
    /\ ReceiveEvent /\ UNCHANGED pluginVars
    /\ hits' = IF halted' THEN hits + 1 ELSE hits
    /\ printed' = IF halted' THEN 0 ELSE print_exprs
    /\ UNCHANGED <<seen, killed>>

\* resume() could not send.
ResumeFailed ==
    /\ Goto("running", "loop")
    /\ dpc = "idle" /\ ~halted
    /\ printed' = print_exprs
    /\ UNCHANGED <<vars, hits, seen, killed>>

\* Wrong variant: one expression too many.
EvaluateOneMore ==
    /\ spc = "loop" /\ printed <= print_exprs
    /\ printed' = printed + 1
    /\ evaluate /\ UNCHANGED pluginVars
    /\ UNCHANGED <<spc, hits, seen, killed>>

EvaluateExpr ==
    /\ spc = "loop" /\ printed < print_exprs
    /\ printed' = printed + 1
    /\ evaluate /\ UNCHANGED pluginVars
    /\ UNCHANGED <<spc, hits, seen, killed>>

\* Wrong variant: one hit too many.
WantsOneMore == halted /\ (break_for = 0 \/ hits <= break_for)

WantsMore == halted /\ (break_for = 0 \/ hits < break_for)

ResumeAgain ==
    /\ Goto("loop", "running")
    /\ printed = print_exprs /\ WantsMore
    /\ resume /\ UNCHANGED pluginVars
    /\ UNCHANGED <<hits, printed, seen, killed>>

SessionDetach ==
    /\ Goto("loop", "detaching")
    /\ printed = print_exprs /\ ~WantsMore
    /\ Detach /\ UNCHANGED pluginVars
    /\ UNCHANGED <<hits, printed, seen, killed>>

Completed ==
    /\ Goto("detaching", "done")
    /\ dpc = "idle"
    /\ UNCHANGED <<vars, hits, printed, seen, killed>>

\* The rest of a call in progress, which is what the session then does.
CallProgress ==
    /\ Accept \/ AcceptFails \/ Handshake \/ Register \/ ReceiveReply \/ Reap
    /\ UNCHANGED <<pluginVars, sessionVars>>

SessionStep ==
    \/ RegisterBreakpoint \/ SessionLaunch \/ LaunchFailed \/ FirstResume
    \/ EventRead \/ ResumeFailed \/ EvaluateExpr \/ ResumeAgain
    \/ SessionDetach \/ Completed \/ CallProgress

\* The host, and which work-items have come to the breakpoint's line.
HostStep ==
    /\ \/ (Serve \/ HostRuns) /\ UNCHANGED killed
       \/ "host" \in Killable /\ HostKilled /\ killed' = TRUE
    /\ UNCHANGED <<backendVars, spc, hits, printed>>
    /\ seen' = seen \cup
         {<<kernels, wi>> : wi \in {w \in WorkItems :
            instrs' > instrs /\ current' = w /\ at'[w] = break_at /\ break_at # NoLine}}

SessionNext == SessionStep \/ HostStep

\* As in OclgrindLink: both processes run, and poll() need not fail.
SessionFairness ==
    /\ WF_allVars(SessionStep /\ ~PollFails)
    /\ WF_allVars(Serve /\ HostStep)
    /\ WF_allVars(HostRuns /\ HostStep)
    /\ WF_allVars(HostExit /\ HostStep)
    /\ \A wi \in WorkItems : WF_allVars(Finish(wi) /\ HostStep)

SessionSpec == SessionInit /\ [][SessionNext]_allVars /\ SessionFairness

-----------------------------------------------------------------------------
Over == {"done", "failed"}

(***************************************************************************)
(* "report this many hits (0 = every hit)" (OclgrindSession.h:12): a       *)
(* session never reports more than it was asked for, and ends with fewer   *)
(* only when every work-item that came to the line in any kernel has been  *)
(* reported at least once.                                                 *)
(***************************************************************************)
ReportsEnough ==
    /\ break_for # 0 => hits <= break_for
    /\ spc = "done" /\ (break_for = 0 \/ hits < break_for) =>
         Cardinality(seen) <= hits

(***************************************************************************)
(* "Detaching lets the host program run the rest of the kernel to          *)
(* completion." (OclgrindSession.cpp:61): a session that ends has not      *)
(* ended its host program before its time: unless something else killed    *)
(* the host, the kernel it detached from ran all its work-items.           *)
(***************************************************************************)
HostRanToCompletion ==
    spc = "done" /\ ~killed => host = "none" /\ ~invocation /\ (kernels > 0 => finished = WorkItems)

(***************************************************************************)
(* The session ends: no call it makes waits for ever.                      *)
(***************************************************************************)
SessionEnds == <>(spc \in Over)

(***************************************************************************)
(* "report each breakpoint hit" (OclgrindSession.h:16), of which break_for *)
(* = 0 asks for every one: each time a work-item comes to the line of the  *)
(* breakpoint from another line the session is stopped there, also on the  *)
(* second turn of a loop.                                                  *)
(***************************************************************************)
EveryArrivalHalts ==
    [][\A wi \in WorkItems :
         /\ spc = "running" /\ break_for = 0
         /\ instrs' > instrs /\ current' = wi
         /\ at[wi] # break_at /\ at'[wi] = break_at /\ break_at # NoLine
         => host' = "serving"]_allVars

=============================================================================
