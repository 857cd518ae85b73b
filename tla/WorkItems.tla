------------------------------ MODULE WorkItems ------------------------------
(***************************************************************************)
(* Work-items of stopped threads: listing and selecting them               *)
(* (list_stopped_work_items() and select_work_item() of                    *)
(* DebuggerContext.cpp, CPUABI.cpp, X86_64CPUABI.cpp,                      *)
(* WorkGroupTracker.cpp).                                                  *)
(*                                                                         *)
(* A launch is what was inferred of it: known or not, the local size, and  *)
(* the local size the tracker was told.  A frame is what the registers and *)
(* variables of a stopped thread's innermost frame hold; the threads are a *)
(* sequence of frames.  Sizes are words of SizeBits bits.                  *)
(***************************************************************************)
EXTENDS Integers

CONSTANTS SizeBits,     \* the bits of a size_t
          Plausible,    \* kMaxPlausibleGroupId
          AssumedLocal  \* the local size taken when no launch was inferred

\* That 2 ^ SizeBits is a number is spelled out: the provers do not know what ^ is.
ASSUME SizeAssumption ==
    /\ SizeBits \in Nat /\ 2 ^ SizeBits \in Nat \ {0}
    /\ Plausible \in Nat /\ AssumedLocal \in Nat \ {0}

Axes == {"x", "y", "z"}
Triple(x, y, z) == [x |-> x, y |-> y, z |-> z]
NoThread == 0

NotInferred == [known |-> FALSE, local_size |-> Triple(1, 1, 1)]
OrOne(n) == IF n > 0 THEN n ELSE 1

get_local_dims(launch) ==
    IF launch.known THEN [a \in Axes |-> OrOne(launch.local_size[a])]
                    ELSE Triple(AssumedLocal, 1, 1)

\* The group in the argument registers; what cannot be a group is taken for 0.
read_workgroup_id(frame) ==
    [frame.group EXCEPT !.y = IF @ < Plausible THEN @ ELSE 0, !.z = IF @ < Plausible THEN @ ELSE 0]

\* The local id: a variable that is called so, a global id, or a register that
\* may hold the loop's counter.  A variable is a set of at most one value.
read_local_id(frame, lx) ==
    CASE frame.local_var # {} -> CHOOSE v \in frame.local_var : TRUE
      [] frame.local_var = {} /\ frame.global_var # {} ->
             (CHOOSE v \in frame.global_var : TRUE) % OrOne(lx)
      [] OTHER -> IF frame.r10 < lx THEN frame.r10 ELSE IF frame.rsi < lx THEN frame.rsi ELSE 0

\* The item listed for a stopped thread; the tracker stands in for registers.
wg_for_thread(tracker, t) == IF t \in DOMAIN tracker THEN tracker[t] ELSE Triple(0, 0, 0)
ListedGroup(threads, tracker, t) ==
    [(IF threads[t].readable THEN read_workgroup_id(threads[t]) ELSE wg_for_thread(tracker, t))
        EXCEPT !.y = IF @ < Plausible THEN @ ELSE 0, !.z = 0]
ListedItem(threads, launch, tracker, t) ==
    LET lx == IF launch.known /\ launch.local_size.x > 0 THEN launch.local_size.x ELSE AssumedLocal
        group == ListedGroup(threads, tracker, t)
        id == read_local_id(threads[t], lx)
    IN [thread |-> t, group_id |-> group, local_id |-> Triple(id, 0, 0),
        global_id |-> Triple((group.x * lx + id) % 2 ^ SizeBits, group.y, group.z)]

StoppedIn(threads) == {t \in DOMAIN threads : threads[t].stopped}
list_stopped_work_items(threads, launch, tracker) ==
    {ListedItem(threads, launch, tracker, t) : t \in StoppedIn(threads)}

\* The tracker after the registers of some threads were looked at.
record_wgs(tracker, threads, T) ==
    [t \in DOMAIN tracker \cup {u \in T : threads[u].readable} |->
        IF t \in T /\ threads[t].readable THEN read_workgroup_id(threads[t]) ELSE tracker[t]]

\* Wrong variant: rows and planes are not looked at.
match_wg_column(wg, target) == wg.x = target.x

\* A target of 0 in y or z is one in any row or plane.
match_wg(wg, target) ==
    wg.x = target.x /\ (target.y = 0 \/ wg.y = target.y) /\ (target.z = 0 \/ wg.z = target.z)

\* The first thread whose registers hold the group; or any thread that the tracker
\* has the group for, if it is stopped.  The tracker divides by its own local size.
Matching(threads, target) ==
    {t \in StoppedIn(threads) :
       threads[t].readable /\ match_wg(read_workgroup_id(threads[t]), target)}
First(T) == CHOOSE t \in T : \A u \in T : t <= u
host_threads_for_wi(tracker, launch, id) ==
    {t \in DOMAIN tracker :
       tracker[t] = [a \in Axes |-> id[a] \div OrOne(launch.local_size[a])]}
find_threads_for_target_wg(threads, launch, tracker, target, id) ==
    LET matching == Matching(threads, target)
        tracked == host_threads_for_wi(record_wgs(tracker, threads, StoppedIn(threads)), launch, id)
    IN IF matching # {} THEN {First(matching)}
       ELSE IF tracked = {} THEN {NoThread}
       ELSE {IF t \in StoppedIn(threads) THEN t ELSE NoThread : t \in tracked}

\* What a selection may come to, and the tracker after it.
select_work_item(threads, launch, tracker, id) ==
    LET dims == get_local_dims(launch)
        target == [a \in Axes |-> id[a] \div dims[a]]
    IN {[thread |-> t, group_id |-> target, local_id |-> [a \in Axes |-> id[a] % dims[a]],
         global_id |-> id] : t \in find_threads_for_target_wg(threads, launch, tracker, target, id)}
TrackerAfter(threads, launch, tracker, id) ==
    LET dims == get_local_dims(launch)
        matching == Matching(threads, [a \in Axes |-> id[a] \div dims[a]])
    IN record_wgs(tracker, threads,
                  {t \in StoppedIn(threads) : matching = {} \/ t <= First(matching)})

=============================================================================
