----------------------- MODULE WorkGroupTrackingProofs -----------------------
(***************************************************************************)
(* Proofs about a dry run of the CPU debugger, for any number of workers,  *)
(* groups and kernels: the NDRange it infers is right, every dispatch is   *)
(* counted, and what it reports is what its threads run.                   *)
(***************************************************************************)
EXTENDS WorkGroupTracking, FiniteSetTheorems, FunctionTheorems, TLAPS

-----------------------------------------------------------------------------
(* Division, in one dimension.                                             *)

\* A number lies in the interval of its quotient.
LEMMA DivInterval ==
    ASSUME NEW i \in Nat, NEW l \in Nat \ {0}
    PROVE  i \div l \in Nat /\ (i \div l) * l <= i /\ i < (i \div l + 1) * l
BY SMT

\* Intervals of different numbers do not meet.
LEMMA IntervalsApart ==
    ASSUME NEW a \in Int, NEW b \in Int, NEW l \in Nat \ {0}, a < b
    PROVE  (a + 1) * l <= b * l
BY SMT

\* The quotient is the only one whose interval holds the number.
LEMMA DivUnique ==
    ASSUME NEW i \in Nat, NEW l \in Nat \ {0}, NEW k \in Nat, k * l <= i, i < (k + 1) * l
    PROVE  k = i \div l
BY DivInterval, IntervalsApart, SMT

\* The number of groups, rounded up, leaves none of the numbers out.
LEMMA DivBelowCeiling ==
    ASSUME NEW i \in Nat, NEW g \in Nat, NEW l \in Nat \ {0}, i < g
    PROVE  i \div l < (g + l - 1) \div l
BY DivInterval, IntervalsApart, SMT

-----------------------------------------------------------------------------
(* Sizes and points.                                                       *)

\* A point has the coordinates it is made of.
LEMMA PointType ==
    ASSUME NEW x \in Nat, NEW y \in Nat, NEW z \in Nat
    PROVE  /\ Point(x, y, z) \in Size3
           /\ Point(x, y, z)["x"] = x /\ Point(x, y, z)["y"] = y /\ Point(x, y, z)["z"] = z
BY DEF Point, Size3, Dims

\* Below(n) is the box of the points smaller than n in every dimension.
LEMMA BelowBox ==
    ASSUME NEW n \in Size3, NEW p
    PROVE  p \in Below(n) <=> p \in Size3 /\ \A d \in Dims : p[d] < n[d]
<1>1. n["x"] \in Nat /\ n["y"] \in Nat /\ n["z"] \in Nat
  BY DEF Size3, Dims
<1>2. ASSUME p \in Below(n) PROVE p \in Size3 /\ \A d \in Dims : p[d] < n[d]
  <2>1. PICK x \in 0 .. n["x"] - 1, y \in 0 .. n["y"] - 1, z \in 0 .. n["z"] - 1 : p = Point(x, y, z)
    BY <1>2 DEF Below
  <2>2. x \in Nat /\ y \in Nat /\ z \in Nat /\ x < n["x"] /\ y < n["y"] /\ z < n["z"]
    BY <1>1
  <2> QED BY <2>1, <2>2, PointType DEF Dims
<1>3. ASSUME p \in Size3, \A d \in Dims : p[d] < n[d] PROVE p \in Below(n)
  <2>1. /\ p["x"] \in 0 .. n["x"] - 1 /\ p["y"] \in 0 .. n["y"] - 1 /\ p["z"] \in 0 .. n["z"] - 1
    BY <1>1, <1>3 DEF Size3, Dims
  <2>2. p = Point(p["x"], p["y"], p["z"])
    BY <1>3 DEF Point, Size3, Dims
  <2> QED BY <2>1, <2>2 DEF Below
<1> QED BY <1>2, <1>3

\* A clamped size is positive.
LEMMA ClampPositive ==
    ASSUME NEW l \in Size3
    PROVE  Clamp(l) \in [Dims -> Nat \ {0}]
BY DEF Clamp, Size3

\* The number of groups is a size.
LEMMA NumGroupsType ==
    ASSUME NEW g \in Size3, NEW l \in Size3
    PROVE  NumGroups(g, l) \in Size3
<1> SUFFICES ASSUME NEW d \in Dims PROVE (g[d] + Clamp(l)[d] - 1) \div Clamp(l)[d] \in Nat
  BY DEF NumGroups, Size3
<1>1. g[d] \in Nat /\ Clamp(l)[d] \in Nat \ {0}
  BY ClampPositive DEF Size3
<1>2. g[d] + Clamp(l)[d] - 1 \in Nat
  BY <1>1
<1> QED BY <1>1, <1>2, DivInterval

-----------------------------------------------------------------------------
(* The partition.                                                          *)

Range3(g, l) == [global_size |-> g, local_size |-> l]

\* A work-item is inside the group that it is mapped to.
LEMMA InsideItsGroup ==
    ASSUME NEW g \in Size3, NEW l \in Size3, NEW id \in Below(g)
    PROVE  GroupOf(id, l) \in Groups(g, l) /\ Inside(id, GroupOf(id, l), Range3(g, l))
<1>1. id \in Size3 /\ \A d \in Dims : id[d] < g[d]
  BY BelowBox
<1>2. ASSUME NEW d \in Dims
      PROVE  /\ GroupOf(id, l)[d] \in Nat
             /\ GroupOf(id, l)[d] < NumGroups(g, l)[d]
             /\ id[d] >= MinWI(GroupOf(id, l), l)[d]
             /\ id[d] <= MaxWI(GroupOf(id, l), g, l)[d]
  <2>1. id[d] \in Nat /\ g[d] \in Nat /\ id[d] < g[d] /\ Clamp(l)[d] \in Nat \ {0}
    BY <1>1, <1>2, ClampPositive DEF Size3
  <2>2. GroupOf(id, l)[d] = id[d] \div Clamp(l)[d]
    BY <1>2 DEF GroupOf
  <2>3. NumGroups(g, l)[d] = (g[d] + Clamp(l)[d] - 1) \div Clamp(l)[d]
    BY <1>2 DEF NumGroups
  <2>4. MinWI(GroupOf(id, l), l)[d] = (id[d] \div Clamp(l)[d]) * Clamp(l)[d]
    BY <1>2, <2>2 DEF MinWI
  <2>5. MaxWI(GroupOf(id, l), g, l)[d] = Lower(g[d], (id[d] \div Clamp(l)[d] + 1) * Clamp(l)[d]) - 1
    BY <1>2, <2>2 DEF MaxWI
  <2>6. /\ id[d] \div Clamp(l)[d] \in Nat
        /\ (id[d] \div Clamp(l)[d]) * Clamp(l)[d] <= id[d]
        /\ id[d] < (id[d] \div Clamp(l)[d] + 1) * Clamp(l)[d]
    BY <2>1, DivInterval
  <2>7. id[d] \div Clamp(l)[d] < (g[d] + Clamp(l)[d] - 1) \div Clamp(l)[d]
    BY <2>1, DivBelowCeiling
  <2>8. id[d] <= Lower(g[d], (id[d] \div Clamp(l)[d] + 1) * Clamp(l)[d]) - 1
    BY <2>1, <2>6 DEF Lower
  <2> QED BY <2>2, <2>3, <2>4, <2>5, <2>6, <2>7, <2>8, <2>1
<1>3. GroupOf(id, l) \in Size3
  BY <1>2 DEF GroupOf, Size3
<1>4. GroupOf(id, l) \in Groups(g, l)
  BY <1>2, <1>3, NumGroupsType, BelowBox DEF Groups
<1>5. Inside(id, GroupOf(id, l), Range3(g, l))
  BY <1>2 DEF Inside, Range3
<1> QED BY <1>4, <1>5

\* And inside no other.
LEMMA InsideNoOther ==
    ASSUME NEW g \in Size3, NEW l \in Size3, NEW id \in Below(g), NEW wg \in Groups(g, l),
           Inside(id, wg, Range3(g, l))
    PROVE  wg = GroupOf(id, l)
<1>1. id \in Size3
  BY BelowBox
<1>2. wg \in Size3
  BY NumGroupsType, BelowBox DEF Groups
<1>3. ASSUME NEW d \in Dims PROVE wg[d] = id[d] \div Clamp(l)[d]
  <2>1. id[d] \in Nat /\ g[d] \in Nat /\ wg[d] \in Nat /\ Clamp(l)[d] \in Nat \ {0}
    BY <1>1, <1>2, <1>3, ClampPositive DEF Size3
  <2>2. id[d] >= MinWI(wg, l)[d] /\ id[d] <= MaxWI(wg, g, l)[d]
    BY <1>3 DEF Inside, Range3
  <2>3. id[d] >= wg[d] * Clamp(l)[d] /\ id[d] <= Lower(g[d], (wg[d] + 1) * Clamp(l)[d]) - 1
    BY <1>3, <2>2 DEF MinWI, MaxWI
  <2>4. (wg[d] + 1) * Clamp(l)[d] \in Nat
    BY <2>1
  <2>5. id[d] < (wg[d] + 1) * Clamp(l)[d]
    BY <2>1, <2>3, <2>4 DEF Lower
  <2>6. wg[d] * Clamp(l)[d] <= id[d]
    BY <2>1, <2>3
  <2> QED BY <2>1, <2>5, <2>6, DivUnique
<1> QED BY <1>2, <1>3 DEF GroupOf, Size3

(***************************************************************************)
(* compute_work_groups() partitions every range, whatever its sizes.       *)
(***************************************************************************)
THEOREM GroupsPartition ==
    ASSUME NEW g \in Size3, NEW l \in Size3, NEW id \in Below(g)
    PROVE  {wg \in Groups(g, l) : Inside(id, wg, Range3(g, l))} = {GroupOf(id, l)}
BY InsideItsGroup, InsideNoOther

-----------------------------------------------------------------------------
(* The same of the debugger's run.                                         *)

\* launch_info is inferred once, before anything is printed, and kept.
LaunchKnown ==
    /\ setup \in Setups
    /\ pc # "infer" =>
         launch_info = LaunchInfo(setup.global, setup.local, setup.named, setup.work_dim)

\* What is read of a launch are sizes.
LEMMA ReadTypes ==
    ASSUME NEW s \in Setups
    PROVE  /\ Read(s.global, s.work_dim) \in Size3
           /\ read_local(s.local, s.named, s.work_dim) \in Size3
<1>1. s.global \in Size3 /\ s.local \in Size3 /\ s.work_dim \in 1 .. 3 /\ s.named \in BOOLEAN
  BY SetupAssumption
<1>2. ASSUME NEW size \in Size3 PROVE Read(size, s.work_dim) \in Size3
  <2>1. size["x"] \in Nat /\ size["y"] \in Nat /\ size["z"] \in Nat
    BY <1>2 DEF Size3, Dims
  <2> QED BY <1>1, <2>1, PointType DEF Read
<1>3. Point(1, 1, 1) \in Size3
  BY PointType
<1> QED BY <1>1, <1>2, <1>3 DEF read_local

\* A range that is read has a work-item.
LEMMA RangeNotEmpty ==
    ASSUME NEW s \in Setups
    PROVE  \A d \in Dims : Read(s.global, s.work_dim)[d] > 0
<1> DEFINE y == IF s.work_dim > 1 THEN s.global["y"] ELSE 1
           z == IF s.work_dim > 2 THEN s.global["z"] ELSE 1
<1>1. s.global \in Size3 /\ \A d \in Dims : s.global[d] > 0
  BY SetupAssumption
<1>2. s.global["x"] \in Nat /\ s.global["y"] \in Nat /\ s.global["z"] \in Nat
  BY <1>1 DEF Size3, Dims
<1>3. s.global["x"] > 0 /\ y > 0 /\ z > 0 /\ y \in Nat /\ z \in Nat
  BY <1>1, <1>2 DEF Dims
<1>4. Read(s.global, s.work_dim) = Point(s.global["x"], y, z)
  BY DEF Read
<1> HIDE DEF y, z
<1> QED BY <1>2, <1>3, <1>4, PointType DEF Dims

\* The debugger infers before it does anything else.
LEMMA LaunchKnownAlways == Spec => []LaunchKnown
<1>1. Init => LaunchKnown
  BY DEF Init, LaunchKnown
<1>2. LaunchKnown /\ [Next]_vars => LaunchKnown'
  <2> SUFFICES ASSUME LaunchKnown, [Next]_vars PROVE LaunchKnown'
    OBVIOUS
  <2>1. CASE InferLaunch
    BY <2>1 DEF InferLaunch, LaunchKnown
  <2>2. CASE Host
    BY <2>2 DEF Host, TakeGroup, ReachLine, PassLine, LeaveKernel, Fault, EnqueueAgain, HostEnds,
                LaunchKnown, debuggerVars
  <2>3. CASE Continue \/ Stop
    BY <2>3 DEF Continue, Stop, LaunchKnown, debuggerVars
  <2>4. CASE HandleDispatches \/ Finish
    BY <2>4 DEF HandleDispatches, NoLineHit, Finish, LaunchKnown
  <2>5. CASE \E t \in Threads : HandleLine(t)
    BY <2>5 DEF HandleLine, LaunchKnown
  <2>6. CASE UNCHANGED vars
    BY <2>6 DEF vars, debuggerVars, LaunchKnown
  <2> QED BY <2>1, <2>2, <2>3, <2>4, <2>5, <2>6 DEF Next, Debugger
<1> QED BY <1>1, <1>2, PTL DEF Spec

(***************************************************************************)
(* EveryItemInOneGroup, for every setup: all ranges, sizes and dimensions. *)
(***************************************************************************)
THEOREM EveryItemInOneGroupAlways == Spec => []EveryItemInOneGroup
<1>1. LaunchKnown => EveryItemInOneGroup
  <2> SUFFICES ASSUME LaunchKnown, pc = "finished", NEW id \in Below(launch_info.global_size)
               PROVE  {wg \in launch_info.work_groups : Inside(id, wg, launch_info)}
                        = {GroupOf(id, launch_info.local_size)}
    BY DEF EveryItemInOneGroup
  <2> DEFINE g == Read(setup.global, setup.work_dim)
             l == read_local(setup.local, setup.named, setup.work_dim)
  <2>1. g \in Size3 /\ l \in Size3
    BY ReadTypes DEF LaunchKnown
  <2>2. /\ launch_info.global_size = g /\ launch_info.local_size = l
        /\ launch_info.work_groups = Groups(g, l)
    BY DEF LaunchKnown, LaunchInfo
  <2>3. ASSUME NEW wg PROVE Inside(id, wg, launch_info) <=> Inside(id, wg, Range3(g, l))
    BY <2>2 DEF Inside, Range3
  <2> HIDE DEF g, l
  <2> QED BY <2>1, <2>2, <2>3, GroupsPartition
<1> QED BY <1>1, LaunchKnownAlways, PTL

-----------------------------------------------------------------------------
(* The sample work-items.                                                  *)

\* The samples are in the range, if that holds one group at least.
LEMMA SamplesInRange ==
    ASSUME NEW g \in Size3, NEW l \in Size3, \A d \in Dims : g[d] > 0 /\ l[d] <= g[d]
    PROVE  SampleItems(g, l) \subseteq Below(g)
<1>1. /\ g["x"] \in Nat /\ g["y"] \in Nat /\ g["z"] \in Nat
      /\ g["x"] > 0 /\ g["y"] > 0 /\ g["z"] > 0
  BY DEF Size3, Dims
<1>2. /\ Clamp(l)["x"] \in Nat \ {0} /\ Clamp(l)["x"] <= g["x"]
  BY <1>1 DEF Clamp, Size3, Dims
<1>3. ASSUME NEW x \in Nat, NEW y \in Nat, NEW z \in Nat, x < g["x"], y < g["y"], z < g["z"]
      PROVE  Point(x, y, z) \in Below(g)
  <2>1. Point(x, y, z) \in Size3
    BY PointType
  <2>2. Point(x, y, z)["x"] = x /\ Point(x, y, z)["y"] = y /\ Point(x, y, z)["z"] = z
    BY PointType
  <2>3. \A d \in Dims : Point(x, y, z)[d] < g[d]
    BY <1>3, <2>2 DEF Dims
  <2> QED BY <2>1, <2>3, BelowBox
<1> DEFINE lx == Clamp(l)["x"]
<1>4. SampleItems(g, l) \subseteq
        {Point(0, 0, 0)}
          \cup (IF lx > 1 THEN {Point(lx - 1, 0, 0)} ELSE {})
          \cup (IF g["x"] > lx THEN {Point(lx, 0, 0), Point(g["x"] - 1, 0, 0)} ELSE {})
          \cup (IF g["y"] > 1 THEN {Point(0, 1, 0)} ELSE {})
          \cup (IF g["z"] > 1 THEN {Point(0, 0, 1)} ELSE {})
  BY DEF SampleItems
<1>5. lx \in Nat /\ lx > 0 /\ lx <= g["x"]
  BY <1>2
<1> HIDE DEF lx
<1>6. Point(0, 0, 0) \in Below(g)
  BY <1>1, <1>3
<1>7. lx > 1 => Point(lx - 1, 0, 0) \in Below(g)
  BY <1>1, <1>3, <1>5
<1>8. g["x"] > lx => Point(lx, 0, 0) \in Below(g) /\ Point(g["x"] - 1, 0, 0) \in Below(g)
  BY <1>1, <1>3, <1>5
<1>9. /\ g["y"] > 1 => Point(0, 1, 0) \in Below(g)
      /\ g["z"] > 1 => Point(0, 0, 1) \in Below(g)
  BY <1>1, <1>3
<1> QED BY <1>4, <1>6, <1>7, <1>8, <1>9

(***************************************************************************)
(* SamplesExist, for every command line and every range a kernel can have. *)
(***************************************************************************)
THEOREM SamplesExistAlways == Spec => []SamplesExist
<1>1. LaunchKnown => SamplesExist
  <2> SUFFICES ASSUME LaunchKnown, pc = "finished",
                      \A d \in Dims : launch_info.local_size[d] <= launch_info.global_size[d]
               PROVE  launch_info.samples \subseteq Below(launch_info.global_size)
    BY DEF SamplesExist
  <2> DEFINE g == Read(setup.global, setup.work_dim)
             l == read_local(setup.local, setup.named, setup.work_dim)
  <2>1. g \in Size3 /\ l \in Size3
    BY ReadTypes DEF LaunchKnown
  <2>2. \A d \in Dims : g[d] > 0
    BY RangeNotEmpty DEF LaunchKnown
  <2>3. /\ launch_info.global_size = g /\ launch_info.local_size = l
        /\ launch_info.samples = SampleItems(g, l)
    BY DEF LaunchKnown, LaunchInfo
  <2> HIDE DEF g, l
  <2> QED BY <2>1, <2>2, <2>3, SamplesInRange
<1> QED BY <1>1, LaunchKnownAlways, PTL

-----------------------------------------------------------------------------
(* The bound on the stops at a line.                                       *)

\* A line that is broken at has hits to go.
LineHitsLeft ==
    /\ setup \in Setups /\ line_hit_count \in Nat
    /\ line_breakpoint \in BOOLEAN
    /\ setup.break_for > 0 =>
         /\ line_hit_count <= setup.break_for
         /\ line_breakpoint => line_hit_count < setup.break_for

\* It has from the first dispatch to the last.
LEMMA LineHitsLeftAlways == Spec => []LineHitsLeft
<1>0. ASSUME NEW s \in Setups PROVE s.break_for \in Nat /\ s.break_at \in BOOLEAN
  BY SetupAssumption
<1>1. Init => LineHitsLeft
  <2> SUFFICES ASSUME Init PROVE LineHitsLeft
    OBVIOUS
  <2>1. setup \in Setups /\ line_hit_count = 0 /\ line_breakpoint = FALSE
    BY DEF Init
  <2>2. setup.break_for \in Nat
    BY <1>0, <2>1
  <2>3. line_breakpoint \in BOOLEAN /\ ~line_breakpoint
    BY <2>1
  <2>4. line_hit_count \in Nat /\ (setup.break_for > 0 => line_hit_count <= setup.break_for)
    BY <2>1, <2>2
  <2> QED BY <2>1, <2>3, <2>4 DEF LineHitsLeft
<1>2. LineHitsLeft /\ [Next]_vars => LineHitsLeft'
  <2> SUFFICES ASSUME LineHitsLeft, [Next]_vars PROVE LineHitsLeft'
    OBVIOUS
  <2>0. setup.break_for \in Nat /\ setup.break_at \in BOOLEAN
    BY <1>0 DEF LineHitsLeft
  <2>1. CASE InferLaunch
    BY <2>1 DEF InferLaunch, LineHitsLeft
  <2>2. CASE Host
    <3>1. UNCHANGED <<setup, line_hit_count, line_breakpoint>>
      BY <2>2 DEF Host, TakeGroup, ReachLine, PassLine, LeaveKernel, Fault, EnqueueAgain, HostEnds,
                  debuggerVars
    <3> QED BY <3>1 DEF LineHitsLeft
  <2>3. CASE Continue \/ Stop
    BY <2>3 DEF Continue, Stop, LineHitsLeft, debuggerVars
  <2>4. CASE HandleDispatches
    BY <2>0, <2>4 DEF HandleDispatches, ArmLine, LineHitsLeft
  <2>5. CASE Finish
    BY <2>5 DEF Finish, LineHitsLeft
  <2>6. CASE \E t \in Threads : HandleLine(t)
    <3>1. /\ line_hit_count' = line_hit_count + 1 /\ line_breakpoint /\ UNCHANGED setup
          /\ line_breakpoint' = ~(setup.break_for > 0 /\ line_hit_count' >= setup.break_for)
      BY <2>6 DEF HandleLine, AtLine
    <3>2. line_hit_count' \in Nat /\ line_breakpoint' \in BOOLEAN
      BY <3>1 DEF LineHitsLeft
    <3>3. setup.break_for > 0 => line_hit_count < setup.break_for
      BY <3>1 DEF LineHitsLeft
    <3>4. setup.break_for > 0 => line_hit_count' <= setup.break_for
      BY <2>0, <3>1, <3>3 DEF LineHitsLeft
    <3>5. setup.break_for > 0 /\ line_breakpoint' => line_hit_count' < setup.break_for
      <4>1. CASE setup.break_for > 0 /\ line_hit_count' >= setup.break_for
        BY <3>1, <4>1
      <4>2. CASE ~(line_hit_count' >= setup.break_for)
        BY <2>0, <3>2, <4>2
      <4> QED BY <4>1, <4>2
    <3> QED BY <3>1, <3>2, <3>4, <3>5 DEF LineHitsLeft
  <2>7. CASE UNCHANGED vars
    BY <2>7 DEF vars, debuggerVars, LineHitsLeft
  <2> QED BY <2>1, <2>2, <2>3, <2>4, <2>5, <2>6, <2>7 DEF Next, Debugger
<1> QED BY <1>1, <1>2, PTL DEF Spec

(***************************************************************************)
(* NoMoreThanBreakFor, for any number of workers, groups and kernels.      *)
(***************************************************************************)
THEOREM NoMoreThanBreakForAlways == Spec => []NoMoreThanBreakFor
<1>1. LineHitsLeft => NoMoreThanBreakFor
  BY DEF LineHitsLeft, NoMoreThanBreakFor
<1> QED BY <1>1, LineHitsLeftAlways, PTL

-----------------------------------------------------------------------------
(* Types.                                                                  *)

Places == {"idle", "waiting", "dispatch", "kernel", "line"}
Positions == [Threads -> [place : Places, group : Size3 \cup {NoGroup}, left : Int]]
Reasons == [Threads -> {"none", "breakpoint", "signal"}]

\* The main thread waits at a breakpoint only where a kernel is enqueued.
TypeInv ==
    /\ TypeOK /\ setup \in Setups
    /\ at \in Positions
    /\ reason[main] = "breakpoint" => launches > 0

\* The groups that run are sizes, and what each has to do is a number.
LEMMA RealGroupTypes ==
    ASSUME setup \in Setups
    PROVE  /\ RealGroups \subseteq Size3
           /\ \A g \in RealGroups : RealCount(g) \in Int
<1>1. setup.global \in Size3 /\ setup.local \in Size3 /\ Read(setup.global, setup.work_dim) \in Size3
  BY SetupAssumption, ReadTypes
<1>2. RealGroups \subseteq Size3
  <2> SUFFICES ASSUME NEW g \in RealGroups PROVE g \in Size3
    OBVIOUS
  <2> QED BY <1>1, NumGroupsType, BelowBox DEF RealGroups, RealLocal, Groups
<1>3. ASSUME NEW g \in RealGroups PROVE RealCount(g) \in Int
  <2> DEFINE r == Read(setup.global, setup.work_dim)
             n == [d \in Dims |-> MaxWI(g, r, setup.local)[d] - MinWI(g, setup.local)[d] + 1]
  <2>1. g \in Size3 /\ Clamp(setup.local) \in [Dims -> Nat \ {0}]
    BY <1>1, <1>2, <1>3, ClampPositive
  <2>2. ASSUME NEW d \in Dims PROVE n[d] \in Int
    <3>1. g[d] \in Nat /\ r[d] \in Nat /\ Clamp(setup.local)[d] \in Nat
      BY <1>1, <2>1, <2>2 DEF Size3
    <3>2. MinWI(g, setup.local)[d] = g[d] * Clamp(setup.local)[d]
      BY <2>2 DEF MinWI
    <3>3. MaxWI(g, r, setup.local)[d] = Lower(r[d], (g[d] + 1) * Clamp(setup.local)[d]) - 1
      BY <2>2 DEF MaxWI
    <3>4. Lower(r[d], (g[d] + 1) * Clamp(setup.local)[d]) \in Int
      BY <3>1 DEF Lower
    <3>5. g[d] * Clamp(setup.local)[d] \in Int
      BY <3>1
    <3> HIDE DEF r
    <3> QED BY <2>2, <3>2, <3>3, <3>4, <3>5
  <2>3. RealCount(g) = Times(n)
    BY DEF RealCount, RealLocal, ItemCount
  <2> HIDE DEF n
  <2>4. n["x"] \in Int /\ n["y"] \in Int /\ n["z"] \in Int
    BY <2>2 DEF Dims
  <2>5. n["x"] * n["y"] \in Int
    BY <2>4
  <2>6. n["x"] * n["y"] * n["z"] \in Int
    BY <2>4, <2>5
  <2> QED BY <2>3, <2>6 DEF Times
<1> QED BY <1>2, <1>3

\* What the registers hold where a thread stops is a group, or none.
LEMMA ReadGroupType ==
    ASSUME TypeInv, NEW t \in Threads
    PROVE  read_workgroup_id(t) \in Size3 \cup {NoGroup}
<1>1. setup.work_dim \in Nat
  BY SetupAssumption DEF TypeInv
<1>2. Point(setup.work_dim, 0, 0) \in Size3
  BY <1>1, PointType
<1> QED BY <1>2 DEF read_workgroup_id, TypeInv, Positions

\* A thread that changes its place keeps the rest.
LEMMA PlaceMoves ==
    ASSUME NEW a \in Positions, NEW t \in Threads, NEW p \in Places
    PROVE  [a EXCEPT ![t].place = p] \in Positions
BY DEF Positions

\* The program counts finitely many threads at a breakpoint.
LEMMA StoppedThreadsCounted == Cardinality(AtBreakpoint) \in Nat
<1>1. IsFiniteSet(Threads)
  BY ThreadAssumption, FS_AddElement DEF Threads
<1> QED BY <1>1, FS_Subset, FS_CardinalityType DEF AtBreakpoint

\* The steps of the host program keep the types.
LEMMA HostKeepsTypes ==
    ASSUME TypeInv, Host
    PROVE  TypeInv'
<1>0. /\ UNCHANGED <<setup, pc, debuggerVars>>
  BY DEF Host, TakeGroup, ReachLine, PassLine, LeaveKernel, Fault, EnqueueAgain, HostEnds
<1>1. ASSUME NEW t \in Workers PROVE t \in Threads /\ t # main
  BY <1>1, ThreadAssumption DEF Threads
<1>2. main \in Threads
  BY DEF Threads
<1>3. ASSUME at' \in Positions, reason' \in Reasons, todo' \subseteq RealGroups,
             process' \in {"alive", "exited", "crashed"}, UNCHANGED launches,
             reason'[main] = "breakpoint" => launches > 0
      PROVE  TypeInv'
  BY <1>0, <1>3 DEF TypeInv, TypeOK, Positions, Reasons, debuggerVars, RealGroups, RealLocal, Places
<1>4. CASE \E t \in Workers : TakeGroup(t)
  <2>1. PICK t \in Workers : TakeGroup(t)
    BY <1>4
  <2>2. PICK g \in todo :
          /\ todo' = todo \ {g}
          /\ at' = [at EXCEPT ![t] = [place |-> "dispatch", group |-> g, left |-> RealCount(g)]]
    BY <2>1 DEF TakeGroup
  <2>3. g \in Size3 /\ RealCount(g) \in Int
    BY RealGroupTypes DEF TypeInv, TypeOK
  <2>4. at' \in Positions
    BY <1>1, <2>2, <2>3 DEF TypeInv, Positions, Places
  <2>5. reason' \in Reasons /\ reason'[main] = reason[main] /\ UNCHANGED <<process, launches>>
    BY <1>1, <1>2, <2>1 DEF TakeGroup, Arrive, TypeInv, TypeOK, Reasons
  <2> QED BY <1>3, <2>2, <2>4, <2>5 DEF TypeInv, TypeOK
<1>5. CASE \E t \in Workers : ReachLine(t)
  <2>1. PICK t \in Workers : ReachLine(t)
    BY <1>5
  <2>2. at' \in Positions
    BY <1>1, <2>1, PlaceMoves DEF ReachLine, TypeInv, Places
  <2>3. /\ reason' \in Reasons /\ reason'[main] = reason[main]
        /\ UNCHANGED <<process, launches, todo>>
    BY <1>1, <1>2, <2>1 DEF ReachLine, Arrive, TypeInv, TypeOK, Reasons
  <2> QED BY <1>3, <2>2, <2>3 DEF TypeInv, TypeOK
<1>6. CASE \E t \in Workers : PassLine(t) \/ LeaveKernel(t)
  <2>1. PICK t \in Workers : PassLine(t) \/ LeaveKernel(t)
    BY <1>6
  <2>2. at' \in Positions
    <3>1. CASE PassLine(t)
      BY <1>1, <3>1 DEF PassLine, TypeInv, Places, Positions
    <3>2. CASE LeaveKernel(t)
      BY <1>1, <3>2, PlaceMoves DEF LeaveKernel, TypeInv, Places
    <3> QED BY <2>1, <3>1, <3>2
  <2>3. UNCHANGED <<reason, process, launches, todo>>
    BY <2>1 DEF PassLine, LeaveKernel
  <2> QED BY <1>3, <2>2, <2>3 DEF TypeInv, TypeOK, Reasons
<1>7. CASE \E t \in Workers : Fault(t)
  <2>1. PICK t \in Workers : Fault(t)
    BY <1>7
  <2>2. /\ UNCHANGED <<at, launches, todo>> /\ process' \in {"alive", "exited", "crashed"}
        /\ reason' \in Reasons /\ reason'[main] = reason[main]
    BY <1>1, <1>2, <2>1 DEF Fault, TypeInv, TypeOK, Reasons
  <2> QED BY <1>3, <2>2 DEF TypeInv, TypeOK
<1>8. CASE EnqueueAgain
  <2>1. at' \in Positions
    BY <1>2, <1>8, PlaceMoves DEF EnqueueAgain, TypeInv, Places
  <2>2. /\ reason' \in Reasons /\ launches > 0
        /\ UNCHANGED <<process, launches, todo>>
    BY <1>2, <1>8 DEF EnqueueAgain, Arrive, TypeInv, TypeOK, Reasons
  <2> QED BY <1>3, <2>1, <2>2 DEF TypeInv, TypeOK
<1>9. CASE HostEnds
  BY <1>3, <1>9 DEF HostEnds, TypeInv, TypeOK, Reasons
<1> QED BY <1>4, <1>5, <1>6, <1>7, <1>8, <1>9 DEF Host

\* The steps of the debugger keep the types.
LEMMA DebuggerKeepsTypes ==
    ASSUME TypeInv, Debugger
    PROVE  TypeInv'
<1>0. /\ setup.track \in BOOLEAN /\ setup.break_at \in BOOLEAN /\ setup.break_for \in Nat
      /\ main \in Threads
  BY SetupAssumption DEF TypeInv, Threads
<1>1. CASE InferLaunch
  <2>1. pc' \in {"continue", "finished"} /\ wg_breakpoint' \in BOOLEAN
    BY <1>0, <1>1 DEF InferLaunch
  <2> QED BY <1>1, <2>1 DEF InferLaunch, hostVars, TypeInv, TypeOK, RealGroups, RealLocal
<1>2. CASE Continue
  <2>1. reason' \in Reasons /\ reason'[main] # "breakpoint"
    BY <1>0, <1>2 DEF Continue, Reasons
  <2>2. /\ at' \in Positions /\ launches' \in Nat /\ todo' \subseteq RealGroups
    <3>1. CASE reason[main] = "breakpoint"
      <4>1. at' \in Positions
        BY <1>0, <1>2, <3>1, PlaceMoves DEF Continue, TypeInv, Places
      <4> QED BY <1>2, <3>1, <4>1 DEF Continue, TypeInv, TypeOK
    <3>2. CASE reason[main] # "breakpoint"
      BY <1>2, <3>2 DEF Continue, TypeInv, TypeOK
    <3> QED BY <3>1, <3>2
  <2> QED BY <1>2, <2>1, <2>2 DEF Continue, debuggerVars, TypeInv, TypeOK, RealGroups, RealLocal,
                                  Positions, Places, Reasons
<1>3. CASE Stop
  BY <1>3 DEF Stop, debuggerVars, hostVars, TypeInv, TypeOK, RealGroups, RealLocal
<1>4. CASE HandleDispatches
  <2>1. thread_to_wg' \in [Threads -> Size3 \cup {NoGroup}] /\ dispatch_count' \in Nat
    BY <1>4, ReadGroupType, StoppedThreadsCounted DEF HandleDispatches, RecordStopped, TypeInv, TypeOK
  <2>2. line_breakpoint' \in BOOLEAN
    BY <1>0, <1>4 DEF HandleDispatches, ArmLine, TypeInv, TypeOK
  <2>3. at' \in Positions /\ inspected' \in BOOLEAN
    <3>1. CASE UNCHANGED <<inspected, at>>
      BY <3>1 DEF TypeInv, TypeOK
    <3>2. CASE \E t \in AtBreakpoint :
                 /\ inspected' = TRUE
                 /\ \/ at' = [at EXCEPT ![t].place = "kernel"]
                    \/ at' = at
      BY <3>2, PlaceMoves DEF TypeInv, AtBreakpoint, Places
    <3> QED BY <1>4, <3>1, <3>2 DEF HandleDispatches, InspectFirst
  <2>4. UNCHANGED <<setup, wg_breakpoint, line_hit_count, todo, launches, process, reason>>
        /\ pc' = "continue"
    BY <1>4 DEF HandleDispatches
  <2> QED BY <2>1, <2>2, <2>3, <2>4 DEF TypeInv, TypeOK, RealGroups, RealLocal, Positions, Places
<1>5. CASE Finish
  BY <1>5 DEF Finish, hostVars, TypeInv, TypeOK, RealGroups, RealLocal
<1>6. CASE \E t \in Threads : HandleLine(t)
  <2>1. /\ line_hit_count' \in Nat /\ line_breakpoint' \in BOOLEAN /\ pc' = "continue"
        /\ UNCHANGED <<setup, wg_breakpoint, thread_to_wg, dispatch_count, inspected>>
        /\ UNCHANGED <<hostVars, reason>>
    BY <1>0, <1>6 DEF HandleLine, TypeInv, TypeOK
  <2> QED BY <2>1 DEF hostVars, TypeInv, TypeOK, RealGroups, RealLocal
<1> QED BY <1>1, <1>2, <1>3, <1>4, <1>5, <1>6 DEF Debugger

\* At the start the types are right.
LEMMA TypesAtStart ==
    ASSUME Init
    PROVE  TypeInv
<1>1. setup \in Setups /\ setup.launches \in Nat \ {0}
  BY SetupAssumption DEF Init
<1>2. at \in Positions
  BY DEF Init, Positions, Places
<1>3. reason \in Reasons
  BY DEF Init, Reasons
<1>4. {wg_breakpoint, line_breakpoint, inspected} \subseteq BOOLEAN
  BY DEF Init
<1>5. thread_to_wg \in [Threads -> Size3 \cup {NoGroup}]
  BY DEF Init
<1>6. /\ launches \in Nat /\ launches > 0 /\ todo \subseteq RealGroups
  BY <1>1 DEF Init
<1>7. \A t \in Threads : at[t].place \in Places
  BY <1>2 DEF Positions
<1>8. /\ pc = "infer" /\ process = "alive" /\ dispatch_count \in Nat /\ line_hit_count \in Nat
  BY DEF Init
<1> QED BY <1>1, <1>2, <1>3, <1>4, <1>5, <1>6, <1>7, <1>8 DEF TypeInv, TypeOK, Places, Reasons

\* The invariant of the types.
LEMMA TypeInvAlways == Spec => []TypeInv
<1>1. TypeInv /\ [Next]_vars => TypeInv'
  <2>1. TypeInv /\ UNCHANGED vars => TypeInv'
    BY DEF vars, debuggerVars, hostVars, TypeInv, TypeOK, RealGroups, RealLocal
  <2> QED BY <2>1, HostKeepsTypes, DebuggerKeepsTypes DEF Next
<1> QED BY <1>1, TypesAtStart, PTL DEF Spec

(***************************************************************************)
(* TypeOK, for every number of workers, groups and kernels.                *)
(***************************************************************************)
THEOREM TypeCorrect == Spec => []TypeOK
<1>1. TypeInv => TypeOK
  BY DEF TypeInv
<1> QED BY <1>1, TypeInvAlways, PTL

-----------------------------------------------------------------------------
(* What a report shows.                                                    *)

InKernel(t) == at[t].place \in {"dispatch", "kernel", "line"}
DebuggerLoops == pc \in {"continue", "wait", "handle"}
Unseen == setup.inspect /\ ~inspected
AtDispatchStop(t) == at[t].place = "dispatch" /\ reason[t] = "breakpoint"

\* Only workers are in the kernel, and each has a group there.
KernelThreads ==
    /\ \A t \in Threads : InKernel(t) => t \in setup.workers /\ at[t].group \in Size3
    /\ pc = "infer" => reason[main] = "breakpoint" /\ \A t \in Threads : ~InKernel(t)

\* The dispatch breakpoint is there from the start, the line's from the first
\* dispatch handled on.
Armed ==
    /\ DebuggerLoops => wg_breakpoint
    /\ line_breakpoint => setup.break_at /\ ~Unseen

\* Until a dispatch is inspected, the first kernel is not over.
FirstInspected ==
    Unseen =>
      /\ pc = "continue" => reason[main] = "breakpoint"
      /\ pc \in {"wait", "handle"} =>
           /\ reason[main] # "breakpoint"
           /\ todo = RealGroups \/ \E t \in Workers : AtDispatchStop(t)

\* The map knows the group of the only worker, once its dispatch is handled.
GroupKnown ==
    OneWorker /\ DebuggerLoops =>
      \A t \in Threads : InKernel(t) =>
        \/ thread_to_wg[t] = at[t].group
        \/ pc # "continue" /\ AtDispatchStop(t)

ReportInv == TypeInv /\ KernelThreads /\ Armed /\ FirstInspected /\ GroupKnown /\ ReportsRight

\* A kernel has a work-group.
LEMMA GroupsNotEmpty ==
    ASSUME setup \in Setups
    PROVE  RealGroups # {}
<1> DEFINE r == Read(setup.global, setup.work_dim)
<1>1. r \in Size3 /\ setup.local \in Size3 /\ \A d \in Dims : r[d] > 0
  BY SetupAssumption, ReadTypes, RangeNotEmpty
<1>2. RealGroups = Groups(r, setup.local)
  BY DEF RealGroups, RealLocal
<1> HIDE DEF r
<1>3. Point(0, 0, 0) \in Below(r)
  BY <1>1, BelowBox, PointType DEF Dims
<1> QED BY <1>1, <1>2, <1>3, InsideItsGroup

\* The only worker is the one that is in the kernel.
LEMMA OnlyOne ==
    ASSUME setup \in Setups, OneWorker, NEW t \in setup.workers, NEW u \in setup.workers
    PROVE  t = u
<1>1. IsFiniteSet(setup.workers)
  BY ThreadAssumption, SetupAssumption, FS_Subset
<1> QED BY <1>1, FS_Singleton DEF OneWorker

\* What the change of one place does to every thread.
LEMMA PlaceEffect ==
    ASSUME NEW a \in Positions, NEW t \in Threads, NEW p, NEW u \in Threads
    PROVE  /\ [a EXCEPT ![t].place = p][u].group = a[u].group
           /\ [a EXCEPT ![t].place = p][u].place = IF u = t THEN p ELSE a[u].place
BY DEF Positions

\* What a step of the host program does to the thread it is of.
GroupTaken(t) ==
    /\ t \in setup.workers /\ t \in Workers /\ at[t].place = "idle"
    /\ at'[t].place = "dispatch" /\ at'[t].group \in Size3
    /\ at'[t].group \in todo /\ todo' = todo \ {at'[t].group}
    /\ wg_breakpoint => reason'[t] = "breakpoint"
KernelMove(t) ==
    /\ t \in Workers /\ InKernel(t) /\ at'[t].group = at[t].group
    /\ at'[t].place # "dispatch" /\ UNCHANGED todo
    /\ reason'[t] = "breakpoint" => at'[t].place = "line" /\ line_breakpoint
EnqueueMove(t) ==
    t = main /\ KernelDone /\ launches > 0 /\ UNCHANGED todo /\ at'[t].place = "idle"

\* A step of the host program moves one thread.
LEMMA HostEffect ==
    ASSUME TypeInv, Host
    PROVE  /\ UNCHANGED <<setup, pc, debuggerVars, launches>> /\ pc = "wait" /\ process = "alive"
           /\ process' = "exited" => KernelDone /\ UNCHANGED <<at, reason, todo>>
           /\ \/ UNCHANGED <<at, reason, todo>>
              \/ \E t \in Threads :
                   /\ reason[t] = "none"
                   /\ \A u \in Threads \ {t} : at'[u] = at[u] /\ reason'[u] = reason[u]
                   /\ GroupTaken(t) \/ KernelMove(t) \/ EnqueueMove(t)
<1>0. /\ UNCHANGED <<setup, pc, debuggerVars, launches>> /\ pc = "wait" /\ process = "alive"
      /\ process' = "exited" => KernelDone /\ UNCHANGED <<at, reason, todo>>
  BY DEF Host, TakeGroup, ReachLine, PassLine, LeaveKernel, Fault, EnqueueAgain, HostEnds, Running
<1>1. at \in Positions /\ reason \in Reasons /\ Workers \subseteq Threads /\ main \in Threads
  BY DEF TypeInv, TypeOK, Reasons, Threads
<1>2. CASE \E t \in Workers : TakeGroup(t)
  <2>1. PICK t \in Workers : TakeGroup(t)
    BY <1>2
  <2>2. PICK g \in todo :
          /\ todo' = todo \ {g}
          /\ at' = [at EXCEPT ![t] = [place |-> "dispatch", group |-> g, left |-> RealCount(g)]]
    BY <2>1 DEF TakeGroup
  <2>3. g \in Size3
    BY RealGroupTypes DEF TypeInv, TypeOK
  <2>4. /\ at'[t].place = "dispatch" /\ at'[t].group = g
        /\ \A u \in Threads \ {t} : at'[u] = at[u]
    BY <1>1, <2>2, <2>3 DEF Positions
  <2>5. /\ \A u \in Threads \ {t} : reason'[u] = reason[u]
        /\ wg_breakpoint => reason'[t] = "breakpoint"
    BY <1>1, <2>1 DEF TakeGroup, Arrive, Reasons
  <2>6. t \in setup.workers /\ at[t].place = "idle" /\ reason[t] = "none" /\ t \in Threads
    BY <1>1, <2>1 DEF TakeGroup, Running
  <2>7. GroupTaken(t)
    BY <2>1, <2>2, <2>3, <2>4, <2>5, <2>6 DEF GroupTaken
  <2> QED BY <1>0, <2>4, <2>5, <2>6, <2>7
<1>3. CASE \E t \in Workers : ReachLine(t) \/ PassLine(t) \/ LeaveKernel(t) \/ Fault(t)
  <2>1. PICK t \in Workers : ReachLine(t) \/ PassLine(t) \/ LeaveKernel(t) \/ Fault(t)
    BY <1>3
  <2>2. reason[t] = "none" /\ InKernel(t) /\ UNCHANGED todo
    BY <2>1 DEF ReachLine, PassLine, LeaveKernel, Fault, Running, InKernel
  <2>3. \A u \in Threads \ {t} : reason'[u] = reason[u]
    BY <1>1, <2>1 DEF ReachLine, PassLine, LeaveKernel, Fault, Arrive, Reasons
  <2>4. at'[t].group = at[t].group /\ \A u \in Threads \ {t} : at'[u] = at[u]
    BY <1>1, <2>1 DEF ReachLine, PassLine, LeaveKernel, Fault, Positions
  <2>5. /\ at'[t].place # "dispatch"
        /\ reason'[t] = "breakpoint" => at'[t].place = "line" /\ line_breakpoint
    BY <1>1, <2>1 DEF ReachLine, PassLine, LeaveKernel, Fault, Arrive, Running, Positions, Reasons
  <2>6. KernelMove(t)
    BY <2>1, <2>2, <2>4, <2>5 DEF KernelMove
  <2> QED BY <1>0, <1>1, <2>2, <2>3, <2>4, <2>6
<1>4. CASE EnqueueAgain
  <2>1. /\ at'[main].place = "idle" /\ \A u \in Threads \ {main} : at'[u] = at[u]
        /\ \A u \in Threads \ {main} : reason'[u] = reason[u]
    BY <1>1, <1>4 DEF EnqueueAgain, Arrive, Positions, Reasons
  <2>2. EnqueueMove(main)
    BY <1>4, <2>1 DEF EnqueueAgain, EnqueueMove
  <2> QED BY <1>0, <1>1, <1>4, <2>1, <2>2 DEF EnqueueAgain, Running
<1>5. CASE HostEnds
  BY <1>0, <1>5 DEF HostEnds
<1> QED BY <1>2, <1>3, <1>4, <1>5 DEF Host

\* The steps of the host program keep the invariant of the reports.
LEMMA HostKeepsReports ==
    ASSUME ReportInv, Host
    PROVE  ReportInv'
<1>0. TypeInv /\ TypeInv' /\ Workers \subseteq Threads /\ main \in Threads /\ main \notin Workers
  BY HostKeepsTypes, ThreadAssumption DEF ReportInv, Threads
<1>1. UNCHANGED <<setup, pc, debuggerVars>> /\ pc = "wait"
  BY <1>0, HostEffect
<1>2. UNCHANGED <<launch_info, wg_breakpoint, line_breakpoint, thread_to_wg, inspected, report>>
      /\ (OneWorker' <=> OneWorker) /\ (Unseen' <=> Unseen) /\ RealGroups' = RealGroups
  BY <1>1 DEF debuggerVars, OneWorker, Unseen, RealGroups, RealLocal
<1>3. ReportsRight' /\ Armed' /\ wg_breakpoint
  BY <1>1, <1>2 DEF ReportInv, ReportsRight, Armed, DebuggerLoops
<1>4. CASE UNCHANGED <<at, reason, todo>>
  BY <1>0, <1>1, <1>2, <1>3, <1>4
  DEF ReportInv, KernelThreads, FirstInspected, GroupKnown, InKernel, DebuggerLoops, AtDispatchStop
<1>5. CASE ~UNCHANGED <<at, reason, todo>>
  <2>1. PICK t \in Threads :
          /\ reason[t] = "none"
          /\ \A u \in Threads \ {t} : at'[u] = at[u] /\ reason'[u] = reason[u]
          /\ GroupTaken(t) \/ KernelMove(t) \/ EnqueueMove(t)
    BY <1>0, <1>5, HostEffect
  <2>2. KernelThreads'
    BY <1>1, <2>1 DEF GroupTaken, KernelMove, EnqueueMove, ReportInv, KernelThreads, InKernel
  <2>3. FirstInspected'
    <3> SUFFICES ASSUME Unseen
                 PROVE  reason'[main] # "breakpoint"
                        /\ (todo' = RealGroups \/ \E u \in Workers : AtDispatchStop(u)')
      BY <1>1, <1>2 DEF FirstInspected
    <3>1. reason[main] # "breakpoint" /\ (todo = RealGroups \/ \E u \in Workers : AtDispatchStop(u))
      BY <1>1 DEF ReportInv, FirstInspected
    <3>2. ASSUME NEW u \in Workers, AtDispatchStop(u) PROVE AtDispatchStop(u)'
      BY <1>0, <2>1, <3>2 DEF AtDispatchStop
    <3>3. CASE t = main
      <4>1. todo = {} /\ \A u \in Workers : at[u].place = "idle"
        BY <1>0, <2>1, <3>3 DEF KernelDone, GroupTaken, KernelMove, EnqueueMove
      <4> QED BY <1>0, <3>1, <4>1, GroupsNotEmpty DEF AtDispatchStop, TypeInv
    <3>4. CASE t # main
      <4>1. reason'[main] = reason[main]
        BY <1>0, <2>1, <3>4
      <4>2. CASE at'[t].place = "dispatch" /\ reason'[t] = "breakpoint" /\ t \in Workers
        BY <3>1, <4>1, <4>2 DEF AtDispatchStop
      <4>3. CASE UNCHANGED todo
        BY <3>1, <3>2, <4>1, <4>3
      <4> QED BY <1>3, <2>1, <3>4, <4>2, <4>3 DEF GroupTaken, KernelMove, EnqueueMove
    <3> QED BY <3>3, <3>4
  <2>4. GroupKnown'
    <3> SUFFICES ASSUME OneWorker, NEW u \in Threads, InKernel(u)'
                 PROVE  thread_to_wg[u] = at'[u].group \/ AtDispatchStop(u)'
      BY <1>1, <1>2 DEF GroupKnown
    <3>1. InKernel(u) => thread_to_wg[u] = at[u].group \/ AtDispatchStop(u)
      BY <1>1 DEF ReportInv, GroupKnown, DebuggerLoops
    <3>2. CASE u # t
      BY <2>1, <3>1, <3>2 DEF InKernel, AtDispatchStop
    <3>3. CASE u = t
      BY <1>3, <2>1, <3>1, <3>3
      DEF InKernel, AtDispatchStop, GroupTaken, KernelMove, EnqueueMove
    <3> QED BY <3>2, <3>3
  <2> QED BY <1>0, <1>3, <2>2, <2>3, <2>4 DEF ReportInv
<1> QED BY <1>4, <1>5

\* At a stop at the line, the only worker is the one that is shown.
LEMMA LineReportRight ==
    ASSUME ReportInv, NEW t \in Threads, HandleLine(t)
    PROVE  ReportsRight'
<1> SUFFICES ASSUME OneWorker PROVE report'.shown = report'.actual
  <2>1. setup' = setup /\ setup.break_at
    BY DEF HandleLine, AtLine, ReportInv, Armed
  <2> QED BY <2>1 DEF ReportsRight, OneWorker
<1>1. report'.shown = wg_for_thread(t) /\ report'.actual = at[t].group
  BY DEF HandleLine
<1>2. at[t].place = "line" /\ pc = "handle"
  BY DEF HandleLine, AtLine
<1>3. at[t].group \in Size3 /\ thread_to_wg[t] = at[t].group
  BY <1>2 DEF ReportInv, KernelThreads, GroupKnown, InKernel, DebuggerLoops, AtDispatchStop
<1> QED BY <1>1, <1>3, ThreadAssumption DEF wg_for_thread

\* An inspection shows the group in the registers of the thread it steps.
LEMMA InspectionRight ==
    ASSUME ReportInv, HandleDispatches
    PROVE  /\ \A u \in Threads : at'[u].group = at[u].group /\ (InKernel(u)' <=> InKernel(u))
           /\ ~Unseen'
           /\ ReportsRight'
<1>1. at \in Positions /\ setup' = setup /\ pc = "handle"
  BY DEF ReportInv, TypeInv, HandleDispatches, NoLineHit
<1>2. CASE ~Unseen
  <2>1. UNCHANGED <<inspected, report, at>>
    BY <1>2 DEF HandleDispatches, InspectFirst, Unseen
  <2> QED BY <1>1, <1>2, <2>1 DEF ReportInv, ReportsRight, InKernel, Unseen, OneWorker
<1>3. CASE Unseen
  <2>1. PICK t \in AtBreakpoint :
          /\ inspected' = TRUE
          /\ report' = [shown |-> thread_to_wg'[t], actual |-> at[t].group]
          /\ at' = IF at[t].place = "dispatch" THEN [at EXCEPT ![t].place = "kernel"] ELSE at
    BY <1>3 DEF HandleDispatches, InspectFirst, Unseen
  <2>2. t \in Threads /\ reason[t] = "breakpoint"
    BY DEF AtBreakpoint
  <2>3. t # main
    BY <1>1, <1>3, <2>2 DEF ReportInv, FirstInspected
  <2>4. thread_to_wg'[t] = at[t].group
    BY <2>2, <2>3 DEF HandleDispatches, RecordStopped, read_workgroup_id
  <2>5. ReportsRight'
    BY <2>1, <2>4 DEF ReportsRight
  <2>6. \A u \in Threads : at'[u].group = at[u].group /\ (InKernel(u)' <=> InKernel(u))
    <3>1. CASE at[t].place = "dispatch"
      <4>1. at' = [at EXCEPT ![t].place = "kernel"]
        BY <2>1, <3>1
      <4>2. \A u \in Threads : /\ at'[u].group = at[u].group
                               /\ at'[u].place = IF u = t THEN "kernel" ELSE at[u].place
        BY <1>1, <2>2, <4>1, PlaceEffect
      <4> QED BY <3>1, <4>2 DEF InKernel
    <3>2. CASE at[t].place # "dispatch"
      BY <2>1, <3>2 DEF InKernel
    <3> QED BY <3>1, <3>2
  <2> QED BY <2>1, <2>5, <2>6 DEF Unseen
<1> QED BY <1>2, <1>3

\* The steps of the debugger keep the invariant of the reports.
LEMMA DebuggerKeepsReports ==
    ASSUME ReportInv, Debugger
    PROVE  ReportInv'
<1>0. TypeInv /\ TypeInv' /\ main \in Threads
  BY DebuggerKeepsTypes DEF ReportInv, Threads
<1>1. CASE InferLaunch
  <2>1. /\ UNCHANGED <<setup, line_breakpoint, thread_to_wg, inspected, report, at, todo, reason>>
        /\ pc = "infer" /\ ((pc' = "continue" /\ wg_breakpoint') \/ pc' = "finished")
    BY <1>1 DEF InferLaunch, hostVars
  <2>2. KernelThreads' /\ Armed' /\ FirstInspected' /\ GroupKnown' /\ ReportsRight'
    BY <2>1 DEF ReportInv, KernelThreads, Armed, FirstInspected, GroupKnown, ReportsRight, InKernel,
                DebuggerLoops, Unseen, OneWorker
  <2> QED BY <1>0, <2>2 DEF ReportInv
<1>2. CASE Continue
  <2>1. /\ UNCHANGED <<setup, wg_breakpoint, line_breakpoint, thread_to_wg, inspected, report>>
        /\ pc = "continue" /\ pc' = "wait" /\ reason'[main] # "breakpoint"
    BY <1>0, <1>2 DEF Continue, debuggerVars
  <2>2. \A u \in Threads : at'[u].group = at[u].group /\ (InKernel(u)' => InKernel(u))
    <3>1. CASE reason[main] = "breakpoint"
      <4>1. at' = [at EXCEPT ![main].place = "waiting"] /\ at \in Positions
        BY <1>0, <1>2, <3>1 DEF Continue, TypeInv
      <4>2. \A u \in Threads : /\ at'[u].group = at[u].group
                               /\ at'[u].place = IF u = main THEN "waiting" ELSE at[u].place
        BY <1>0, <4>1, PlaceEffect
      <4> QED BY <4>2 DEF InKernel
    <3>2. CASE reason[main] # "breakpoint"
      BY <1>2, <3>2 DEF Continue, InKernel
    <3> QED BY <3>1, <3>2
  <2>3. Unseen => todo' = RealGroups'
    <3> SUFFICES ASSUME Unseen PROVE todo' = RealGroups
      BY <2>1 DEF RealGroups, RealLocal
    <3>1. reason[main] = "breakpoint"
      BY <2>1 DEF ReportInv, FirstInspected
    <3> QED BY <1>2, <3>1 DEF Continue
  <2>4. KernelThreads' /\ Armed' /\ ReportsRight'
    BY <2>1, <2>2 DEF ReportInv, KernelThreads, Armed, ReportsRight, DebuggerLoops, Unseen, OneWorker
  <2>5. FirstInspected'
    BY <2>1, <2>3 DEF FirstInspected, Unseen
  <2>6. GroupKnown'
    BY <2>1, <2>2 DEF ReportInv, GroupKnown, DebuggerLoops, OneWorker
  <2> QED BY <1>0, <2>4, <2>5, <2>6 DEF ReportInv
<1>3. CASE Stop
  <2>1. /\ UNCHANGED <<setup, wg_breakpoint, line_breakpoint, thread_to_wg, inspected, report>>
        /\ UNCHANGED <<at, todo, reason>> /\ pc = "wait" /\ pc' = "handle"
    BY <1>3 DEF Stop, debuggerVars, hostVars
  <2>2. KernelThreads' /\ Armed' /\ FirstInspected' /\ GroupKnown' /\ ReportsRight'
    BY <2>1 DEF ReportInv, KernelThreads, Armed, FirstInspected, GroupKnown, ReportsRight, InKernel,
                DebuggerLoops, Unseen, OneWorker, AtDispatchStop, RealGroups, RealLocal
  <2> QED BY <1>0, <2>2 DEF ReportInv
<1>4. CASE HandleDispatches
  <2>1. /\ UNCHANGED <<setup, wg_breakpoint, todo, reason>>
        /\ pc = "handle" /\ pc' = "continue"
    BY <1>4 DEF HandleDispatches, NoLineHit
  <2>2. /\ \A u \in Threads : at'[u].group = at[u].group /\ (InKernel(u)' <=> InKernel(u))
        /\ ~Unseen' /\ ReportsRight'
    BY <1>4, InspectionRight
  <2>3. line_breakpoint' => setup.break_at
    BY <1>4 DEF HandleDispatches, ArmLine, ReportInv, Armed
  <2>4. KernelThreads' /\ Armed' /\ FirstInspected'
    BY <2>1, <2>2, <2>3 DEF ReportInv, KernelThreads, Armed, FirstInspected, DebuggerLoops
  <2>5. GroupKnown'
    <3> SUFFICES ASSUME OneWorker, NEW u \in Threads, InKernel(u)
                 PROVE  thread_to_wg'[u] = at[u].group
      BY <2>1, <2>2 DEF GroupKnown, OneWorker
    <3>1. u \in setup.workers
      BY DEF ReportInv, KernelThreads
    <3>2. u # main
      BY <1>0, <3>1, SetupAssumption, ThreadAssumption DEF TypeInv
    <3>3. CASE u \in AtBreakpoint
      BY <1>4, <3>2, <3>3 DEF HandleDispatches, RecordStopped, read_workgroup_id
    <3>4. CASE u \notin AtBreakpoint
      <4>1. thread_to_wg'[u] = thread_to_wg[u]
        BY <1>4, <3>4 DEF HandleDispatches, RecordStopped
      <4>2. thread_to_wg[u] = at[u].group
        BY <2>1, <3>4 DEF ReportInv, GroupKnown, DebuggerLoops, AtDispatchStop, AtBreakpoint
      <4> QED BY <4>1, <4>2
    <3> QED BY <3>3, <3>4
  <2> QED BY <1>0, <2>2, <2>4, <2>5 DEF ReportInv
<1>5. CASE Finish
  <2>1. /\ UNCHANGED <<setup, report, at, inspected>> /\ pc' = "finished" /\ ~line_breakpoint'
    BY <1>5 DEF Finish, hostVars
  <2>2. KernelThreads' /\ Armed' /\ FirstInspected' /\ GroupKnown' /\ ReportsRight'
    BY <2>1 DEF ReportInv, KernelThreads, Armed, FirstInspected, GroupKnown, ReportsRight, InKernel,
                DebuggerLoops, OneWorker
  <2> QED BY <1>0, <2>2 DEF ReportInv
<1>6. CASE \E t \in Threads : HandleLine(t)
  <2>1. PICK t \in Threads : HandleLine(t)
    BY <1>6
  <2>2. /\ UNCHANGED <<setup, wg_breakpoint, thread_to_wg, inspected, at, todo, reason>>
        /\ pc = "handle" /\ pc' = "continue" /\ line_breakpoint /\ at[t].place = "line"
    BY <2>1 DEF HandleLine, AtLine, hostVars
  <2>3. setup.break_at /\ ~Unseen
    BY <2>2 DEF ReportInv, Armed
  <2>4. KernelThreads' /\ Armed' /\ FirstInspected'
    BY <2>2, <2>3 DEF ReportInv, KernelThreads, Armed, FirstInspected, DebuggerLoops, InKernel, Unseen
  <2>5. GroupKnown'
    <3> SUFFICES ASSUME OneWorker, NEW u \in Threads, InKernel(u)
                 PROVE  thread_to_wg[u] = at[u].group
      BY <2>2 DEF GroupKnown, OneWorker, InKernel
    <3>1. u \in setup.workers /\ t \in setup.workers
      BY <2>2 DEF ReportInv, KernelThreads, InKernel
    <3>2. u = t
      BY <1>0, <3>1, OnlyOne DEF TypeInv
    <3> QED BY <2>2, <3>2 DEF ReportInv, GroupKnown, DebuggerLoops, AtDispatchStop
  <2> QED BY <1>0, <2>1, <2>4, <2>5, LineReportRight DEF ReportInv
<1> QED BY <1>1, <1>2, <1>3, <1>4, <1>5, <1>6 DEF Debugger

\* At the start there is nothing to report.
LEMMA ReportsAtStart ==
    ASSUME Init
    PROVE  ReportInv
<1>1. TypeInv
  BY TypesAtStart
<1>2. KernelThreads /\ Armed /\ FirstInspected /\ GroupKnown /\ ReportsRight
  BY DEF Init, KernelThreads, Armed, FirstInspected, GroupKnown, ReportsRight, InKernel,
         DebuggerLoops, NoReport, Threads
<1> QED BY <1>1, <1>2 DEF ReportInv

\* The invariant of the reports is one of the variables.
LEMMA ReportsStutter ==
    ASSUME ReportInv, UNCHANGED vars
    PROVE  ReportInv'
BY DEF vars, debuggerVars, hostVars, ReportInv, TypeInv, TypeOK, RealGroups, RealLocal,
       KernelThreads, Armed, FirstInspected, GroupKnown, ReportsRight, InKernel, DebuggerLoops,
       Unseen, OneWorker, AtDispatchStop

(***************************************************************************)
(* ReportsRight: with one worker, or with no line broken at, every report  *)
(* shows the work-group its thread runs, for all ranges and kernels.       *)
(***************************************************************************)
THEOREM ReportsRightAlways == Spec => []ReportsRight
<1>1. Init => ReportInv
  BY ReportsAtStart
<1>2. ReportInv /\ [Next]_vars => ReportInv'
  BY ReportsStutter, HostKeepsReports, DebuggerKeepsReports DEF Next
<1>3. ReportInv => ReportsRight
  BY DEF ReportInv
<1> QED BY <1>1, <1>2, <1>3, PTL DEF Spec

-----------------------------------------------------------------------------
(* The number of work-items and of groups.                                 *)

\* The points between two others.
Box(lo, hi) == {p \in [Dims -> Int] : \A d \in Dims : lo[d] <= p[d] /\ p[d] <= hi[d]}
Extent(lo, hi) == [d \in Dims |-> hi[d] - lo[d] + 1]

\* A box has as many points as its sides' lengths multiply to.
LEMMA BoxCount ==
    ASSUME NEW lo \in [Dims -> Int], NEW hi \in [Dims -> Int], \A d \in Dims : lo[d] <= hi[d]
    PROVE  /\ IsFiniteSet(Box(lo, hi))
           /\ Cardinality(Box(lo, hi)) = Times(Extent(lo, hi))
<1> DEFINE X == lo["x"] .. hi["x"]
           Y == lo["y"] .. hi["y"]
           Z == lo["z"] .. hi["z"]
           point == [q \in (X \X Y) \X Z |-> Point(q[1][1], q[1][2], q[2])]
<1>1. /\ lo["x"] \in Int /\ lo["y"] \in Int /\ lo["z"] \in Int
      /\ hi["x"] \in Int /\ hi["y"] \in Int /\ hi["z"] \in Int
      /\ lo["x"] <= hi["x"] /\ lo["y"] <= hi["y"] /\ lo["z"] <= hi["z"]
  BY DEF Dims
<1>2. /\ IsFiniteSet(X) /\ IsFiniteSet(Y) /\ IsFiniteSet(Z)
      /\ Cardinality(X) = hi["x"] - lo["x"] + 1
      /\ Cardinality(Y) = hi["y"] - lo["y"] + 1
      /\ Cardinality(Z) = hi["z"] - lo["z"] + 1
  <2>1. ASSUME NEW a \in Int, NEW b \in Int, a <= b
        PROVE  IsFiniteSet(a .. b) /\ Cardinality(a .. b) = b - a + 1
    BY <2>1, FS_Interval
  <2> QED BY <1>1, <2>1
<1>3. /\ IsFiniteSet((X \X Y) \X Z)
      /\ Cardinality((X \X Y) \X Z) = (Cardinality(X) * Cardinality(Y)) * Cardinality(Z)
  <2> HIDE DEF X, Y, Z
  <2>1. IsFiniteSet(X \X Y) /\ Cardinality(X \X Y) = Cardinality(X) * Cardinality(Y)
    BY <1>2, FS_Product
  <2> DEFINE XY == X \X Y
  <2>2. IsFiniteSet(XY) /\ Cardinality(XY) = Cardinality(X) * Cardinality(Y) /\ IsFiniteSet(Z)
    BY <1>2, <2>1
  <2> HIDE DEF XY
  <2>3. IsFiniteSet(XY \X Z) /\ Cardinality(XY \X Z) = Cardinality(XY) * Cardinality(Z)
    BY <2>2, FS_Product
  <2> QED BY <2>2, <2>3 DEF XY
<1>4. ASSUME NEW x, NEW y, NEW z
      PROVE  /\ Point(x, y, z)["x"] = x /\ Point(x, y, z)["y"] = y /\ Point(x, y, z)["z"] = z
  BY DEF Point, Dims
<1>5. ASSUME NEW q \in (X \X Y) \X Z
      PROVE  point[q] \in Box(lo, hi)
  <2>1. PICK x \in X, y \in Y, z \in Z : q = <<<<x, y>>, z>>
    OBVIOUS
  <2>2. point[q] = Point(x, y, z)
    BY <2>1
  <2>3. Point(x, y, z) \in [Dims -> Int]
    BY <1>1 DEF Point, Dims
  <2> QED BY <1>1, <1>4, <2>2, <2>3 DEF Box, Dims
<1>6. ASSUME NEW q \in (X \X Y) \X Z, NEW r \in (X \X Y) \X Z, point[q] = point[r]
      PROVE  q = r
  <2>1. PICK x \in X, y \in Y, z \in Z : q = <<<<x, y>>, z>>
    OBVIOUS
  <2>2. PICK u \in X, v \in Y, w \in Z : r = <<<<u, v>>, w>>
    OBVIOUS
  <2>3. Point(x, y, z) = Point(u, v, w)
    BY <1>6, <2>1, <2>2
  <2>4. x = u /\ y = v /\ z = w
    BY <1>4, <2>3
  <2> QED BY <2>1, <2>2, <2>4
<1>7. ASSUME NEW p \in Box(lo, hi)
      PROVE  \E q \in (X \X Y) \X Z : point[q] = p
  <2>1. p["x"] \in X /\ p["y"] \in Y /\ p["z"] \in Z
    BY <1>1 DEF Box, Dims
  <2>2. p = Point(p["x"], p["y"], p["z"])
    BY DEF Box, Point, Dims
  <2>3. <<<<p["x"], p["y"]>>, p["z"]>> \in (X \X Y) \X Z
    BY <2>1
  <2>4. point[<<<<p["x"], p["y"]>>, p["z"]>>] = Point(p["x"], p["y"], p["z"])
    BY <2>3
  <2> QED BY <2>2, <2>3, <2>4
<1>8. ExistsBijection((X \X Y) \X Z, Box(lo, hi))
  <2> HIDE DEF X, Y, Z
  <2>1. point \in [(X \X Y) \X Z -> Box(lo, hi)]
    BY <1>5
  <2> HIDE DEF point
  <2>2. point \in Bijection((X \X Y) \X Z, Box(lo, hi))
    BY <1>6, <1>7, <2>1, Fun_IsBij
  <2> QED BY <2>2 DEF ExistsBijection
<1>9. Times(Extent(lo, hi)) = (Cardinality(X) * Cardinality(Y)) * Cardinality(Z)
  <2> HIDE DEF X, Y, Z
  <2> QED BY <1>2 DEF Times, Extent, Dims
<1> QED BY <1>3, <1>8, <1>9, FS_Bijection

\* A number below the quotient, rounded up, starts an interval below the dividend.
LEMMA StartsBelow ==
    ASSUME NEW k \in Nat, NEW g \in Nat, NEW l \in Nat \ {0}, k < (g + l - 1) \div l
    PROVE  k * l < g
<1> DEFINE q == (g + l - 1) \div l
<1>1. g + l - 1 \in Nat
  BY SMT
<1>2. q \in Nat /\ q * l <= g + l - 1 /\ k < q
  BY <1>1, DivInterval
<1> HIDE DEF q
<1>3. (k + 1) * l <= q * l
  <2>1. CASE k + 1 = q
    BY <2>1, <1>2
  <2>2. CASE k + 1 < q
    <3>1. (k + 1 + 1) * l <= q * l
      BY <1>2, <2>2, IntervalsApart
    <3>2. (k + 1) * l <= (k + 1 + 1) * l
      BY SMT
    <3>3. (k + 1) * l \in Int /\ (k + 1 + 1) * l \in Int /\ q * l \in Int
      BY <1>2
    <3> QED BY <3>1, <3>2, <3>3
  <2> QED BY <1>2, <2>1, <2>2
<1>4. (k + 1) * l = k * l + l
  BY SMT
<1> QED BY <1>2, <1>3, <1>4

\* A group has the number of items that ItemCount() gives it.
LEMMA GroupItems ==
    ASSUME NEW g \in Size3, NEW l \in Size3, NEW wg \in Groups(g, l)
    PROVE  ItemCount(wg, g, l)
             = Cardinality({id \in Below(g) : Inside(id, wg, Range3(g, l))})
<1> DEFINE lo == MinWI(wg, l)
           hi == MaxWI(wg, g, l)
<1>1. wg \in Size3 /\ \A d \in Dims : wg[d] < NumGroups(g, l)[d]
  BY NumGroupsType, BelowBox DEF Groups
<1>2. ASSUME NEW d \in Dims
      PROVE  lo[d] \in Nat /\ hi[d] \in Int /\ lo[d] <= hi[d] /\ hi[d] < g[d]
  <2>1. wg[d] \in Nat /\ g[d] \in Nat /\ Clamp(l)[d] \in Nat \ {0}
    BY <1>1, <1>2, ClampPositive DEF Size3
  <2>2. wg[d] < (g[d] + Clamp(l)[d] - 1) \div Clamp(l)[d]
    BY <1>1, <1>2 DEF NumGroups
  <2>3. wg[d] * Clamp(l)[d] < g[d] /\ wg[d] * Clamp(l)[d] \in Nat
    BY <2>1, <2>2, StartsBelow
  <2>4. (wg[d] + 1) * Clamp(l)[d] = wg[d] * Clamp(l)[d] + Clamp(l)[d]
    BY <2>1
  <2>5. lo[d] = wg[d] * Clamp(l)[d]
    BY <1>2 DEF MinWI
  <2>6. hi[d] = Lower(g[d], wg[d] * Clamp(l)[d] + Clamp(l)[d]) - 1
    BY <1>2, <2>4 DEF MaxWI
  <2> HIDE DEF lo, hi
  <2> QED BY <2>1, <2>3, <2>5, <2>6 DEF Lower
<1>3. lo \in [Dims -> Int] /\ hi \in [Dims -> Int]
  BY <1>2 DEF MinWI, MaxWI
<1>4. ItemCount(wg, g, l) = Times(Extent(lo, hi))
  BY DEF ItemCount, Extent
<1>5. ASSUME NEW id
      PROVE  Inside(id, wg, Range3(g, l)) <=> \A d \in Dims : lo[d] <= id[d] /\ id[d] <= hi[d]
  BY DEF Inside, Range3
<1> HIDE DEF lo, hi
<1>6. {id \in Below(g) : Inside(id, wg, Range3(g, l))} = Box(lo, hi)
  <2>1. ASSUME NEW id \in Below(g), Inside(id, wg, Range3(g, l)) PROVE id \in Box(lo, hi)
    <3>1. id \in [Dims -> Int]
      BY BelowBox DEF Size3
    <3> QED BY <1>5, <2>1, <3>1 DEF Box
  <2>2. ASSUME NEW id \in Box(lo, hi) PROVE id \in Below(g) /\ Inside(id, wg, Range3(g, l))
    <3>1. id \in [Dims -> Int] /\ \A d \in Dims : lo[d] <= id[d] /\ id[d] <= hi[d]
      BY DEF Box
    <3>2. \A d \in Dims : id[d] \in Nat /\ id[d] < g[d]
      <4> SUFFICES ASSUME NEW d \in Dims PROVE id[d] \in Nat /\ id[d] < g[d]
        OBVIOUS
      <4> QED BY <1>2, <3>1 DEF Size3
    <3>3. id \in Size3
      BY <3>1, <3>2 DEF Size3
    <3> QED BY <1>5, <3>1, <3>2, <3>3, BelowBox
  <2> QED BY <2>1, <2>2
<1> QED BY <1>2, <1>3, <1>4, <1>6, BoxCount

(***************************************************************************)
(* ItemCountsRight, for all ranges, sizes and dimensions.                  *)
(***************************************************************************)
THEOREM ItemCountsRightAlways == Spec => []ItemCountsRight
<1>1. LaunchKnown => ItemCountsRight
  <2> SUFFICES ASSUME LaunchKnown, pc = "finished", NEW wg \in launch_info.work_groups
               PROVE  ItemCount(wg, launch_info.global_size, launch_info.local_size)
                        = Cardinality({id \in Below(launch_info.global_size) :
                                         Inside(id, wg, launch_info)})
    BY DEF ItemCountsRight
  <2> DEFINE g == Read(setup.global, setup.work_dim)
             l == read_local(setup.local, setup.named, setup.work_dim)
  <2>1. g \in Size3 /\ l \in Size3
    BY ReadTypes DEF LaunchKnown
  <2>2. /\ launch_info.global_size = g /\ launch_info.local_size = l
        /\ launch_info.work_groups = Groups(g, l)
    BY DEF LaunchKnown, LaunchInfo
  <2>3. ASSUME NEW id PROVE Inside(id, wg, launch_info) <=> Inside(id, wg, Range3(g, l))
    BY <2>2 DEF Inside, Range3
  <2>4. {id \in Below(g) : Inside(id, wg, launch_info)}
          = {id \in Below(g) : Inside(id, wg, Range3(g, l))}
    BY <2>3
  <2> HIDE DEF g, l
  <2> QED BY <2>1, <2>2, <2>4, GroupItems
<1> QED BY <1>1, LaunchKnownAlways, PTL

-----------------------------------------------------------------------------
(* The count of the dispatches.                                            *)

\* The groups of a range that is not empty are as many as the sizes say.
LEMMA GroupCount ==
    ASSUME NEW n \in Size3, \A d \in Dims : n[d] > 0
    PROVE  IsFiniteSet(Below(n)) /\ Cardinality(Below(n)) = Times(n)
<1> DEFINE lo == [d \in Dims |-> 0]
           hi == [d \in Dims |-> n[d] - 1]
<1>1. \A d \in Dims : n[d] \in Nat
  BY DEF Size3
<1>2. lo \in [Dims -> Int] /\ hi \in [Dims -> Int] /\ \A d \in Dims : lo[d] <= hi[d]
  BY <1>1
<1>3. Below(n) = Box(lo, hi)
  <2>1. ASSUME NEW p \in Below(n) PROVE p \in Box(lo, hi)
    <3>1. p \in Size3 /\ \A d \in Dims : p[d] < n[d]
      BY BelowBox
    <3> QED BY <1>1, <3>1 DEF Size3, Box
  <2>2. ASSUME NEW p \in Box(lo, hi) PROVE p \in Below(n)
    <3>1. p \in [Dims -> Int] /\ \A d \in Dims : lo[d] <= p[d] /\ p[d] <= hi[d]
      BY DEF Box
    <3>2. \A d \in Dims : p[d] \in Nat /\ p[d] < n[d]
      BY <1>1, <3>1
    <3> QED BY <3>1, <3>2, BelowBox DEF Size3
  <2> QED BY <2>1, <2>2
<1>4. Times(Extent(lo, hi)) = Times(n)
  BY <1>1 DEF Times, Extent, Dims
<1> HIDE DEF lo, hi
<1> QED BY <1>2, <1>3, <1>4, BoxCount

\* The kernel has as many groups as are printed, also if the host names a size
\* in a dimension that the kernel does not have.
LEMMA RealGroupCount ==
    ASSUME setup \in Setups
    PROVE  /\ IsFiniteSet(RealGroups)
           /\ setup.named => Cardinality(RealGroups)
                = Times(LaunchInfo(setup.global, setup.local, setup.named, setup.work_dim).num_groups)
<1> DEFINE r == Read(setup.global, setup.work_dim)
           l == Read(setup.local, setup.work_dim)
           n == NumGroups(r, setup.local)
<1>1. /\ setup.global \in Size3 /\ setup.local \in Size3 /\ setup.work_dim \in 1 .. 3
      /\ r \in Size3 /\ n \in Size3 /\ \A d \in Dims : r[d] > 0
  BY SetupAssumption, ReadTypes, RangeNotEmpty, NumGroupsType
<1>2. setup.named =>
        LaunchInfo(setup.global, setup.local, setup.named, setup.work_dim).num_groups = NumGroups(r, l)
  BY DEF LaunchInfo, read_local
<1>3. RealGroups = Below(n)
  BY DEF RealGroups, RealLocal, Groups
<1>4. \A d \in Dims : n[d] > 0
  <2>1. Point(0, 0, 0) \in Below(r)
    BY <1>1, BelowBox, PointType DEF Dims
  <2>2. GroupOf(Point(0, 0, 0), setup.local) \in Below(n)
    BY <1>1, <2>1, InsideItsGroup DEF Groups
  <2> HIDE DEF n
  <2>3. PICK p \in Size3 : \A d \in Dims : p[d] < n[d]
    BY <1>1, <2>2, BelowBox
  <2> QED BY <1>1, <2>3 DEF Size3
<1>5. n = NumGroups(r, l)
  <2>1. ASSUME NEW d \in Dims, l[d] # setup.local[d]
        PROVE  r[d] = 1 /\ l[d] = 1
    BY <1>1, <2>1 DEF Read, Point, Dims
  <2>2. ASSUME NEW d \in Dims
        PROVE  n[d] = (r[d] + Clamp(l)[d] - 1) \div Clamp(l)[d]
    <3>1. CASE l[d] = setup.local[d]
      BY <2>2, <3>1 DEF NumGroups, Clamp
    <3>2. CASE l[d] # setup.local[d]
      <4>1. r[d] = 1 /\ Clamp(l)[d] = 1 /\ Clamp(setup.local)[d] \in Nat \ {0}
        BY <1>1, <2>1, <2>2, <3>2, ClampPositive DEF Clamp
      <4>2. n[d] = (1 + Clamp(setup.local)[d] - 1) \div Clamp(setup.local)[d]
        BY <2>2, <4>1 DEF NumGroups
      <4>3. ASSUME NEW k \in Nat \ {0} PROVE (1 + k - 1) \div k = 1
        <5>1. k \in Nat /\ 1 * k <= k /\ k < (1 + 1) * k
          BY SMT
        <5>2. 1 = k \div k
          BY <5>1, DivUnique
        <5>3. 1 + k - 1 = k
          BY SMT
        <5> QED BY <5>2, <5>3
      <4>4. n[d] = 1
        BY <4>1, <4>2, <4>3
      <4>5. (1 + 1 - 1) \div 1 = 1
        BY SMT
      <4> QED BY <4>1, <4>4, <4>5
    <3> QED BY <3>1, <3>2
  <2> QED BY <2>2 DEF NumGroups
<1> HIDE DEF n, r, l
<1> QED BY <1>1, <1>2, <1>3, <1>4, <1>5, GroupCount

\* Stopped at a dispatch that is not handled yet.
Uncounted == {t \in Threads : pc \in {"wait", "handle"} /\ AtDispatchStop(t)}

\* Workers stop at a dispatch, or at the line that is broken at.
StopsKnown ==
    pc \in {"wait", "handle"} =>
      \A t \in Threads \ {main} : reason[t] = "breakpoint" =>
        at[t].place = "dispatch" \/ (at[t].place = "line" /\ line_breakpoint)

\* Of the one kernel's groups, each is counted, waits for a worker or waits for
\* the debugger.
GroupsAccounted ==
    setup.launches = 1 =>
      /\ launches = 1 =>
           /\ pc \in {"infer", "continue", "finished"} /\ dispatch_count = 0
           /\ reason[main] = "breakpoint" /\ process = "alive"
      /\ launches # 1 => launches = 0
      /\ launches = 0 =>
           /\ pc # "infer"
           /\ (OneWorker \/ ~setup.break_at) /\ (DebuggerLoops \/ process = "exited") =>
                dispatch_count + Cardinality(todo) + Cardinality(Uncounted)
                  = Cardinality(RealGroups)

ExitedIdle ==
    process = "exited" =>
      pc \in {"wait", "finished"} /\ todo = {} /\ \A t \in Threads : ~InKernel(t)

CountInv == ReportInv /\ StopsKnown /\ GroupsAccounted /\ ExitedIdle

\* Nobody who is in the kernel: nobody at a dispatch.
LEMMA NoneUncounted ==
    ASSUME \A t \in Threads : ~InKernel(t)
    PROVE  Uncounted = {}
BY DEF Uncounted, AtDispatchStop, InKernel

\* When the groups are gone and the workers idle, nobody is in the kernel.
LEMMA DoneIdle ==
    ASSUME ReportInv, KernelDone
    PROVE  todo = {} /\ \A t \in Threads : ~InKernel(t)
<1>1. setup.workers \subseteq Workers
  BY SetupAssumption DEF ReportInv, TypeInv
<1> QED BY <1>1 DEF KernelDone, ReportInv, KernelThreads, InKernel

\* What is counted are natural numbers.
LEMMA CountTypes ==
    ASSUME TypeInv
    PROVE  /\ IsFiniteSet(todo) /\ IsFiniteSet(Uncounted)
           /\ Cardinality(todo) \in Nat /\ Cardinality(Uncounted) \in Nat
           /\ Cardinality(RealGroups) \in Nat /\ dispatch_count \in Nat
<1>1. IsFiniteSet(Threads)
  BY ThreadAssumption, FS_AddElement DEF Threads
<1>2. IsFiniteSet(RealGroups)
  BY RealGroupCount DEF TypeInv
<1>3. IsFiniteSet(todo)
  BY <1>2, FS_Subset DEF TypeInv, TypeOK
<1>4. IsFiniteSet(Uncounted)
  BY <1>1, FS_Subset DEF Uncounted
<1> QED BY <1>2, <1>3, <1>4, FS_CardinalityType DEF TypeInv, TypeOK

\* The steps of the host program keep the count.
LEMMA HostKeepsCount ==
    ASSUME CountInv, Host
    PROVE  CountInv'
<1>0. /\ ReportInv /\ TypeInv /\ ReportInv' /\ TypeInv'
      /\ Workers \subseteq Threads /\ main \in Threads /\ main \notin Workers
  BY HostKeepsReports, ThreadAssumption DEF CountInv, ReportInv, Threads
<1>1. /\ UNCHANGED <<setup, pc, debuggerVars, launches>> /\ pc = "wait" /\ process = "alive"
      /\ process' = "exited" => KernelDone /\ UNCHANGED <<at, reason, todo>>
  BY <1>0, HostEffect
<1>2. /\ UNCHANGED <<wg_breakpoint, line_breakpoint, dispatch_count>> /\ wg_breakpoint
      /\ (OneWorker' <=> OneWorker) /\ RealGroups' = RealGroups
  BY <1>0, <1>1 DEF debuggerVars, OneWorker, RealGroups, RealLocal, ReportInv, Armed, DebuggerLoops
<1>3. ExitedIdle'
  BY <1>0, <1>1, DoneIdle DEF ExitedIdle, InKernel
<1>4. CASE UNCHANGED <<at, reason, todo>>
  <2>1. Uncounted' = Uncounted
    BY <1>1, <1>4 DEF Uncounted, AtDispatchStop
  <2>2. StopsKnown' /\ GroupsAccounted'
    BY <1>1, <1>2, <1>4, <2>1 DEF CountInv, StopsKnown, GroupsAccounted, DebuggerLoops
  <2> QED BY <1>0, <1>3, <2>2 DEF CountInv
<1>5. CASE ~UNCHANGED <<at, reason, todo>>
  <2>1. PICK t \in Threads :
          /\ reason[t] = "none"
          /\ \A u \in Threads \ {t} : at'[u] = at[u] /\ reason'[u] = reason[u]
          /\ GroupTaken(t) \/ KernelMove(t) \/ EnqueueMove(t)
    BY <1>0, <1>5, HostEffect
  <2>2. StopsKnown'
    <3> SUFFICES ASSUME NEW u \in Threads \ {main}, reason'[u] = "breakpoint"
                 PROVE  at'[u].place = "dispatch" \/ (at'[u].place = "line" /\ line_breakpoint)
      BY <1>2 DEF StopsKnown
    <3>1. CASE u # t
      BY <1>1, <2>1, <3>1 DEF CountInv, StopsKnown
    <3>2. CASE u = t
      BY <2>1, <3>2 DEF GroupTaken, KernelMove, EnqueueMove
    <3> QED BY <3>1, <3>2
  <2>3. GroupsAccounted'
    <3> SUFFICES ASSUME setup.launches = 1, launches = 0, OneWorker \/ ~setup.break_at
                 PROVE  dispatch_count + Cardinality(todo') + Cardinality(Uncounted')
                          = Cardinality(RealGroups)
      BY <1>1, <1>2 DEF CountInv, GroupsAccounted, DebuggerLoops
    <3>1. dispatch_count + Cardinality(todo) + Cardinality(Uncounted) = Cardinality(RealGroups)
      BY <1>1 DEF CountInv, GroupsAccounted, DebuggerLoops
    <3>2. t \notin Uncounted
      BY <2>1 DEF Uncounted, AtDispatchStop
    <3>3. CASE GroupTaken(t)
      <4>1. Uncounted' = Uncounted \cup {t}
        BY <1>1, <1>2, <2>1, <3>3 DEF Uncounted, AtDispatchStop, GroupTaken
      <4>2. Cardinality(Uncounted') = Cardinality(Uncounted) + 1
        BY <1>0, <3>2, <4>1, CountTypes, FS_AddElement
      <4>3. Cardinality(todo') = Cardinality(todo) - 1
        <5>1. PICK wg \in todo : todo' = todo \ {wg}
          BY <3>3 DEF GroupTaken
        <5>2. Cardinality(todo \ {wg}) = Cardinality(todo) - 1
          BY <1>0, CountTypes, FS_RemoveElement
        <5> QED BY <5>1, <5>2
      <4> QED BY <1>0, <3>1, <4>2, <4>3, CountTypes
    <3>4. CASE KernelMove(t)
      <4>1. Uncounted' = Uncounted
        BY <1>1, <2>1, <3>2, <3>4 DEF Uncounted, AtDispatchStop, KernelMove
      <4> QED BY <3>1, <3>4, <4>1 DEF KernelMove
    <3>5. CASE EnqueueMove(t)
      BY <3>5 DEF EnqueueMove
    <3> QED BY <2>1, <3>3, <3>4, <3>5
  <2> QED BY <1>0, <1>3, <2>2, <2>3 DEF CountInv
<1> QED BY <1>4, <1>5

\* The steps of the debugger keep the count.
LEMMA DebuggerKeepsCount ==
    ASSUME CountInv, Debugger
    PROVE  CountInv'
<1>0. ReportInv /\ TypeInv /\ ReportInv' /\ TypeInv' /\ main \in Threads
  BY DebuggerKeepsReports DEF CountInv, ReportInv, Threads
<1>1. CASE InferLaunch
  <2>1. /\ UNCHANGED <<setup, dispatch_count, launches, process, reason>>
        /\ pc = "infer" /\ pc' \in {"continue", "finished"}
    BY <1>1 DEF InferLaunch, hostVars
  <2>2. StopsKnown' /\ ExitedIdle' /\ GroupsAccounted'
    BY <2>1 DEF CountInv, StopsKnown, GroupsAccounted, ExitedIdle, DebuggerLoops
  <2> QED BY <1>0, <2>2 DEF CountInv
<1>2. CASE Continue
  <2>1. /\ UNCHANGED <<setup, dispatch_count, process>> /\ pc = "continue" /\ pc' = "wait"
        /\ \A t \in Threads : reason'[t] = "none"
    BY <1>2 DEF Continue, debuggerVars
  <2>2. Uncounted = {} /\ Uncounted' = {} /\ Cardinality({}) = 0
    BY <2>1, FS_EmptySet DEF Uncounted, AtDispatchStop
  <2>3. StopsKnown' /\ ExitedIdle'
    BY <2>1 DEF CountInv, StopsKnown, ExitedIdle
  <2>4. GroupsAccounted'
    <3> SUFFICES ASSUME setup.launches = 1
                 PROVE  /\ launches' = 0
                        /\ OneWorker \/ ~setup.break_at =>
                             dispatch_count + Cardinality(todo') + Cardinality(Uncounted')
                               = Cardinality(RealGroups)
      BY <2>1 DEF GroupsAccounted, OneWorker, RealGroups, RealLocal
    <3>1. CASE launches = 1
      <4>1. reason[main] = "breakpoint" /\ dispatch_count = 0
        BY <3>1 DEF CountInv, GroupsAccounted
      <4>2. todo' = RealGroups /\ launches' = 0
        BY <1>2, <3>1, <4>1 DEF Continue
      <4> QED BY <1>0, <2>2, <4>1, <4>2, CountTypes
    <3>2. CASE launches # 1
      <4>1. launches = 0
        BY <3>2 DEF CountInv, GroupsAccounted
      <4>2. reason[main] # "breakpoint"
        BY <1>0, <4>1 DEF TypeInv
      <4>3. UNCHANGED <<todo, launches>>
        BY <1>2, <4>2 DEF Continue
      <4> QED BY <2>1, <2>2, <4>1, <4>3 DEF CountInv, GroupsAccounted, DebuggerLoops
    <3> QED BY <3>1, <3>2
  <2> QED BY <1>0, <2>3, <2>4 DEF CountInv
<1>3. CASE Stop
  <2>1. /\ UNCHANGED <<setup, dispatch_count, line_breakpoint, at, todo, launches, process, reason>>
        /\ pc = "wait" /\ pc' = "handle" /\ process = "alive"
    BY <1>3 DEF Stop, debuggerVars, hostVars
  <2>2. Uncounted' = Uncounted
    BY <2>1 DEF Uncounted, AtDispatchStop
  <2>3. StopsKnown' /\ ExitedIdle' /\ GroupsAccounted'
    BY <2>1, <2>2 DEF CountInv, StopsKnown, GroupsAccounted, ExitedIdle, DebuggerLoops, OneWorker,
                      RealGroups, RealLocal
  <2> QED BY <1>0, <2>3 DEF CountInv
<1>4. CASE HandleDispatches
  <2>1. /\ UNCHANGED <<setup, todo, launches, process>> /\ pc = "handle" /\ pc' = "continue"
        /\ dispatch_count' = dispatch_count + Cardinality(AtBreakpoint)
    BY <1>4 DEF HandleDispatches, NoLineHit, RecordStopped
  <2>2. Uncounted' = {} /\ Cardinality({}) = 0
    BY <2>1, FS_EmptySet DEF Uncounted
  <2>3. launches = 0 => AtBreakpoint = Uncounted
    <3> SUFFICES ASSUME launches = 0, NEW t \in Threads
                 PROVE  reason[t] = "breakpoint" <=> AtDispatchStop(t)
      BY <2>1 DEF AtBreakpoint, Uncounted
    <3>1. t = main => reason[t] # "breakpoint"
      BY <1>0 DEF TypeInv
    <3>2. ~(line_breakpoint /\ reason[t] = "breakpoint" /\ at[t].place = "line")
      BY <1>4 DEF HandleDispatches, NoLineHit, AtLine
    <3> QED BY <2>1, <3>1, <3>2 DEF CountInv, StopsKnown, AtDispatchStop
  <2>4. GroupsAccounted'
    <3> SUFFICES ASSUME setup.launches = 1
                 PROVE  /\ launches = 0
                        /\ OneWorker \/ ~setup.break_at =>
                             dispatch_count' + Cardinality(todo) + Cardinality(Uncounted')
                               = Cardinality(RealGroups)
      BY <2>1 DEF GroupsAccounted, OneWorker, RealGroups, RealLocal
    <3>1. launches = 0
      BY <2>1 DEF CountInv, GroupsAccounted
    <3>2. OneWorker \/ ~setup.break_at =>
            dispatch_count + Cardinality(todo) + Cardinality(Uncounted) = Cardinality(RealGroups)
      BY <2>1, <3>1 DEF CountInv, GroupsAccounted, DebuggerLoops
    <3>3. dispatch_count' = dispatch_count + Cardinality(Uncounted)
      BY <2>1, <2>3, <3>1
    <3> QED BY <1>0, <2>2, <3>1, <3>2, <3>3, CountTypes
  <2>5. StopsKnown' /\ ExitedIdle'
    BY <2>1 DEF CountInv, StopsKnown, ExitedIdle
  <2> QED BY <1>0, <2>4, <2>5 DEF CountInv
<1>5. CASE Finish
  <2>1. /\ UNCHANGED <<setup, dispatch_count, at, todo, launches, process, reason>>
        /\ pc' = "finished" /\ pc \in {"wait", "handle"}
    BY <1>5 DEF Finish, NoLineHit, hostVars
  <2>2. StopsKnown' /\ ExitedIdle'
    BY <2>1 DEF CountInv, StopsKnown, ExitedIdle, InKernel
  <2>3. GroupsAccounted'
    <3>1. process = "exited" => Uncounted = {} /\ Uncounted' = {}
      BY <2>1, NoneUncounted DEF CountInv, ExitedIdle, Uncounted
    <3> QED BY <2>1, <3>1 DEF CountInv, GroupsAccounted, DebuggerLoops, OneWorker, RealGroups, RealLocal
  <2> QED BY <1>0, <2>2, <2>3 DEF CountInv
<1>6. CASE \E t \in Threads : HandleLine(t)
  <2>1. PICK t \in Threads : HandleLine(t)
    BY <1>6
  <2>2. /\ UNCHANGED <<setup, dispatch_count, at, todo, launches, process, reason>>
        /\ pc = "handle" /\ pc' = "continue" /\ line_breakpoint /\ at[t].place = "line"
    BY <2>1 DEF HandleLine, AtLine, hostVars
  <2>3. StopsKnown' /\ ExitedIdle'
    BY <2>2 DEF CountInv, StopsKnown, ExitedIdle
  <2>4. OneWorker => Uncounted = {}
    <3> SUFFICES ASSUME OneWorker, NEW u \in Threads, AtDispatchStop(u) PROVE FALSE
      BY DEF Uncounted
    <3>1. u \in setup.workers /\ t \in setup.workers
      BY <1>0, <2>2 DEF ReportInv, KernelThreads, InKernel, AtDispatchStop
    <3>2. u = t
      BY <1>0, <3>1, OnlyOne DEF TypeInv
    <3> QED BY <2>2, <3>2 DEF AtDispatchStop
  <2>5. setup.break_at /\ Uncounted' = {}
    BY <1>0, <2>2 DEF ReportInv, Armed, Uncounted
  <2>6. GroupsAccounted'
    BY <2>2, <2>4, <2>5
    DEF CountInv, GroupsAccounted, DebuggerLoops, OneWorker, RealGroups, RealLocal
  <2> QED BY <1>0, <2>3, <2>6 DEF CountInv
<1> QED BY <1>1, <1>2, <1>3, <1>4, <1>5, <1>6 DEF Debugger

\* The count is right all along.
LEMMA CountInvAlways == Spec => []CountInv
<1>1. Init => CountInv
  <2> SUFFICES ASSUME Init PROVE CountInv
    OBVIOUS
  <2>1. ReportInv
    BY ReportsAtStart
  <2>2. pc = "infer" /\ process = "alive" /\ dispatch_count = 0 /\ launches = setup.launches
        /\ reason[main] = "breakpoint"
    BY DEF Init, Threads
  <2>3. StopsKnown /\ GroupsAccounted /\ ExitedIdle
    BY <2>2 DEF StopsKnown, GroupsAccounted, ExitedIdle
  <2> QED BY <2>1, <2>3 DEF CountInv
<1>2. CountInv /\ [Next]_vars => CountInv'
  <2>1. ASSUME CountInv, UNCHANGED vars PROVE CountInv'
    <3>1. Uncounted' = Uncounted
      BY <2>1 DEF vars, hostVars, Uncounted, AtDispatchStop
    <3>2. ReportInv'
      BY <2>1, ReportsStutter DEF CountInv
    <3>3. StopsKnown' /\ GroupsAccounted' /\ ExitedIdle'
      BY <2>1, <3>1 DEF vars, debuggerVars, hostVars, CountInv, StopsKnown, GroupsAccounted,
                        ExitedIdle, DebuggerLoops, OneWorker, RealGroups, RealLocal, InKernel
    <3> QED BY <3>2, <3>3 DEF CountInv
  <2> QED BY <2>1, HostKeepsCount, DebuggerKeepsCount DEF Next
<1> QED BY <1>1, <1>2, PTL DEF Spec

(***************************************************************************)
(* EveryDispatchCounted: with any number of workers, whichever of them     *)
(* stop together, every work-group of the kernel is counted once.          *)
(***************************************************************************)
THEOREM EveryDispatchCountedAlways == Spec => []EveryDispatchCounted
<1>1. CountInv /\ LaunchKnown => EveryDispatchCounted
  <2> SUFFICES ASSUME CountInv, LaunchKnown, RanToTheEnd, setup.named, setup.launches = 1,
                      OneWorker \/ ~setup.break_at
               PROVE  dispatch_count = Times(launch_info.num_groups)
    BY DEF EveryDispatchCounted
  <2>1. todo = {} /\ Uncounted = {} /\ Cardinality({}) = 0
    BY NoneUncounted, FS_EmptySet DEF CountInv, ExitedIdle, RanToTheEnd
  <2>2. launches = 0
    BY DEF CountInv, GroupsAccounted, RanToTheEnd
  <2>3. dispatch_count + 0 + 0 = Cardinality(RealGroups)
    BY <2>1, <2>2 DEF CountInv, GroupsAccounted, RanToTheEnd
  <2>4. dispatch_count \in Nat
    BY DEF CountInv, ReportInv, TypeInv, TypeOK
  <2>5. Cardinality(RealGroups) = Times(launch_info.num_groups)
    BY RealGroupCount DEF LaunchKnown, RanToTheEnd
  <2> QED BY <2>3, <2>4, <2>5
<1> QED BY <1>1, CountInvAlways, LaunchKnownAlways, PTL

-----------------------------------------------------------------------------
(* The passes of the line.                                                 *)

WholeRange == Read(setup.global, setup.work_dim)
Total == Times(WholeRange)

\* The work-items of some groups.
Items(groups) == {id \in Below(WholeRange) : GroupOf(id, RealLocal) \in groups}

HitsLeft == setup.break_for = 0 \/ line_hit_count < setup.break_for

\* The only worker finds the line broken at, once its dispatch is handled, as
\* long as hits are wanted.
LineArmed ==
    OneWorker /\ setup.break_at /\ DebuggerLoops /\ HitsLeft =>
      \A t \in Threads : InKernel(t) =>
        line_breakpoint \/ (pc # "continue" /\ AtDispatchStop(t))

\* Between two kernels nothing runs, and after the last none is left.
BetweenKernels ==
    /\ reason[main] = "breakpoint" => todo = {} /\ \A t \in Threads : ~InKernel(t)
    /\ process = "exited" => launches = 0

\* A hit that is not handled yet has still to be counted.
AtNewLine(t) == at[t].place = "line" /\ reason[t] = "breakpoint" /\ pc \in {"wait", "handle"}
Ahead(t) ==
    IF ~InKernel(t) THEN 0
    ELSE IF at[t].place = "line" /\ ~AtNewLine(t) THEN at[t].left - 1 ELSE at[t].left

\* What has still to pass: in kernels, in groups, and in the worker's group.
Remaining(t) == launches * Total + Cardinality(Items(todo)) + Ahead(t)

\* The hits of so many passes.
Reported(passes) == IF setup.break_for > 0 THEN Lower(setup.break_for, passes) ELSE passes

PassesReported ==
    OneWorker /\ setup.break_at /\ (pc # "finished" \/ process = "exited") =>
      \A t \in setup.workers : line_hit_count = Reported(AllPasses - Remaining(t))

PassInv == LineArmed /\ BetweenKernels /\ PassesReported

\* A group that is taken takes its items along; the groups hold all items.
LEMMA ItemsCounted ==
    ASSUME setup \in Setups, NEW groups
    PROVE  /\ IsFiniteSet(Items(groups)) /\ Cardinality(Items(groups)) \in Nat
           /\ Cardinality(Items({})) = 0 /\ Cardinality(Items(RealGroups)) = Total
           /\ Total \in Nat
           /\ \A g \in groups \cap RealGroups :
                Cardinality(Items(groups \ {g})) = Cardinality(Items(groups)) - RealCount(g)
<1>1. WholeRange \in Size3 /\ RealLocal \in Size3 /\ \A d \in Dims : WholeRange[d] > 0
  BY SetupAssumption, ReadTypes, RangeNotEmpty DEF WholeRange, RealLocal
<1>2. IsFiniteSet(Below(WholeRange)) /\ Cardinality(Below(WholeRange)) = Total
  BY <1>1, GroupCount DEF Total
<1>3. ASSUME NEW S PROVE IsFiniteSet(Items(S)) /\ Cardinality(Items(S)) \in Nat
  BY <1>2, FS_Subset, FS_CardinalityType DEF Items
<1>4. RealGroups = Groups(WholeRange, RealLocal)
  BY DEF RealGroups, WholeRange
<1>5. Items(RealGroups) = Below(WholeRange)
  BY <1>1, <1>4, InsideItsGroup DEF Items
<1>6. Items({}) = {}
  BY DEF Items
<1>7. ASSUME NEW g \in groups, g \in RealGroups
      PROVE  Cardinality(Items(groups \ {g})) = Cardinality(Items(groups)) - RealCount(g)
  <2>1. Items(groups \ {g}) = Items(groups) \ Items({g})
    BY DEF Items
  <2>2. Items(groups) \cap Items({g}) = Items({g})
    BY <1>7 DEF Items
  <2>3. Items({g}) = {id \in Below(WholeRange) : Inside(id, g, Range3(WholeRange, RealLocal))}
    BY <1>1, <1>4, <1>7, InsideItsGroup, InsideNoOther DEF Items
  <2>4. Cardinality(Items({g})) = RealCount(g)
    BY <1>1, <1>4, <1>7, <2>3, GroupItems DEF RealCount, WholeRange
  <2>5. Cardinality(Items(groups) \ Items({g}))
          = Cardinality(Items(groups)) - Cardinality(Items(groups) \cap Items({g}))
    BY <1>3, FS_Difference
  <2> QED BY <2>1, <2>2, <2>4, <2>5
<1> QED BY <1>2, <1>3, <1>5, <1>6, <1>7, FS_EmptySet, FS_CardinalityType

\* What remains is a number.
LEMMA RemainingTypes ==
    ASSUME TypeInv, NEW t \in Threads
    PROVE  /\ Ahead(t) \in Int /\ Remaining(t) \in Int /\ AllPasses \in Int
           /\ launches \in Nat /\ line_hit_count \in Nat
           /\ setup.break_for \in Nat /\ setup.break_at \in BOOLEAN
<1>1. Ahead(t) \in Int
  BY DEF Ahead, TypeInv, Positions
<1>2. launches \in Nat /\ line_hit_count \in Nat /\ setup \in Setups
  BY DEF TypeInv, TypeOK
<1>3. /\ setup.break_for \in Nat /\ setup.break_at \in BOOLEAN /\ setup.launches \in Nat
  BY <1>2, SetupAssumption
<1>4. Total \in Nat /\ Cardinality(Items(todo)) \in Nat
  BY <1>2, ItemsCounted
<1>5. launches * Total \in Int /\ Total * setup.launches \in Int
  BY <1>2, <1>3, <1>4
<1>6. AllPasses = Total * setup.launches
  BY DEF AllPasses, Total, WholeRange
<1> QED BY <1>1, <1>2, <1>3, <1>4, <1>5, <1>6 DEF Remaining

\* One more pass is one more hit, as long as hits are wanted.
LEMMA OneMorePass ==
    ASSUME setup.break_for \in Nat, line_hit_count \in Nat, NEW p \in Int,
           line_hit_count = Reported(p)
    PROVE  Reported(p + 1) = IF HitsLeft THEN line_hit_count + 1 ELSE line_hit_count
BY DEF Reported, Lower, HitsLeft

\* The only worker is no main thread, and whoever is in the kernel is it.
LEMMA TheWorker ==
    ASSUME ReportInv, OneWorker, NEW t \in setup.workers
    PROVE  /\ t \in Threads /\ t \in Workers /\ t # main /\ main \in Threads
           /\ \A u \in Threads : InKernel(u) => u = t
<1>1. setup \in Setups /\ setup.workers \subseteq Workers
  BY SetupAssumption DEF ReportInv, TypeInv
<1>2. \A u \in Threads : InKernel(u) => u \in setup.workers
  BY DEF ReportInv, KernelThreads
<1> QED BY <1>1, <1>2, OnlyOne, ThreadAssumption DEF Threads

\* A step of the host program takes a pass away only where no hit is wanted.
LEMMA HostPasses ==
    ASSUME CountInv, PassInv, Host, OneWorker, setup.break_at, NEW t \in setup.workers
    PROVE  Remaining(t)' = Remaining(t) \/ (Remaining(t)' = Remaining(t) - 1 /\ ~HitsLeft)
<1>0. /\ ReportInv /\ TypeInv /\ at \in Positions /\ reason \in Reasons /\ setup \in Setups
      /\ launches \in Nat
  BY DEF CountInv, ReportInv, TypeInv, TypeOK, Reasons
<1>1. /\ UNCHANGED <<setup, pc, launches, line_hit_count, line_breakpoint>> /\ pc = "wait"
      /\ wg_breakpoint
  BY <1>0, HostEffect DEF debuggerVars, ReportInv, Armed, DebuggerLoops
<1>2. /\ t \in Threads /\ t \in Workers /\ t # main /\ main \in Threads
      /\ \A u \in Threads : InKernel(u) => u = t
  BY <1>0, TheWorker
<1>3. Total' = Total /\ (Items(todo)' = Items(todo')) /\ Total \in Nat
  BY <1>0, <1>1, ItemsCounted DEF Total, WholeRange, Items, RealLocal
<1>4. launches * Total \in Int /\ Cardinality(Items(todo)) \in Int /\ Ahead(t) \in Int
  BY <1>0, <1>2, <1>3, ItemsCounted, RemainingTypes
<1>5. Remaining(t)' = launches * Total + Cardinality(Items(todo')) + Ahead(t)'
  BY <1>1, <1>3 DEF Remaining
<1>6. ASSUME UNCHANGED todo, Ahead(t)' = Ahead(t) PROVE Remaining(t)' = Remaining(t)
  BY <1>5, <1>6 DEF Remaining
<1>7. ASSUME NEW u \in Workers, TakeGroup(u) PROVE Remaining(t)' = Remaining(t)
  <2>1. u = t
    BY <1>0, <1>7, OnlyOne DEF TakeGroup
  <2>2. PICK g \in todo :
          /\ todo' = todo \ {g}
          /\ at' = [at EXCEPT ![t] = [place |-> "dispatch", group |-> g, left |-> RealCount(g)]]
    BY <1>7, <2>1 DEF TakeGroup
  <2>3. g \in RealGroups /\ RealCount(g) \in Int
    BY <1>0, RealGroupTypes DEF TypeInv, TypeOK
  <2>4. at[t].place = "idle" /\ at'[t].place = "dispatch" /\ at'[t].left = RealCount(g)
    BY <1>0, <1>2, <1>7, <2>1, <2>2 DEF TakeGroup, Positions
  <2>5. Ahead(t) = 0 /\ Ahead(t)' = RealCount(g)
    BY <2>4 DEF Ahead, InKernel
  <2>6. Cardinality(Items(todo')) = Cardinality(Items(todo)) - RealCount(g)
    BY <1>0, <2>2, <2>3, ItemsCounted
  <2> QED BY <1>4, <1>5, <2>3, <2>5, <2>6 DEF Remaining
<1>8. ASSUME NEW u \in Workers, ReachLine(u)
      PROVE  Remaining(t)' = Remaining(t) \/ (Remaining(t)' = Remaining(t) - 1 /\ ~HitsLeft)
  <2>1. u = t
    BY <1>2, <1>8 DEF ReachLine, InKernel, Threads
  <2>2. /\ at[t].place \in {"dispatch", "kernel"} /\ reason[t] = "none" /\ UNCHANGED todo
        /\ at' = [at EXCEPT ![t].place = "line"]
        /\ reason' = IF line_breakpoint THEN [reason EXCEPT ![t] = "breakpoint"] ELSE reason
    BY <1>8, <2>1 DEF ReachLine, Running, Arrive
  <2>3. at'[t].place = "line" /\ at'[t].left = at[t].left
    BY <1>0, <1>2, <2>2 DEF Positions
  <2>4. Ahead(t) = at[t].left
    BY <2>2 DEF Ahead, InKernel
  <2>5. CASE line_breakpoint
    <3>1. reason'[t] = "breakpoint"
      BY <1>0, <1>2, <2>2, <2>5 DEF Reasons
    <3>2. Ahead(t)' = at[t].left
      BY <1>1, <2>3, <3>1 DEF Ahead, InKernel, AtNewLine
    <3> QED BY <1>6, <2>2, <2>4, <3>2
  <2>6. CASE ~line_breakpoint
    <3>1. ~HitsLeft
      BY <1>1, <1>2, <2>2, <2>6 DEF PassInv, LineArmed, DebuggerLoops, InKernel, AtDispatchStop
    <3>2. reason'[t] = "none"
      BY <2>2, <2>6
    <3>3. Ahead(t)' = at[t].left - 1
      BY <2>3, <3>2 DEF Ahead, InKernel, AtNewLine
    <3>4. Remaining(t)' = Remaining(t) - 1
      BY <1>4, <1>5, <2>2, <2>4, <3>3 DEF Remaining
    <3> QED BY <3>1, <3>4
  <2> QED BY <2>5, <2>6
<1>9. ASSUME NEW u \in Workers, PassLine(u) \/ LeaveKernel(u) \/ Fault(u)
      PROVE  Remaining(t)' = Remaining(t)
  <2>1. u = t
    BY <1>2, <1>9 DEF PassLine, LeaveKernel, Fault, InKernel, Threads
  <2>2. reason[t] = "none" /\ UNCHANGED todo /\ at[t].left \in Int
    BY <1>0, <1>2, <1>9, <2>1 DEF PassLine, LeaveKernel, Fault, Running, Positions
  <2>3. CASE PassLine(t)
    <3>1. at[t].place = "line" /\ at'[t].place = "kernel" /\ at'[t].left = at[t].left - 1
      BY <1>0, <1>2, <2>3 DEF PassLine, Positions
    <3>2. Ahead(t) = at[t].left - 1 /\ Ahead(t)' = at[t].left - 1
      BY <2>2, <3>1 DEF Ahead, InKernel, AtNewLine
    <3> QED BY <1>6, <2>2, <3>2
  <2>4. CASE LeaveKernel(t)
    <3>1. at[t].place = "kernel" /\ at'[t].place = "idle" /\ at[t].left = 0
      BY <1>0, <1>2, <2>4 DEF LeaveKernel, Positions
    <3>2. Ahead(t) = 0 /\ Ahead(t)' = 0
      BY <3>1 DEF Ahead, InKernel
    <3> QED BY <1>6, <2>2, <3>2
  <2>5. CASE Fault(t)
    <3>1. at[t].place = "kernel" /\ at' = at
      BY <2>5 DEF Fault
    <3>2. Ahead(t)' = Ahead(t)
      BY <3>1 DEF Ahead, InKernel
    <3> QED BY <1>6, <2>2, <3>2
  <2> QED BY <1>9, <2>1, <2>3, <2>4, <2>5
<1>10. CASE EnqueueAgain \/ HostEnds
  <2>1. UNCHANGED todo /\ at'[t] = at[t] /\ reason'[t] = reason[t]
    BY <1>0, <1>2, <1>10 DEF EnqueueAgain, HostEnds, Arrive, Positions, Reasons
  <2>2. Ahead(t)' = Ahead(t)
    BY <1>1, <2>1 DEF Ahead, InKernel, AtNewLine
  <2> QED BY <1>6, <2>1, <2>2
<1> QED BY <1>7, <1>8, <1>9, <1>10 DEF Host

\* The loop of the debugger takes a pass away where it counts a hit.
LEMMA DebuggerPasses ==
    ASSUME CountInv, PassInv, Debugger, OneWorker, setup.break_at, NEW t \in setup.workers,
           pc' # "finished" \/ process' = "exited"
    PROVE  \/ Remaining(t)' = Remaining(t) /\ line_hit_count' = line_hit_count
           \/ /\ Remaining(t)' = Remaining(t) - 1 /\ line_hit_count' = line_hit_count + 1
              /\ line_breakpoint
<1>0. /\ ReportInv /\ TypeInv /\ at \in Positions /\ setup \in Setups /\ launches \in Nat
      /\ setup' = setup
  BY DEF CountInv, ReportInv, TypeInv, TypeOK, Debugger, InferLaunch, Continue, Stop,
         HandleDispatches, Finish, HandleLine
<1>1. /\ t \in Threads /\ t \in Workers /\ t # main /\ main \in Threads
      /\ \A u \in Threads : InKernel(u) => u = t
  BY <1>0, TheWorker
<1>2. Total' = Total /\ (Items(todo)' = Items(todo')) /\ Total \in Nat
  BY <1>0, ItemsCounted DEF Total, WholeRange, Items, RealLocal
<1>3. launches * Total \in Int /\ Cardinality(Items(todo)) \in Int /\ Ahead(t) \in Int
  BY <1>0, <1>1, <1>2, ItemsCounted, RemainingTypes
<1>4. Remaining(t)' = launches' * Total + Cardinality(Items(todo')) + Ahead(t)'
  BY <1>2 DEF Remaining
<1>5. ASSUME UNCHANGED <<todo, launches>>, Ahead(t)' = Ahead(t) PROVE Remaining(t)' = Remaining(t)
  BY <1>4, <1>5 DEF Remaining
<1>6. CASE InferLaunch
  <2>1. UNCHANGED <<at, reason, todo, launches, line_hit_count>> /\ ~InKernel(t)
    BY <1>0, <1>1, <1>6 DEF InferLaunch, hostVars, ReportInv, KernelThreads
  <2>2. Ahead(t)' = Ahead(t)
    BY <2>1 DEF Ahead, InKernel
  <2> QED BY <1>5, <2>1, <2>2
<1>7. CASE Continue
  <2>1. /\ pc = "continue" /\ pc' = "wait" /\ reason'[t] = "none" /\ at'[t] = at[t]
        /\ line_hit_count' = line_hit_count
    BY <1>0, <1>1, <1>7 DEF Continue, debuggerVars, Positions
  <2>2. Ahead(t)' = Ahead(t)
    BY <2>1 DEF Ahead, InKernel, AtNewLine
  <2>3. CASE reason[main] = "breakpoint"
    <3>1. todo' = RealGroups /\ launches' = launches - 1
      BY <1>7, <2>3 DEF Continue
    <3>2. todo = {} /\ launches > 0
      BY <1>0, <2>3 DEF PassInv, BetweenKernels, TypeInv
    <3>3. Cardinality(Items(todo)) = 0 /\ Cardinality(Items(todo')) = Total
      BY <1>0, <3>1, <3>2, ItemsCounted
    <3>4. (launches - 1) * Total = launches * Total - Total
      BY <1>0, <1>2, SMT
    <3>5. Remaining(t)' = (launches * Total - Total) + Total + Ahead(t)
      BY <1>4, <2>2, <3>1, <3>3, <3>4
    <3>6. Remaining(t) = launches * Total + Ahead(t)
      BY <1>3, <3>3 DEF Remaining
    <3> QED BY <1>2, <1>3, <2>1, <3>5, <3>6
  <2>4. CASE reason[main] # "breakpoint"
    BY <1>5, <1>7, <2>1, <2>2, <2>4 DEF Continue
  <2> QED BY <2>3, <2>4
<1>8. CASE Stop
  <2>1. /\ UNCHANGED <<at, reason, todo, launches, line_hit_count>> /\ pc = "wait" /\ pc' = "handle"
    BY <1>8 DEF Stop, hostVars, debuggerVars
  <2>2. Ahead(t)' = Ahead(t)
    BY <2>1 DEF Ahead, InKernel, AtNewLine
  <2> QED BY <1>5, <2>1, <2>2
<1>9. CASE HandleDispatches
  <2>1. /\ UNCHANGED <<reason, todo, launches, line_hit_count>>
        /\ pc = "handle" /\ pc' = "continue" /\ ~AtLine(t)
    BY <1>1, <1>9 DEF HandleDispatches, NoLineHit
  <2>2. ~AtNewLine(t) /\ ~AtNewLine(t)'
    BY <1>1, <2>1 DEF AtNewLine, AtLine, CountInv, StopsKnown
  <2>3. at'[t].left = at[t].left /\ (at'[t].place = "line" <=> at[t].place = "line")
        /\ (InKernel(t)' <=> InKernel(t))
    <3>1. CASE at' = at
      BY <3>1 DEF InKernel
    <3>2. ASSUME NEW u \in AtBreakpoint, at[u].place = "dispatch", at' = [at EXCEPT ![u].place = "kernel"]
          PROVE  /\ at'[t].left = at[t].left /\ (at'[t].place = "line" <=> at[t].place = "line")
                 /\ (InKernel(t)' <=> InKernel(t))
      BY <1>0, <1>1, <3>2 DEF Positions, InKernel
    <3> QED BY <1>9, <3>1, <3>2 DEF HandleDispatches, InspectFirst
  <2>4. Ahead(t)' = Ahead(t)
    BY <2>2, <2>3 DEF Ahead
  <2> QED BY <1>5, <2>1, <2>4
<1>10. CASE Finish
  <2>1. UNCHANGED <<at, todo, launches, line_hit_count, process>> /\ pc' = "finished"
    BY <1>10 DEF Finish, hostVars
  <2>2. ~InKernel(t)
    BY <1>1, <2>1 DEF CountInv, ExitedIdle
  <2>3. Ahead(t)' = Ahead(t)
    BY <2>1, <2>2 DEF Ahead, InKernel
  <2> QED BY <1>5, <2>1, <2>3
<1>11. CASE \E u \in Threads : HandleLine(u)
  <2>1. PICK u \in Threads : HandleLine(u)
    BY <1>11
  <2>2. /\ UNCHANGED <<at, reason, todo, launches>> /\ line_hit_count' = line_hit_count + 1
        /\ pc = "handle" /\ pc' = "continue" /\ line_breakpoint
        /\ at[u].place = "line" /\ reason[u] = "breakpoint"
    BY <2>1 DEF HandleLine, AtLine, hostVars
  <2>3. u = t
    BY <1>1, <2>2 DEF InKernel
  <2>4. Ahead(t) = at[t].left /\ Ahead(t)' = at[t].left - 1
    BY <2>2, <2>3 DEF Ahead, InKernel, AtNewLine
  <2>5. Remaining(t)' = Remaining(t) - 1
    BY <1>3, <1>4, <2>2, <2>4 DEF Remaining
  <2> QED BY <2>2, <2>5
<1> QED BY <1>6, <1>7, <1>8, <1>9, <1>10, <1>11 DEF Debugger

\* The line is broken at as long as hits are wanted, whoever steps.
LEMMA LineStaysArmed ==
    ASSUME CountInv, PassInv, Next PROVE LineArmed'
<1>0. ReportInv /\ TypeInv /\ at \in Positions /\ main \in Threads
  BY DEF CountInv, ReportInv, TypeInv, Threads
<1>1. CASE Host
  <2>1. /\ UNCHANGED <<setup, pc, line_hit_count, line_breakpoint>> /\ pc = "wait" /\ wg_breakpoint
    BY <1>0, <1>1, HostEffect DEF debuggerVars, ReportInv, Armed, DebuggerLoops
  <2> SUFFICES ASSUME OneWorker, setup.break_at, HitsLeft, NEW u \in Threads, InKernel(u)'
               PROVE  line_breakpoint \/ AtDispatchStop(u)'
    BY <2>1 DEF LineArmed, OneWorker, HitsLeft
  <2>2. InKernel(u) => line_breakpoint \/ AtDispatchStop(u)
    BY <2>1 DEF PassInv, LineArmed, DebuggerLoops
  <2>3. CASE UNCHANGED <<at, reason, todo>>
    BY <2>2, <2>3 DEF InKernel, AtDispatchStop
  <2>4. CASE ~UNCHANGED <<at, reason, todo>>
    <3>1. PICK t \in Threads :
            /\ reason[t] = "none"
            /\ \A v \in Threads \ {t} : at'[v] = at[v] /\ reason'[v] = reason[v]
            /\ GroupTaken(t) \/ KernelMove(t) \/ EnqueueMove(t)
      BY <1>0, <1>1, <2>4, HostEffect
    <3>2. CASE u # t
      BY <2>2, <3>1, <3>2 DEF InKernel, AtDispatchStop
    <3>3. CASE u = t
      BY <2>1, <2>2, <3>1, <3>3
      DEF InKernel, AtDispatchStop, GroupTaken, KernelMove, EnqueueMove
    <3> QED BY <3>2, <3>3
  <2> QED BY <2>3, <2>4
<1>2. CASE InferLaunch
  <2>1. UNCHANGED at /\ \A u \in Threads : ~InKernel(u)
    BY <1>0, <1>2 DEF InferLaunch, hostVars, ReportInv, KernelThreads
  <2> QED BY <2>1 DEF LineArmed, InKernel
<1>3. CASE Continue
  <2>1. /\ UNCHANGED <<setup, line_hit_count, line_breakpoint>> /\ pc = "continue" /\ pc' = "wait"
    BY <1>3 DEF Continue, debuggerVars
  <2>2. \A u \in Threads : InKernel(u)' => InKernel(u)
    <3>1. CASE UNCHANGED at
      BY <3>1 DEF InKernel
    <3>2. CASE at' = [at EXCEPT ![main].place = "waiting"]
      BY <1>0, <3>2 DEF InKernel, Positions
    <3> QED BY <1>3, <3>1, <3>2 DEF Continue
  <2> QED BY <2>1, <2>2 DEF PassInv, LineArmed, OneWorker, HitsLeft, DebuggerLoops
<1>4. CASE Stop
  BY <1>4 DEF Stop, debuggerVars, hostVars, PassInv, LineArmed, OneWorker, HitsLeft, DebuggerLoops,
              InKernel, AtDispatchStop
<1>5. CASE HandleDispatches
  <2>1. /\ UNCHANGED <<setup, line_hit_count>>
        /\ setup.break_at /\ HitsLeft => line_breakpoint'
    BY <1>5 DEF HandleDispatches, ArmLine, HitsLeft
  <2> QED BY <2>1 DEF LineArmed, HitsLeft
<1>6. CASE Finish
  BY <1>6 DEF Finish, LineArmed, DebuggerLoops
<1>7. CASE \E u \in Threads : HandleLine(u)
  <2>1. PICK u \in Threads : HandleLine(u)
    BY <1>7
  <2>2. /\ setup' = setup /\ line_hit_count' \in Nat /\ setup.break_for \in Nat
        /\ line_breakpoint' = ~(setup.break_for > 0 /\ line_hit_count' >= setup.break_for)
    BY <1>0, <2>1, RemainingTypes DEF HandleLine
  <2>3. HitsLeft' => line_breakpoint'
    <3>1. CASE setup.break_for > 0 /\ line_hit_count' >= setup.break_for
      BY <2>2, <3>1 DEF HitsLeft
    <3>2. CASE ~(setup.break_for > 0 /\ line_hit_count' >= setup.break_for)
      BY <2>2, <3>2, Zenon
    <3> QED BY <3>1, <3>2
  <2> QED BY <2>3 DEF LineArmed
<1> QED BY <1>1, <1>2, <1>3, <1>4, <1>5, <1>6, <1>7 DEF Next, Debugger

\* Nothing runs where the main thread enqueues a kernel, and the program ends
\* when it has enqueued all of them.
LEMMA KernelsApart ==
    ASSUME CountInv, PassInv, Next PROVE BetweenKernels'
<1>0. ReportInv /\ TypeInv /\ at \in Positions /\ reason \in Reasons /\ main \in Threads
      /\ Workers \subseteq Threads /\ main \notin Workers
  BY ThreadAssumption DEF CountInv, ReportInv, TypeInv, TypeOK, Reasons, Threads
<1>1. CASE Host
  <2>1. process' = "exited" => launches' = 0
    <3>1. UNCHANGED launches /\ process = "alive"
      BY <1>0, <1>1, HostEffect
    <3>2. CASE HostEnds
      BY <3>1, <3>2 DEF HostEnds
    <3>3. CASE ~HostEnds
      <4>1. process' # "exited"
        BY <1>1, <3>1, <3>3
        DEF Host, TakeGroup, ReachLine, PassLine, LeaveKernel, Fault, EnqueueAgain
      <4> QED BY <4>1
    <3> QED BY <3>2, <3>3
  <2>2. ASSUME reason'[main] = "breakpoint" PROVE todo' = {} /\ \A u \in Threads : ~InKernel(u)'
    <3>1. CASE UNCHANGED <<at, reason, todo>>
      BY <2>2, <3>1 DEF PassInv, BetweenKernels, InKernel
    <3>2. CASE ~UNCHANGED <<at, reason, todo>>
      <4>1. PICK t \in Threads :
              /\ reason[t] = "none"
              /\ \A v \in Threads \ {t} : at'[v] = at[v] /\ reason'[v] = reason[v]
              /\ GroupTaken(t) \/ KernelMove(t) \/ EnqueueMove(t)
        BY <1>0, <1>1, <3>2, HostEffect
      <4>2. CASE t = main
        <5>1. EnqueueMove(t)
          BY <1>0, <4>1, <4>2 DEF GroupTaken, KernelMove
        <5>2. todo = {} /\ \A u \in Threads : ~InKernel(u)
          BY <5>1, DoneIdle DEF EnqueueMove, CountInv
        <5> QED BY <4>1, <5>1, <5>2 DEF EnqueueMove, InKernel
      <4>3. CASE t # main
        <5>1. todo = {} /\ ~InKernel(t)
          BY <1>0, <2>2, <4>1, <4>3 DEF PassInv, BetweenKernels
        <5> QED BY <4>1, <4>3, <5>1 DEF GroupTaken, KernelMove, EnqueueMove
      <4> QED BY <4>2, <4>3
    <3> QED BY <3>1, <3>2
  <2> QED BY <2>1, <2>2 DEF BetweenKernels
<1>2. CASE InferLaunch \/ Stop \/ Finish \/ \E u \in Threads : HandleLine(u)
  <2>1. UNCHANGED <<at, todo, reason, launches, process>>
    BY <1>2 DEF InferLaunch, Stop, Finish, HandleLine, hostVars
  <2> QED BY <2>1 DEF PassInv, BetweenKernels, InKernel
<1>3. CASE Continue
  <2>1. reason'[main] = "none" /\ pc = "continue" /\ UNCHANGED process
    BY <1>0, <1>3 DEF Continue
  <2>2. process # "exited"
    BY <2>1 DEF CountInv, ExitedIdle
  <2> QED BY <2>1, <2>2 DEF BetweenKernels
<1>4. CASE HandleDispatches
  <2>1. /\ UNCHANGED <<todo, reason, launches, process>>
        /\ \A u \in Threads : InKernel(u)' <=> InKernel(u)
    BY <1>0, <1>4, InspectionRight DEF HandleDispatches
  <2> QED BY <2>1 DEF PassInv, BetweenKernels
<1> QED BY <1>1, <1>2, <1>3, <1>4 DEF Next, Debugger

\* Every step keeps the count of the hits right.
LEMMA PassesStayReported ==
    ASSUME CountInv, LineHitsLeft, PassInv, Next PROVE PassesReported'
<1>0. TypeInv /\ setup' = setup
  <2>1. CASE Host
    BY <2>1, HostEffect DEF CountInv, ReportInv
  <2>2. CASE Debugger
    BY <2>2 DEF CountInv, ReportInv, Debugger, InferLaunch, Continue, Stop, HandleDispatches, Finish,
                HandleLine
  <2> QED BY <2>1, <2>2 DEF Next, CountInv, ReportInv
<1> SUFFICES ASSUME OneWorker, setup.break_at, NEW t \in setup.workers,
                    pc' # "finished" \/ process' = "exited"
             PROVE  line_hit_count' = Reported(AllPasses - Remaining(t)')
  BY <1>0 DEF PassesReported, OneWorker, Reported, AllPasses
<1>1. t \in Threads
  BY TheWorker DEF CountInv
<1>2. /\ Remaining(t) \in Int /\ AllPasses \in Int /\ line_hit_count \in Nat /\ setup.break_for \in Nat
  BY <1>0, <1>1, RemainingTypes
<1>3. pc # "finished"
  BY DEF Next, Host, TakeGroup, ReachLine, PassLine, LeaveKernel, Fault, EnqueueAgain, HostEnds,
         Running, Debugger, InferLaunch, Continue, Stop, HandleDispatches, NoLineHit, Finish, HandleLine
<1>4. line_hit_count = Reported(AllPasses - Remaining(t))
  BY <1>3 DEF PassInv, PassesReported
<1>5. Reported(AllPasses - Remaining(t) + 1) = IF HitsLeft THEN line_hit_count + 1 ELSE line_hit_count
  BY <1>2, <1>4, OneMorePass
<1>6. AllPasses - (Remaining(t) - 1) = AllPasses - Remaining(t) + 1
  BY <1>2
<1>7. CASE Host
  <2>1. line_hit_count' = line_hit_count
    BY <1>0, <1>7, HostEffect DEF debuggerVars
  <2> QED BY <1>4, <1>5, <1>6, <1>7, <2>1, HostPasses
<1>8. CASE Debugger
  <2>1. line_breakpoint => HitsLeft
    BY <1>2 DEF LineHitsLeft, HitsLeft
  <2> QED BY <1>4, <1>5, <1>6, <1>8, <2>1, DebuggerPasses
<1> QED BY <1>7, <1>8 DEF Next

(***************************************************************************)
(* EveryPassReported: with one worker the line is reported at every pass,  *)
(* break_for times at most, over all groups of all kernels: what has been  *)
(* reported and what has still to pass are together what there is.         *)
(***************************************************************************)
THEOREM EveryPassReportedAlways == Spec => []EveryPassReported
<1>1. Init => PassInv
  <2> SUFFICES ASSUME Init PROVE PassInv
    OBVIOUS
  <2>1. /\ setup \in Setups /\ pc = "infer" /\ process = "alive" /\ todo = {} /\ line_hit_count = 0
        /\ launches = setup.launches /\ \A t \in Threads : ~InKernel(t)
    BY DEF Init, InKernel
  <2>2. PassesReported
    <3> SUFFICES ASSUME OneWorker, NEW t \in setup.workers
                 PROVE  0 = Reported(AllPasses - Remaining(t))
      BY <2>1 DEF PassesReported
    <3>1. TypeInv /\ t \in Threads
      BY TheWorker, ReportsAtStart DEF ReportInv
    <3>2. Ahead(t) = 0 /\ Cardinality(Items(todo)) = 0 /\ Total \in Nat
      BY <2>1, <3>1, ItemsCounted DEF Ahead
    <3>3. AllPasses = Total * setup.launches /\ setup.launches \in Nat
      BY <2>1, SetupAssumption DEF AllPasses, Total, WholeRange
    <3>4. Remaining(t) = launches * Total
      BY <2>1, <3>2, <3>3 DEF Remaining
    <3>5. launches * Total = Total * setup.launches
      BY <2>1, <3>2, <3>3
    <3>6. AllPasses \in Int /\ setup.break_for \in Nat
      BY <3>1, RemainingTypes
    <3> QED BY <3>3, <3>4, <3>5, <3>6 DEF Reported, Lower
  <2> QED BY <2>1, <2>2 DEF PassInv, LineArmed, BetweenKernels, DebuggerLoops
<1>2. CountInv /\ LineHitsLeft /\ PassInv /\ [Next]_vars => PassInv'
  <2>1. ASSUME PassInv, UNCHANGED vars PROVE PassInv'
    BY <2>1 DEF vars, debuggerVars, hostVars, PassInv, LineArmed, BetweenKernels, PassesReported,
                OneWorker, DebuggerLoops, HitsLeft, InKernel, AtDispatchStop, AtNewLine, Ahead,
                Remaining, Reported, AllPasses, Total, WholeRange, Items, RealLocal
  <2> QED BY <2>1, LineStaysArmed, KernelsApart, PassesStayReported DEF PassInv
<1>3. CountInv /\ PassInv => EveryPassReported
  <2> SUFFICES ASSUME CountInv, PassInv, RanToTheEnd, OneWorker, setup.break_at
               PROVE  line_hit_count = Reported(AllPasses)
    BY DEF EveryPassReported, Reported
  <2>1. PICK t \in setup.workers : TRUE
    BY SetupAssumption DEF CountInv, ReportInv, TypeInv
  <2>2. TypeInv /\ t \in Threads /\ setup \in Setups
    BY TheWorker DEF CountInv, ReportInv, TypeInv
  <2>3. launches = 0 /\ todo = {} /\ ~InKernel(t)
    BY <2>2 DEF PassInv, BetweenKernels, CountInv, ExitedIdle, RanToTheEnd
  <2>4. Remaining(t) = 0
    <3>1. Cardinality(Items(todo)) = 0 /\ Total \in Nat /\ Ahead(t) = 0
      BY <2>2, <2>3, ItemsCounted DEF Ahead
    <3>2. 0 * Total = 0
      BY <3>1
    <3> QED BY <2>3, <3>1, <3>2 DEF Remaining
  <2>5. AllPasses - 0 = AllPasses
    BY <2>2, RemainingTypes
  <2> QED BY <2>4, <2>5 DEF PassInv, PassesReported, RanToTheEnd
<1> QED BY <1>1, <1>2, <1>3, CountInvAlways, LineHitsLeftAlways, PTL DEF Spec
=============================================================================
