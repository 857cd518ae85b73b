------------------------------- MODULE NDRange -------------------------------
(***************************************************************************)
(* The NDRange of a kernel launch, as the CPU debugger infers it at        *)
(* clEnqueueNDRangeKernel (ocldbg/DebuggerContext.cpp, CPUABI.cpp).        *)
(*                                                                         *)
(* A Size3 is a function on the dimensions; every computation of the code  *)
(* treats the dimensions alike, except that of the sample work-items.      *)
(***************************************************************************)
EXTENDS Integers, FiniteSets

Dims == {"x", "y", "z"}
Size3 == [Dims -> Nat]
Times(s) == s["x"] * s["y"] * s["z"]
Point(x, y, z) == [d \in Dims |-> CASE d = "x" -> x [] d = "y" -> y [] d = "z" -> z]
Below(n) == {Point(x, y, z) : x \in 0 .. n["x"] - 1, y \in 0 .. n["y"] - 1, z \in 0 .. n["z"] - 1}

\* A size of 0 counts as 1.
Clamp(local) == [d \in Dims |-> IF local[d] > 0 THEN local[d] ELSE 1]

\* What clEnqueueNDRangeKernel's arguments say: dimensions beyond work_dim have
\* size 1, and so has every dimension of a local size the host left to pocl.
Read(size, work_dim) ==
    Point(size["x"], IF work_dim > 1 THEN size["y"] ELSE 1, IF work_dim > 2 THEN size["z"] ELSE 1)
read_local(local, named, work_dim) == IF named THEN Read(local, work_dim) ELSE Point(1, 1, 1)

\* Wrong variant: the last, incomplete group is forgotten.
NumGroupsFloor(g, l) == [d \in Dims |-> g[d] \div Clamp(l)[d]]

NumGroups(g, l) == [d \in Dims |-> (g[d] + Clamp(l)[d] - 1) \div Clamp(l)[d]]

MinWI(wg, l) == [d \in Dims |-> wg[d] * Clamp(l)[d]]

Lower(a, b) == IF a < b THEN a ELSE b

\* Wrong variant: the last group is not cut off at the end of the range.
MaxWIUncut(wg, g, l) == [d \in Dims |-> (wg[d] + 1) * Clamp(l)[d] - 1]

MaxWI(wg, g, l) == [d \in Dims |-> Lower(g[d], (wg[d] + 1) * Clamp(l)[d]) - 1]

Groups(g, l) == Below(NumGroups(g, l))

ItemCount(wg, g, l) ==
    Times([d \in Dims |-> MaxWI(wg, g, l)[d] - MinWI(wg, l)[d] + 1])

\* The group of a work-item.
GroupOf(id, l) == [d \in Dims |-> id[d] \div Clamp(l)[d]]

\* Wrong variant: the first item of the second group, also when there is none.
SampleItemsUnguarded(g, l) == {Point(0, 0, 0), Point(Clamp(l)["x"], 0, 0)}

\* The work-items shown as samples of the mapping.
SampleItems(g, l) ==
    LET lx == Clamp(l)["x"] IN
    {Point(0, 0, 0)}
        \cup (IF lx > 1 THEN {Point(lx - 1, 0, 0)} ELSE {})
        \cup (IF g["x"] > lx THEN {Point(lx, 0, 0), Point(g["x"] - 1, 0, 0)} ELSE {})
        \cup (IF g["y"] > 1 THEN {Point(0, 1, 0)} ELSE {})
        \cup (IF g["z"] > 1 THEN {Point(0, 0, 1)} ELSE {})

\* The launch of a kernel: KernelLaunchInfo.
LaunchInfo(global, local, named, work_dim) ==
    LET g == Read(global, work_dim)
        l == read_local(local, named, work_dim)
    IN [global_size |-> g, local_size |-> l, num_groups |-> NumGroups(g, l),
        work_groups |-> Groups(g, l), samples |-> SampleItems(g, l)]

=============================================================================
