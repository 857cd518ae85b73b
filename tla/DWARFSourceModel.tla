--------------------------- MODULE DWARFSourceModel ---------------------------
(***************************************************************************)
(* Lines, addresses, variables and types of a loaded object                *)
(* (ocldbg/dwarf/DWARFSourceModel.cpp), and the line a breakpoint resolves *)
(* to (resolve_one_breakpoint of ocldbg/DebuggerContext.cpp).              *)
(*                                                                         *)
(* The line table is the sequence of its rows, over all units.  A path is  *)
(* the sequence of its parts, the last of which is the extension.  The DIEs*)
(* are a sequence in the order of the file, a parent before its children.  *)
(***************************************************************************)
EXTENDS Integers, Sequences
LOCAL INSTANCE SequencesExt

NoLine == 0
NoDie == 0

Least(S) == CHOOSE n \in S : \A m \in S : n <= m
Greatest(S) == CHOOSE n \in S : \A m \in S : m <= n

(***************************************************************************)
(* Lines                                                                   *)
(***************************************************************************)
IsKernelPath(path) == path # <<>> /\ path[Len(path)] = "cl"

\* Any kernel file is taken for any other: pocl compiles a copy under its own name.
matches_source_file(filter, path) ==
    filter = <<>> \/ IsSuffix(filter, path) \/ (IsKernelPath(filter) /\ IsKernelPath(path))

RowsOf(rows, filter) ==
    {rows[k] : k \in {k \in DOMAIN rows : matches_source_file(filter, rows[k].file)}}

find_pcs_for_line(rows, line, filter) ==
    {r.address : r \in {r \in RowsOf(rows, filter) : r.line = line}}

\* Wrong variant: the last line with code is taken, not the next one.
find_next_line_last(rows, line, filter) ==
    LET lines == {r.line : r \in {r \in RowsOf(rows, filter) : r.line > line}}
    IN IF lines = {} THEN NoLine ELSE Greatest(lines)

find_next_line(rows, line, filter) ==
    LET lines == {r.line : r \in {r \in RowsOf(rows, filter) : r.line > line}}
    IN IF lines = {} THEN NoLine ELSE Least(lines)

source_to_pcs(rows, loc) ==
    LET here == find_pcs_for_line(rows, loc.line, loc.file)
        next == find_next_line(rows, loc.line, loc.file)
    IN IF here = {} /\ loc.line > 0 /\ next # NoLine
       THEN find_pcs_for_line(rows, next, loc.file) ELSE here

\* LLVM's lookup: the last row at the greatest address up to pc, unless a
\* sequence of rows has ended since.
pc_to_source(rows, pc) ==
    LET upto == {k \in DOMAIN rows : rows[k].address <= pc /\ ~rows[k].end}
        near == {k \in upto : \A j \in upto : rows[j].address <= rows[k].address}
        k == Greatest(near)
        ended == \E j \in DOMAIN rows : /\ rows[j].end
                                       /\ rows[k].address < rows[j].address /\ rows[j].address <= pc
    IN IF upto = {} \/ ended
       THEN NoLine ELSE rows[k].line

\* Where a breakpoint is put, and the line it is shown at.
Unresolved(loc) == [resolved |-> FALSE, address |-> 0, line |-> loc.line]
resolve_one_breakpoint(rows, loc) ==
    LET pcs == source_to_pcs(rows, loc)
        shown == pc_to_source(rows, Least(pcs))
    IN IF pcs = {} THEN Unresolved(loc)
       ELSE [resolved |-> TRUE, address |-> Least(pcs),
             line |-> IF shown # NoLine THEN shown ELSE loc.line]

(***************************************************************************)
(* Variables                                                               *)
(***************************************************************************)
Covers(die, pc) == die.lo <= pc /\ pc < die.hi

\* LLVM: the innermost function, inlined or not, that contains the address.
getSubroutineForAddress(dies, unit, pc) ==
    LET at == {k \in DOMAIN dies : /\ dies[k].unit = unit /\ Covers(dies[k], pc)
                                   /\ dies[k].tag \in {"subprogram", "inlined"}}
    IN IF at = {} THEN NoDie ELSE Greatest(at)

\* Wrong variant: every block is entered, whether the address is in it or not.
EnteredAlways(die, pc) == die.tag \in {"inlined", "block"}

\* A block is entered when the address is in it, an inlined call always.
Entered(die, pc) ==
    \/ die.tag = "inlined"
    \/ die.tag = "block" /\ (pc = 0 \/ Covers(die, pc))

\* The named variables below a DIE.
collect_die_vars(dies, root, pc) ==
    LET reached[k \in DOMAIN dies] ==
            \/ dies[k].parent = root
            \/ /\ dies[k].parent # NoDie
               /\ Entered(dies[dies[k].parent], pc)
               /\ reached[dies[k].parent]
    IN {k \in DOMAIN dies : dies[k].tag = "variable" /\ dies[k].name # "" /\ reached[k]}

\* A unit contributes the function at the address; while nothing was found, it
\* contributes all of its functions instead.
UnitVars(found, dies, unit, pc) ==
    LET sub == getSubroutineForAddress(dies, unit, pc)
        more == found \cup (IF sub = NoDie THEN {} ELSE collect_die_vars(dies, sub, pc))
        all == {k \in DOMAIN dies : dies[k].unit = unit /\ dies[k].tag = "subprogram"}
    IN IF more # {} THEN more ELSE UNION {collect_die_vars(dies, k, pc) : k \in all}

\* Of two variables of one name the first is kept.
append_unique_var(found, dies) ==
    {k \in found : \A j \in found : dies[j].name = dies[k].name => k <= j}

variables_in_scope(dies, units, pc) ==
    LET found[u \in 0 .. units] == IF u = 0 THEN {} ELSE UnitVars(found[u - 1], dies, u, pc)
    IN append_unique_var(found[units], dies)

(***************************************************************************)
(* Types: a type names itself, or refers to an earlier type (or to none).  *)
(***************************************************************************)
type_names(types) ==
    LET name[t \in DOMAIN types] ==
            LET to == types[t].to
                inner == IF to = NoDie THEN <<>> ELSE name[to]
            IN CASE types[t].tag = "pointer" -> Append(IF to = NoDie THEN <<"void">> ELSE inner, "*")
                 [] types[t].tag = "const" -> <<"const">> \o inner
                 [] types[t].tag \in {"volatile", "restrict"} ->
                        IF to = NoDie THEN <<"void">> ELSE inner
                 [] types[t].tag = "array" -> Append(inner, "[]")
                 [] OTHER -> types[t].name
    IN name

=============================================================================
