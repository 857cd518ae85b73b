--------------------------- MODULE DWARFExpressions ---------------------------
(***************************************************************************)
(* The location expressions the CPU debugger evaluates itself              *)
(* (eval_from_dwarf_expr of ocldbg/backends/cpu/PoclCPUBackend.cpp), over  *)
(* words of WordBits bits, ints of IntBits and LEB128 bytes of Payload bits*)
(* (64, 32 and 7 in the code).  A byte is the record of its low bits and   *)
(* its continuation bit.                                                   *)
(*                                                                         *)
(* A value is where it was read, how many bytes, and the offsets of the    *)
(* elements that are shown; its rendering as text is left out.             *)
(***************************************************************************)
EXTENDS Integers, Sequences
LOCAL INSTANCE SequencesExt

CONSTANTS WordBits, IntBits, Payload, NamedRegs

ASSUME WordAssumption ==
    /\ WordBits \in Nat \ {0} /\ Payload \in Nat \ {0} /\ NamedRegs \in Nat
    /\ IntBits \in 1 .. WordBits

\* A number cut to its lowest bits, and read as a signed one.
Word(n) == n % 2 ^ WordBits
SignedIn(n, bits) ==
    LET low == n % 2 ^ bits IN IF low < 2 ^ (bits - 1) THEN low ELSE low - 2 ^ bits
Signed(n) == SignedIn(n, WordBits)

(***************************************************************************)
(* LEB128                                                                  *)
(***************************************************************************)
\* The bytes up to the first without continuation bit.
Consumed(bytes) ==
    LET ends == {k \in DOMAIN bytes : ~bytes[k].more}
    IN IF ends = {} THEN bytes
       ELSE SubSeq(bytes, 1, CHOOSE k \in ends : \A j \in ends : k <= j)
Bits(bytes) ==
    FoldLeft(LAMBDA sum, k : Word(sum + bytes[k].low * 2 ^ (Payload * (k - 1))), 0,
             [k \in DOMAIN bytes |-> k])

decode_uleb128(bytes) == Bits(Consumed(bytes))

\* Wrong variant: the sign is looked for in the first byte.
decode_sleb128_first(bytes) ==
    LET used == Consumed(bytes)
        shift == Payload * Len(used)
    IN IF used # <<>> /\ shift < WordBits /\ used[1].low >= 2 ^ (Payload - 1)
       THEN Signed(Word(Bits(used) - 2 ^ shift)) ELSE Signed(Bits(used))

\* The last byte's high bit is the sign, if it does not reach the word's end.
decode_sleb128(bytes) ==
    LET used == Consumed(bytes)
        shift == Payload * Len(used)
    IN IF used # <<>> /\ shift < WordBits /\ used[Len(used)].low >= 2 ^ (Payload - 1)
       THEN Signed(Word(Bits(used) - 2 ^ shift)) ELSE Signed(Bits(used))

(***************************************************************************)
(* Types                                                                   *)
(***************************************************************************)
ElemSize == [name \in {"char", "uchar", "short", "ushort", "half", "int", "uint", "float", "long",
                       "ulong", "double"} |->
    CASE name \in {"char", "uchar"} -> 1
      [] name \in {"short", "ushort", "half"} -> 2
      [] name \in {"int", "uint", "float"} -> 4
      [] OTHER -> 8]
Counts == {2, 3, 4, 8, 16}
Suffix(n) == CASE n = 2 -> "2" [] n = 3 -> "3" [] n = 4 -> "4" [] n = 8 -> "8" [] OTHER -> "16"

\* parse_ocl_vector_type: an element's name followed by a count.
IsVector(type) ==
    Len(type) = 2 /\ type[1] \in DOMAIN ElemSize /\ \E n \in Counts : type[2] = Suffix(n)
CountOf(type) == CHOOSE n \in Counts : type[2] = Suffix(n)

ocl_vector_storage_count(n) == IF n = 3 THEN 4 ELSE n
VectorBytes(type) == ElemSize[type[1]] * ocl_vector_storage_count(CountOf(type))
VectorLanes(type) == [k \in 1 .. CountOf(type) |-> (k - 1) * ElemSize[type[1]]]

IsPointer(type) == type # <<>> /\ type[Len(type)] = "*"
IsInt(type) == type \in {<<"int">>, <<"signed", "int">>}
IsFloat(type) == type = <<"float">>

(***************************************************************************)
(* Evaluation.  A frame has a frame pointer and a stack pointer (0 when    *)
(* unknown), the values of its registers (by their DWARF numbers) with the *)
(* bytes each holds, and the readable part of memory.                      *)
(***************************************************************************)
Unavailable == [from |-> "none", at |-> 0, size |-> 0, lanes |-> <<>>]
Value(from, at, size, lanes) == [from |-> from, at |-> at, size |-> size, lanes |-> lanes]
Scalar == <<0>>

MemorySize(type) ==
    CASE IsVector(type)  -> VectorBytes(type)
      [] IsInt(type)     -> 4
      [] IsFloat(type)   -> 4
      [] IsPointer(type) -> 8
      [] OTHER           -> 0
Lanes(type) == IF IsVector(type) THEN VectorLanes(type) ELSE Scalar

eval_from_memory(frame, addr, type) ==
    LET size == MemorySize(type) IN
    IF addr \in {0, 2 ^ WordBits - 1} \/ size = 0 \/ ~ (addr .. addr + size - 1 \subseteq frame.readable)
    THEN Unavailable ELSE Value("memory", addr, size, Lanes(type))

\* dwarf_register_name() and FindRegister().
HasRegister(frame, reg) == reg < NamedRegs /\ reg \in DOMAIN frame.regs

\* A register shows what its type needs of it, or else all of it.
RegisterSize(frame, reg, type) ==
    IF MemorySize(type) > 0 THEN MemorySize(type) ELSE frame.regs[reg].bytes
eval_from_register(frame, reg, type) ==
    IF ~HasRegister(frame, reg) \/ (IsVector(type) /\ frame.regs[reg].bytes < VectorBytes(type))
    THEN Unavailable
    ELSE Value("register", reg, RegisterSize(frame, reg, type), Lanes(type))

\* The bytes of the value follow, with their number in one byte.
eval_implicit_value(expr, type) ==
    IF \/ IsVector(type) /\ expr.length = VectorBytes(type)
       \/ type \in {<<"float">>, <<"int">>} /\ expr.length = 4
    THEN Value("expression", 0, expr.length, Lanes(type)) ELSE Unavailable

eval_const(n) == Value("number", n, 0, Scalar)

\* A computed value is shown as its type asks.
eval_stack_value(n, type) ==
    Value("number", IF IsInt(type) THEN SignedIn(n, IntBits) ELSE n, 0, Scalar)

eval_breg(frame, expr, type) ==
    IF ~HasRegister(frame, expr.reg) THEN Unavailable
    ELSE LET addr == Word(frame.regs[expr.reg].value + decode_sleb128(expr.operand))
         IN IF expr.stack_value THEN eval_stack_value(addr, type)
                                ELSE eval_from_memory(frame, addr, type)

\* The frame base is taken to be the frame pointer, or the stack pointer.
eval_fbreg(frame, expr, type) ==
    LET base == IF frame.fp \in {0, 2 ^ WordBits - 1} THEN frame.sp ELSE frame.fp
    IN eval_from_memory(frame, Word(base + decode_sleb128(expr.operand)), type)

\* One operation, by its code; what follows it is not looked at.
eval_from_dwarf_expr(frame, expr, type) ==
    CASE expr.op = "reg"      -> eval_from_register(frame, expr.reg, type)
      [] expr.op = "regx"     -> eval_from_register(frame, decode_uleb128(expr.operand), type)
      [] expr.op = "implicit" -> eval_implicit_value(expr, type)
      [] expr.op = "lit"      -> eval_const(expr.reg)
      [] expr.op = "consts"   -> eval_const(decode_sleb128(expr.operand))
      [] expr.op = "constu"   -> eval_const(Signed(decode_uleb128(expr.operand)))
      [] expr.op = "breg"     -> eval_breg(frame, expr, type)
      [] expr.op = "fbreg"    -> eval_fbreg(frame, expr, type)
      [] OTHER                -> Unavailable

=============================================================================
