------------------------------ MODULE Bytecode ------------------------------
(* The binary of a unit, as the compiler writes it and the interpreter reads *)
(* it: opcodes, the operands that follow them, their sizes in bytes, and     *)
(* what the code of a function can look like. No state.                      *)
EXTENDS RefManager

ConstOps   == {"ldcst", "ldcststr"}
SlotOps    == {"ldlc", "strlc", "vri", "vrs"}   \* checked against local_slots
ArgOps     == {"ldarg", "strarg"}               \* checked against local_args
LocalOps   == SlotOps \cup ArgOps
ArithOps   == {"sub", "mul", "div", "mod", "shl", "shr", "pwr"}
CompareOps == {"ceq", "cgt", "cge", "clt", "cle"}
TestOps    == {"beq", "bgt", "bge", "blt", "ble"}
BoolOps    == {"brt", "brf"}
JumpOps    == {"br"} \cup TestOps \cup BoolOps
UnaryOps   == {"uno", "ung", "uin"}

\* Opcodes of ir_opcode.def that init_opcode_table leaves out.
UnhandledOps == {"nop", "and", "or", "xor", "upn", "newobj", "ldnull", "idata", "strdata"}

PlainOps == {"add", "newarr", "strelm", "ldelm", "ret", "endmet"}
                \cup ArithOps \cup CompareOps \cup UnaryOps \cup UnhandledOps

Byte   == 0..255
Values16 == 65536   \* how many values a uint16_t has
UInt16 == 0..(Values16 - 1)
Self   == 32767      \* 0x7FFF, "this unit" in a call

Slots == 200         \* local_slots.size()
Args  == 30          \* local_args.size()

Instr ==
    [op : PlainOps]
        \cup [op : ConstOps, cst : Element]
        \cup [op : LocalOps, idx : Byte]
        \cup [op : JumpOps, to : Nat]
        \cup [op : {"call"}, unit : UInt16, func : UInt16]
        \cup [op : {"met"}, argc : UInt16]

\* Bytes of an instruction: the opcode and its operands.
Width(op) ==
    CASE op \in ConstOps \cup JumpOps -> 10
      [] op \in LocalOps              -> 3
      [] op = "call"                  -> 6
      [] op = "met"                   -> 12
      [] OTHER                        -> 2

(* A program is [units, entries]: units[u] is [funcs, refs], where funcs is  *)
(* a sequence of functions from instruction addresses to instructions and    *)
(* refs the unit reference table; entries are the functions the host calls.  *)

StdUnit == "std"
StdFunctions == <<"print", "sin", "print", "print", "length">>

WellFormedCode(code) ==
    /\ DOMAIN code \subseteq Nat /\ 0 \in DOMAIN code
    /\ \A a \in DOMAIN code :
        /\ code[a] \in Instr
        /\ (code[a].op = "met") <=> (a = 0)
        /\ code[a].op \in JumpOps => code[a].to \in DOMAIN code \ {0}
        /\ code[a].op \notin {"br", "endmet"} => a + Width(code[a].op) \in DOMAIN code
        /\ \A b \in DOMAIN code : b > a => b >= a + Width(code[a].op)

WellFormed(p) ==
    /\ StdUnit \notin DOMAIN p.units
    /\ \A u \in DOMAIN p.units : \A f \in DOMAIN p.units[u].funcs :
            WellFormedCode(p.units[u].funcs[f])
    /\ \A e \in p.entries :
            e[1] \in DOMAIN p.units /\ e[2] \in DOMAIN p.units[e[1]].funcs

=============================================================================
