----------------------------- MODULE Exceptions -----------------------------
(***************************************************************************)
(* Exceptions (src/exceptions/exceptions_asm.S, exceptions.c) and system   *)
(* calls (src/syscall/syscall.c): some code runs, an instruction traps or  *)
(* an interrupt arrives, the processor enters the vector table, the        *)
(* assembly saves the context on the stack, a C handler works on it as a   *)
(* saved_registers_t, and the assembly restores it and returns.            *)
(*                                                                         *)
(* The vector table, the layout of the frame and what happens to the       *)
(* registers in which order are as in the assembly.  What the processor    *)
(* does on entry and return, and what compiled C leaves of the registers,  *)
(* is not the repository's and marked external.                            *)
(***************************************************************************)
EXTENDS Integers, Sequences

CONSTANTS
  Programs,     \* interrupted code: sequences over Instructions, in a loop
  PStates,      \* the processor states it may run in
  STACK_TOP,    \* SP_EL1 while it runs
  SP0_BASE,     \* SP_EL0 while it runs
  GENERATIONS   \* bound: how many different contents its registers take

Instructions == {"op", "svc", "brk", "abort"}
Interrupts == {"irq", "fiq", "serror"}

(* Modes in PSTATE and SPSR; the D, A, I, F masks are moved together.      *)
EL0t    == 0
AArch32 == 16
EL1t    == 4
EL1h    == 5
DAIF    == 960

Mode(p)   == p % 32
Masked(p) == p >= DAIF

Regs == 0 .. 30

(* The frame save_context builds, in bytes from the stack pointer: pairs   *)
(* of registers, then SPSR_EL1 and ELR_EL1, then SP_EL0.                   *)
FRAME_SIZE    == 288
RegOffset(i)  == 16 * (i \div 2) + 8 * (i % 2)
SPSR_OFFSET   == 16 * 15 + 8
ELR_OFFSET    == SPSR_OFFSET + 8
SP_EL0_OFFSET == 16 * 16 + 8

(* The same frame as the C code sees it: struct saved_registers_t.         *)
CONTEXT_ELR == 8 * 31 + 8

Slots == {STACK_TOP - 8 * i : i \in 1 .. FRAME_SIZE \div 8}

ASSUME ExceptionConstants ==
  /\ \A p \in Programs : p \in Seq(Instructions) /\ Len(p) > 0
  /\ PStates \subseteq {m + d : m \in {EL0t, EL1t, EL1h, AArch32},
                                d \in {0, DAIF}}
  /\ STACK_TOP \in Nat /\ STACK_TOP % 16 = 0 /\ STACK_TOP > FRAME_SIZE
  /\ SP0_BASE \in Nat
  /\ GENERATIONS \in Nat \ {0}

VARIABLES
  code,      \* the interrupted program
  pc,        \* its next instruction, in bytes from its start
  pstate, x, sp, sp_el0, spsr_el1, elr_el1, esr_el1,   \* the processor
  mem,       \* the stack, by address
  at,        \* what the processor executes: see At
  pending,   \* interrupt lines that are raised
  gen,       \* which contents the registers have, mod GENERATIONS
  taken      \* history: the exception being handled, and what it interrupted

cpu  == <<pc, pstate, x, sp, sp_el0, spsr_el1, elr_el1, esr_el1>>
vars == <<code, cpu, mem, at, pending, gen, taken>>

(* "run" the code; "save" and "restore": save_context, restore_context;    *)
(* "sync" ... "serror": in that C handler; "halted": panic's loop;         *)
(* "wedged": the loop of the AArch32 vectors.                              *)
Handlers == {"sync"} \cup Interrupts
At == {"run", "save", "restore", "halted", "wedged"} \cup Handlers

Contents(g) == [i \in Regs |-> 100 * (g + 1) + i]

Here == [pc |-> pc, pstate |-> pstate, x |-> x, sp |-> sp, sp_el0 |-> sp_el0]

Advance(n) == n % (4 * Len(code))

Instruction == code[(pc \div 4) + 1]

-----------------------------------------------------------------------------
(* The interrupted code: an ordinary instruction gives the registers new   *)
(* contents.                                                               *)
RunOp ==
  /\ at = "run" /\ Instruction = "op"
  /\ gen' = (gen + 1) % GENERATIONS
  /\ x' = Contents(gen')
  /\ sp_el0' = SP0_BASE + 16 * gen'
  /\ pc' = Advance(pc + 4)
  /\ UNCHANGED <<code, pstate, sp, spsr_el1, elr_el1, esr_el1, mem, at,
                 pending, taken>>

(* External: the address an exception returns to (the next instruction for *)
(* SVC, this one otherwise) and the exception class it reports in ESR_EL1. *)
PreferredReturn(kind) == IF kind = "svc" THEN Advance(pc + 4) ELSE pc

EC_SVC   == 21    \* 0b010101
EC_BRK   == 60    \* 0b111100
EC_ABORT == 37    \* 0b100101

ExceptionClass(kind) ==
  CASE kind = "svc" -> EC_SVC [] kind = "brk" -> EC_BRK
    [] kind = "abort" -> EC_ABORT

(* The vector table: the AArch32 vectors loop, all others lead to          *)
(* save_context.                                                           *)
Vector(mode) == IF mode = AArch32 THEN "wedged" ELSE "save"

(* External: the processor takes an exception to EL1, on SP_EL1, with all  *)
(* interrupts masked, and branches to the vector of the interrupted mode.  *)
Enter(kind) ==
  /\ taken' = [kind |-> kind, from |-> Here]
  /\ spsr_el1' = pstate
  /\ elr_el1' = PreferredReturn(kind)
  /\ pstate' = EL1h + DAIF
  /\ at' = Vector(Mode(pstate))
  /\ UNCHANGED <<code, pc, x, sp, sp_el0, mem, pending, gen>>

Trap ==
  /\ at = "run" /\ Instruction # "op"
  /\ Enter(Instruction)
  /\ esr_el1' = ExceptionClass(Instruction)

TakeInterrupt(k) ==
  /\ at = "run" /\ k \in pending /\ ~Masked(pstate)
  /\ Enter(k)
  /\ UNCHANGED esr_el1

(* External: a device raises its line.                                     *)
Raise(k) ==
  /\ k \notin pending
  /\ pending' = pending \cup {k}
  /\ UNCHANGED <<code, cpu, mem, at, gen, taken>>

(* The register that save_context stores at offset o: x(2k) and x(2k+1)    *)
(* at 16k.                                                                 *)
RegOffsets == {RegOffset(i) : i \in Regs}
RegAt(o)   == 2 * (o \div 16) + (o % 16) \div 8

(* What save_context leaves at offset o of its frame; was: what was there. *)
SavedAt(o, was) ==
  CASE o = SPSR_OFFSET   -> spsr_el1
    [] o = ELR_OFFSET    -> elr_el1
    [] o = SP_EL0_OFFSET -> sp_el0
    [] o \in RegOffsets  -> x[RegAt(o)]
    [] OTHER             -> was

(* External: compiled C preserves x19 to x29; bl has overwritten x30.      *)
Junk == 9999
AfterC(regs) == [i \in Regs |-> IF i \in 19 .. 29 THEN regs[i] ELSE Junk]

HandlerOf(kind) == IF kind \in Interrupts THEN kind ELSE "sync"

(* save_context stores x0-x30, then the system registers by way of x0-x2,  *)
(* and the handler is called with the frame in x0.                         *)
SaveContext ==
  /\ at = "save"
  /\ sp' = sp - FRAME_SIZE
  /\ mem' = [a \in Slots |-> SavedAt(a - sp', mem[a])]
  /\ x' = [x EXCEPT ![0] = sp', ![1] = elr_el1, ![2] = sp_el0]
  /\ at' = HandlerOf(taken.kind)
  /\ UNCHANGED <<code, pc, pstate, sp_el0, spsr_el1, elr_el1, esr_el1,
                 pending, gen, taken>>

(* panic masks interrupts, as they already are here, and loops.            *)
Panic == at' = "halted"

(* Mutant: instructions taken for two bytes long.                          *)
SkipTwoBytes ==
  mem' = [mem EXCEPT ![sp + CONTEXT_ELR] = Advance(@ + 2)]

(* context->elr_el1 += 4, with the context at the stack pointer.           *)
SkipInstruction ==
  mem' = [mem EXCEPT ![sp + CONTEXT_ELR] = Advance(@ + 4)]

HandleSyscall == SkipInstruction

(* Mutant: BRK returns to itself.                                          *)
HandleBrkAgain == UNCHANGED mem

HandleBrk == SkipInstruction

(* handle_sync_exception: BRK and SVC return, everything else panics.      *)
HandleSyncException ==
  /\ at = "sync"
  /\ x' = AfterC(x)
  /\ \/ /\ esr_el1 = EC_BRK
        /\ HandleBrk
        /\ at' = "restore"
     \/ /\ esr_el1 = EC_SVC
        /\ HandleSyscall
        /\ at' = "restore"
     \/ /\ esr_el1 \notin {EC_BRK, EC_SVC}
        /\ UNCHANGED mem
        /\ Panic
  /\ UNCHANGED <<code, pc, pstate, sp, sp_el0, spsr_el1, elr_el1, esr_el1,
                 pending, gen, taken>>

(* Mutant: handle_serror returns.                                          *)
HandleInterruptBack ==
  /\ at \in Interrupts
  /\ x' = AfterC(x)
  /\ IF at = "fiq" THEN Panic ELSE at' = "restore"
  /\ UNCHANGED <<code, pc, pstate, sp, sp_el0, spsr_el1, elr_el1, esr_el1,
                 mem, pending, gen, taken>>

(* handle_irq returns, without telling the interrupt controller, so the    *)
(* line stays raised; handle_fiq and handle_serror panic.                  *)
HandleInterrupt ==
  /\ at \in Interrupts
  /\ x' = AfterC(x)
  /\ IF at = "irq" THEN at' = "restore" ELSE Panic
  /\ UNCHANGED <<code, pc, pstate, sp, sp_el0, spsr_el1, elr_el1, esr_el1,
                 mem, pending, gen, taken>>

(* Mutant: x0-x30 first, then the system registers by way of x0-x2.        *)
RestoreContextSwapped ==
  /\ at = "restore"
  /\ spsr_el1' = mem[sp + SPSR_OFFSET]
  /\ elr_el1' = mem[sp + ELR_OFFSET]
  /\ sp_el0' = mem[sp + SP_EL0_OFFSET]
  /\ x' = [i \in Regs |-> CASE i = 0 -> spsr_el1' [] i = 1 -> elr_el1'
                             [] i = 2 -> sp_el0'
                             [] OTHER -> mem[sp + RegOffset(i)]]
  /\ sp' = sp + FRAME_SIZE
  /\ pc' = elr_el1'
  /\ pstate' = spsr_el1'
  /\ at' = "run"
  /\ UNCHANGED <<code, esr_el1, mem, pending, gen, taken>>

(* restore_context loads the system registers by way of x0-x2, then        *)
(* x0-x30, gives the frame back, and eret returns to where ELR_EL1 says.   *)
RestoreContext ==
  /\ at = "restore"
  /\ spsr_el1' = mem[sp + SPSR_OFFSET]
  /\ elr_el1' = mem[sp + ELR_OFFSET]
  /\ sp_el0' = mem[sp + SP_EL0_OFFSET]
  /\ x' = [i \in Regs |-> mem[sp + RegOffset(i)]]
  /\ sp' = sp + FRAME_SIZE
  /\ pc' = elr_el1'
  /\ pstate' = spsr_el1'
  /\ at' = "run"
  /\ UNCHANGED <<code, esr_el1, mem, pending, gen, taken>>

-----------------------------------------------------------------------------
Init ==
  /\ code \in Programs
  /\ pc = 0
  /\ pstate \in PStates
  /\ gen = 0
  /\ x = Contents(0)
  /\ sp = STACK_TOP
  /\ sp_el0 = SP0_BASE
  /\ spsr_el1 = 0 /\ elr_el1 = 0 /\ esr_el1 = 0
  /\ mem = [a \in Slots |-> 0]
  /\ at = "run"
  /\ pending = {}
  /\ taken = [kind |-> "none", from |-> Here]

Cpu ==
  \/ RunOp \/ Trap \/ SaveContext \/ HandleSyncException \/ HandleInterrupt
  \/ RestoreContext
  \/ \E k \in Interrupts : TakeInterrupt(k)

Next == Cpu \/ \E k \in Interrupts : Raise(k)

(* The processor never stops by itself.                                    *)
Spec == Init /\ [][Next]_vars /\ WF_vars(Cpu)

-----------------------------------------------------------------------------
TypeOK ==
  /\ code \in Programs
  /\ pc \in 0 .. 4 * Len(code) - 1 /\ pc % 4 = 0
  /\ x \in [Regs -> Nat]
  /\ mem \in [Slots -> Nat]
  /\ {pstate, spsr_el1, elr_el1, esr_el1, sp, sp_el0} \subseteq Nat
  /\ at \in At
  /\ pending \subseteq Interrupts
  /\ gen \in 0 .. GENERATIONS - 1

(* Where an exception returns to, from one taken at p.                     *)
ResumeAt(kind, p) == IF kind = "irq" THEN p ELSE Advance(p + 4)

Preserves ==
  /\ x' = taken.from.x
  /\ sp' = taken.from.sp /\ sp_el0' = taken.from.sp_el0
  /\ pstate' = taken.from.pstate
  /\ taken.kind # "svc" => pc' = ResumeAt(taken.kind, taken.from.pc)

(* An exception that returns is invisible to the code it interrupted: all  *)
(* 31 registers, both stack pointers and the processor state are what they *)
(* were at entry, although the assembly uses x0-x2 on the way in and out   *)
(* and the C handler overwrites twenty of them; and an interrupt resumes   *)
(* where it struck, a BRK at the next instruction.                         *)
ContextPreserved == [][RestoreContext => Preserves]_vars

(* An exception the kernel cannot deal with never gets back to the code    *)
(* that raised it.                                                         *)
FaultsHalt ==
  at = "restore" => taken.kind \in {"svc", "brk", "irq"}

(* handle_irq does not acknowledge the interrupt, so a raised line is      *)
(* taken again after every return.  Nothing else keeps the code from       *)
(* getting past an instruction, traps included, unless the kernel stops    *)
(* for good; with interrupts masked, as boot.S leaves them, nothing does.  *)
ProgramAdvances ==
  \A c \in UNION {{4 * (i - 1) : i \in 1 .. Len(p)} : p \in Programs} :
    (at = "run" /\ pc = c)
      ~> \/ pc # c \/ at \in {"halted", "wedged"}
         \/ "irq" \in pending /\ ~Masked(pstate)

(* syscall.c:12, "skip the SVC instruction and return to the next          *)
(* instruction".                                                           *)
SvcReturnsToNext ==
  [][RestoreContext /\ taken.kind = "svc" =>
       pc' = ResumeAt("svc", taken.from.pc)]_vars
=============================================================================
