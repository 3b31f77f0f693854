------------------------- MODULE Exceptions_proofs -------------------------
(***************************************************************************)
(* Exceptions are invisible to the code they interrupt, whatever that code *)
(* is, wherever the stack is, and however often it is interrupted.         *)
(***************************************************************************)
EXTENDS Exceptions, SequenceTheorems, TLAPS

-----------------------------------------------------------------------------
(* The layout of the frame.                                                *)

(* The pairs of save_context put register i where regs[i] of the C struct  *)
(* is, so the two descriptions of the frame agree.                         *)
LEMMA Layout ==
  /\ \A i \in Regs : RegOffset(i) = 8 * i /\ RegAt(RegOffset(i)) = i
  /\ SPSR_OFFSET = 248 /\ ELR_OFFSET = 256 /\ SP_EL0_OFFSET = 264
  /\ CONTEXT_ELR = ELR_OFFSET
  /\ FRAME_SIZE = 288
BY DEF Regs, RegOffset, RegAt, SPSR_OFFSET, ELR_OFFSET, SP_EL0_OFFSET,
       CONTEXT_ELR, FRAME_SIZE

(* Every slot of the frame lies on the stack.                              *)
LEMMA FrameInSlots ==
  ASSUME NEW j \in 0 .. 35
  PROVE  (STACK_TOP - FRAME_SIZE) + 8 * j \in Slots
<1>1. 36 - j \in 1 .. FRAME_SIZE \div 8
  BY DEF FRAME_SIZE
<1>2. (STACK_TOP - FRAME_SIZE) + 8 * j = STACK_TOP - 8 * (36 - j)
  BY ExceptionConstants DEF FRAME_SIZE
<1> QED BY <1>1, <1>2 DEF Slots

-----------------------------------------------------------------------------
(* Addresses in the interrupted code.                                      *)

PcOK(p) == p \in 0 .. 4 * Len(code) - 1 /\ p % 4 = 0

LEMMA CodeLength ==
  ASSUME code \in Programs
  PROVE  Len(code) \in Nat \ {0}
BY ExceptionConstants, LenProperties

LEMMA AdvanceOK ==
  ASSUME code \in Programs, NEW n \in Nat, n % 4 = 0
  PROVE  PcOK(Advance(n))
<1> DEFINE L == Len(code)
           q == n \div (4 * L)
           r == n % (4 * L)
<1>1. L \in Nat \ {0}
  BY CodeLength
<1> HIDE DEF L
<1>2. q \in Nat /\ r \in 0 .. 4 * L - 1 /\ n = (4 * L) * q + r
  BY <1>1
<1>3. PICK k \in Nat : n = 4 * k
  BY n = 4 * (n \div 4), n \div 4 \in Nat
<1> HIDE DEF q, r
<1>4. r = 4 * (k - L * q) /\ k - L * q \in Int
  BY <1>1, <1>2, <1>3
<1>5. r % 4 = 0
  BY <1>4
<1> QED BY <1>2, <1>5 DEF Advance, PcOK, L, r

-----------------------------------------------------------------------------
(* The inductive invariant, by where the processor is.                     *)

Kinds == (Instructions \ {"op"}) \cup Interrupts

TakenOK ==
  /\ taken = [kind |-> taken.kind, from |-> taken.from]
  /\ taken.from = [pc |-> taken.from.pc, pstate |-> taken.from.pstate,
                   x |-> taken.from.x, sp |-> taken.from.sp,
                   sp_el0 |-> taken.from.sp_el0]
  /\ taken.from.x \in [Regs -> Nat]
  /\ taken.from.pc \in Nat /\ taken.from.pc % 4 = 0
  /\ taken.from.sp = STACK_TOP

(* An exception has been taken: its kind, and ESR_EL1 agrees with it.      *)
KindOK ==
  /\ TakenOK
  /\ taken.kind \in Kinds
  /\ taken.kind \in Instructions => esr_el1 = ExceptionClass(taken.kind)

(* A return address before a handler has seen it.                          *)
ReturnOK(e) == PcOK(e) /\ (taken.kind # "svc" => e = taken.from.pc)

(* On the way into save_context everything is still in its register.       *)
InSave ==
  /\ KindOK
  /\ x = taken.from.x /\ sp = STACK_TOP
  /\ sp_el0 = taken.from.sp_el0 /\ spsr_el1 = taken.from.pstate
  /\ ReturnOK(elr_el1)

(* From then on until restore_context it is in the frame.                  *)
FrameOK ==
  /\ sp = STACK_TOP - FRAME_SIZE
  /\ \A i \in Regs : mem[sp + RegOffset(i)] = taken.from.x[i]
  /\ mem[sp + SPSR_OFFSET] = taken.from.pstate
  /\ mem[sp + SP_EL0_OFFSET] = taken.from.sp_el0

InHandler ==
  /\ KindOK
  /\ at = HandlerOf(taken.kind)
  /\ FrameOK
  /\ ReturnOK(mem[sp + ELR_OFFSET])

InRestore ==
  /\ TakenOK
  /\ taken.kind \in {"svc", "brk", "irq"}
  /\ FrameOK
  /\ PcOK(mem[sp + ELR_OFFSET])
  /\ taken.kind # "svc" =>
       mem[sp + ELR_OFFSET] = ResumeAt(taken.kind, taken.from.pc)

ExInv ==
  /\ TypeOK
  /\ at = "run" => sp = STACK_TOP
  /\ at = "save" => InSave
  /\ at \in Handlers => InHandler
  /\ at = "restore" => InRestore

(* What the actions read of the frame are natural numbers.                 *)
LEMMA FrameReads ==
  ASSUME TypeOK, sp = STACK_TOP - FRAME_SIZE
  PROVE  /\ \A i \in Regs : sp + RegOffset(i) \in Slots
         /\ sp + SPSR_OFFSET \in Slots /\ sp + ELR_OFFSET \in Slots
         /\ sp + SP_EL0_OFFSET \in Slots
<1>1. \A i \in Regs : i \in 0 .. 35
  BY DEF Regs
<1>2. /\ (STACK_TOP - FRAME_SIZE) + 8 * 31 \in Slots
      /\ (STACK_TOP - FRAME_SIZE) + 8 * 32 \in Slots
      /\ (STACK_TOP - FRAME_SIZE) + 8 * 33 \in Slots
  BY FrameInSlots
<1>3. \A i \in Regs : (STACK_TOP - FRAME_SIZE) + 8 * i \in Slots
  BY <1>1, FrameInSlots
<1> QED BY <1>2, <1>3, Layout

LEMMA ExInvInit == Init => ExInv
<1> SUFFICES ASSUME Init PROVE ExInv
  OBVIOUS
<1> USE DEF Init
<1>1. code \in Programs /\ Len(code) \in Nat \ {0}
  BY CodeLength
<1>2. x \in [Regs -> Nat]
  BY DEF Contents, Regs
<1>3. mem \in [Slots -> Nat]
  OBVIOUS
<1>4. pstate \in Nat
  BY ExceptionConstants DEF EL0t, EL1t, EL1h, AArch32, DAIF
<1>5. TypeOK
  BY <1>1, <1>2, <1>3, <1>4, ExceptionConstants DEF TypeOK, At
<1>6. at = "run" /\ at \notin Handlers
  BY DEF Handlers, Interrupts
<1> QED BY <1>5, <1>6 DEF ExInv

-----------------------------------------------------------------------------
(* One lemma per action.                                                   *)

LEMMA ExInvRunOp ==
  ASSUME ExInv, RunOp
  PROVE  ExInv'
<1> USE DEF ExInv, RunOp
<1>1. gen' \in 0 .. GENERATIONS - 1
  BY ExceptionConstants DEF TypeOK
<1>2. x' \in [Regs -> Nat] /\ sp_el0' \in Nat
  <2>1. gen' \in Nat
    BY <1>1
  <2>2. \A g \in Nat : Contents(g) \in [Regs -> Nat]
    BY DEF Contents, Regs
  <2> QED BY <2>1, <2>2, ExceptionConstants
<1>3. PcOK(pc')
  BY AdvanceOK DEF TypeOK
<1>4. TypeOK'
  BY <1>1, <1>2, <1>3 DEF TypeOK, PcOK
<1>5. at' = "run" /\ at' \notin Handlers
  BY DEF Handlers, Interrupts
<1> QED BY <1>4, <1>5

(* Taking an exception of any kind.                                        *)
LEMMA ExInvEnter ==
  ASSUME ExInv, at = "run", NEW kind \in Kinds, Enter(kind),
         esr_el1' \in Nat,
         kind \in Instructions => esr_el1' = ExceptionClass(kind)
  PROVE  ExInv'
<1> USE DEF ExInv, Enter
<1>1. PcOK(pc)
  BY DEF TypeOK, PcOK
<1>2. PcOK(elr_el1') /\ (kind # "svc" => elr_el1' = pc)
  <2>1. CASE kind = "svc"
    <3>1. PcOK(Advance(pc + 4))
      BY AdvanceOK DEF TypeOK
    <3> QED BY <2>1, <3>1 DEF PreferredReturn
  <2>2. CASE kind # "svc"
    BY <1>1, <2>2 DEF PreferredReturn
  <2> QED BY <2>1, <2>2
<1>3. elr_el1' \in Nat
  BY <1>2, CodeLength DEF PcOK, TypeOK
<1>4. at' \in {"save", "wedged"} /\ at' \notin Handlers /\ at' \in At
      /\ at' # "restore" /\ at' # "run"
  BY DEF Vector, Handlers, Interrupts, At
<1>5. TypeOK'
  BY <1>3, <1>4 DEF TypeOK, EL1h, DAIF
<1>6. InSave'
  <2>1. TakenOK'
    BY <1>1 DEF TakenOK, Here, TypeOK
  <2>2. taken'.kind = kind /\ taken'.from = Here
    OBVIOUS
  <2>3. KindOK'
    BY <2>1, <2>2 DEF KindOK, ExceptionClass, EC_SVC, EC_BRK, EC_ABORT
  <2>4. ReturnOK(elr_el1)'
    BY <1>2, <2>2 DEF ReturnOK, PcOK, Here
  <2> QED BY <2>2, <2>3, <2>4 DEF InSave, Here
<1> QED BY <1>4, <1>5, <1>6

LEMMA ExInvTrap ==
  ASSUME ExInv, Trap
  PROVE  ExInv'
<1>1. Instruction \in Instructions \ {"op"}
  <2>1. code \in Seq(Instructions) /\ pc \in 0 .. 4 * Len(code) - 1
    BY ExceptionConstants DEF ExInv, TypeOK
  <2>2. (pc \div 4) + 1 \in 1 .. Len(code)
    BY <2>1, LenProperties
  <2>3. code[(pc \div 4) + 1] \in Instructions
    BY <2>1, <2>2, LenProperties
  <2> QED BY <2>3 DEF Trap, Instruction
<1>2. Instruction \in Kinds
  BY <1>1 DEF Kinds
<1>3. esr_el1' \in Nat
  BY <1>1 DEF Trap, ExceptionClass, Instructions, EC_SVC, EC_BRK, EC_ABORT
<1> QED BY <1>2, <1>3, ExInvEnter DEF Trap

LEMMA ExInvTakeInterrupt ==
  ASSUME ExInv, NEW k \in Interrupts, TakeInterrupt(k)
  PROVE  ExInv'
<1>1. k \in Kinds /\ k \notin Instructions
  BY DEF Kinds, Interrupts, Instructions
<1> QED BY <1>1, ExInvEnter DEF TakeInterrupt, ExInv, TypeOK

LEMMA ExInvRaise ==
  ASSUME ExInv, NEW k \in Interrupts, Raise(k)
  PROVE  ExInv'
<1>1. UNCHANGED <<code, pc, pstate, x, sp, sp_el0, spsr_el1, elr_el1, esr_el1,
                  mem, at, gen, taken>>
  BY DEF Raise, cpu
<1>2. TypeOK'
  BY <1>1 DEF ExInv, TypeOK, Raise
<1> QED BY <1>1, <1>2 DEF ExInv, InSave, InHandler, InRestore, KindOK, TakenOK,
             FrameOK, ReturnOK, PcOK, ResumeAt, Advance

LEMMA ExInvSaveContext ==
  ASSUME ExInv, SaveContext
  PROVE  ExInv'
<1> USE DEF SaveContext
<1>1. TypeOK /\ InSave /\ KindOK /\ TakenOK
  BY DEF ExInv, InSave, KindOK
<1>2. sp = STACK_TOP /\ sp' = STACK_TOP - FRAME_SIZE /\ sp' \in Nat
  BY <1>1, ExceptionConstants DEF InSave, FRAME_SIZE
<1>3. \A i \in Regs : sp' + RegOffset(i) \in Slots
  <2>1. \A i \in Regs : i \in 0 .. 35
    BY DEF Regs
  <2> QED BY <1>2, <2>1, FrameInSlots, Layout
<1>4. /\ sp' + SPSR_OFFSET \in Slots /\ sp' + ELR_OFFSET \in Slots
      /\ sp' + SP_EL0_OFFSET \in Slots
  <2>1. /\ (STACK_TOP - FRAME_SIZE) + 8 * 31 \in Slots
        /\ (STACK_TOP - FRAME_SIZE) + 8 * 32 \in Slots
        /\ (STACK_TOP - FRAME_SIZE) + 8 * 33 \in Slots
    BY FrameInSlots
  <2> QED BY <1>2, <2>1, Layout
<1>5. /\ mem'[sp' + SPSR_OFFSET] = spsr_el1
      /\ mem'[sp' + ELR_OFFSET] = elr_el1
      /\ mem'[sp' + SP_EL0_OFFSET] = sp_el0
  <2>1. ASSUME NEW o \in Nat, sp' + o \in Slots
        PROVE  mem'[sp' + o] = SavedAt(o, mem[sp' + o])
    <3>1. (sp' + o) - sp' = o
      BY <1>2
    <3> QED BY <2>1, <3>1
  <2>2. mem'[sp' + SPSR_OFFSET] = SavedAt(SPSR_OFFSET, mem[sp' + SPSR_OFFSET])
    BY <1>4, <2>1, Layout
  <2>3. mem'[sp' + ELR_OFFSET] = SavedAt(ELR_OFFSET, mem[sp' + ELR_OFFSET])
    BY <1>4, <2>1, Layout
  <2>4. mem'[sp' + SP_EL0_OFFSET]
          = SavedAt(SP_EL0_OFFSET, mem[sp' + SP_EL0_OFFSET])
    BY <1>4, <2>1, Layout
  <2>5. /\ SPSR_OFFSET # ELR_OFFSET /\ SPSR_OFFSET # SP_EL0_OFFSET
        /\ ELR_OFFSET # SP_EL0_OFFSET
        /\ {SPSR_OFFSET, ELR_OFFSET, SP_EL0_OFFSET} \cap RegOffsets = {}
    BY Layout DEF RegOffsets, Regs
  <2> QED BY <2>2, <2>3, <2>4, <2>5 DEF SavedAt
<1>6. ASSUME NEW i \in Regs
      PROVE  mem'[sp' + RegOffset(i)] = x[i]
  <2>1. (sp' + RegOffset(i)) - sp' = RegOffset(i) /\ RegOffset(i) = 8 * i
        /\ RegOffset(i) \in RegOffsets
    BY <1>2, Layout DEF RegOffsets, Regs
  <2>2. RegOffset(i) \notin {SPSR_OFFSET, ELR_OFFSET, SP_EL0_OFFSET}
    BY <2>1, Layout DEF Regs
  <2>3. mem'[sp' + RegOffset(i)]
          = SavedAt(RegOffset(i), mem[sp' + RegOffset(i)])
    BY <1>3, <2>1
  <2>4. RegAt(RegOffset(i)) = i
    BY Layout
  <2> QED BY <2>1, <2>2, <2>3, <2>4 DEF SavedAt
<1>7. mem' \in [Slots -> Nat]
  <2>1. \A o \in RegOffsets : RegAt(o) \in Regs
    BY Layout DEF RegOffsets
  <2>2. ASSUME NEW a \in Slots
        PROVE  SavedAt(a - sp', mem[a]) \in Nat
    BY <1>1, <2>1 DEF SavedAt, TypeOK
  <2> QED BY <2>2
<1>8. x' \in [Regs -> Nat]
  BY <1>1, <1>2 DEF TypeOK
<1>9. at' \in Handlers /\ at' \in At /\ at' \notin {"run", "save", "restore"}
  BY DEF HandlerOf, Handlers, Interrupts, At
<1>10. TypeOK'
  BY <1>1, <1>2, <1>7, <1>8, <1>9 DEF TypeOK
<1>11. InHandler'
  <2>1. KindOK'
    BY <1>1 DEF KindOK, TakenOK
  <2>2. FrameOK'
    BY <1>1, <1>2, <1>5, <1>6 DEF FrameOK, InSave
  <2>3. ReturnOK(mem[sp + ELR_OFFSET])'
    BY <1>1, <1>5 DEF InSave, ReturnOK, PcOK
  <2> QED BY <2>1, <2>2, <2>3 DEF InHandler, HandlerOf
<1> QED BY <1>9, <1>10, <1>11 DEF ExInv

(* The part of the frame a handler leaves alone.                           *)
LEMMA ExInvHandleSync ==
  ASSUME ExInv, HandleSyncException
  PROVE  ExInv'
<1> USE DEF HandleSyncException
<1>1. TypeOK /\ InHandler /\ KindOK /\ TakenOK /\ FrameOK
  BY DEF ExInv, InHandler, KindOK, Handlers
<1>2. x' \in [Regs -> Nat]
  BY <1>1 DEF AfterC, Junk, TypeOK, Regs
<1>3. taken.kind \in Instructions \ {"op"}
      /\ esr_el1 = ExceptionClass(taken.kind)
  BY <1>1 DEF InHandler, HandlerOf, Kinds, KindOK, Interrupts
<1>4. CASE at' = "halted" /\ UNCHANGED mem
  <2>1. TypeOK'
    BY <1>1, <1>2, <1>4 DEF TypeOK, At
  <2> QED BY <1>4, <2>1 DEF ExInv, Handlers, Interrupts
<1>5. CASE SkipInstruction /\ at' = "restore" /\ esr_el1 \in {EC_BRK, EC_SVC}
  <2> DEFINE e == mem[sp + ELR_OFFSET]
  <2>1. sp + ELR_OFFSET \in Slots
    BY <1>1, FrameReads DEF FrameOK
  <2>2. PcOK(e) /\ e \in Nat /\ e % 4 = 0
    BY <1>1, <2>1 DEF InHandler, ReturnOK, PcOK, TypeOK
  <2> HIDE DEF e
  <2>3. PcOK(Advance(e + 4))
    <3>1. e + 4 \in Nat /\ (e + 4) % 4 = 0 /\ code \in Programs
      BY <1>1, <2>2 DEF TypeOK
    <3> QED BY <3>1, AdvanceOK
  <2>4. Advance(e + 4) \in Nat
    BY <1>1, <2>3, CodeLength DEF PcOK, TypeOK
  <2>5. mem' = [mem EXCEPT ![sp + ELR_OFFSET] = Advance(e + 4)]
    BY <1>5, Layout DEF SkipInstruction, e
  <2>6. mem' \in [Slots -> Nat] /\ mem'[sp + ELR_OFFSET] = Advance(e + 4)
    BY <1>1, <2>1, <2>4, <2>5 DEF TypeOK
  <2>7. TypeOK'
    BY <1>1, <1>2, <1>5, <2>6 DEF TypeOK, At
  <2>8. FrameOK'
    <3>1. ASSUME NEW i \in Regs
          PROVE  sp + RegOffset(i) # sp + ELR_OFFSET
      <4>1. sp \in Nat
        BY <1>1 DEF TypeOK
      <4>2. RegOffset(i) = 8 * i /\ ELR_OFFSET = 256 /\ i \in 0 .. 30
        BY Layout DEF Regs
      <4> QED BY <4>1, <4>2
    <3>2. /\ sp + SPSR_OFFSET # sp + ELR_OFFSET
          /\ sp + SP_EL0_OFFSET # sp + ELR_OFFSET
      BY <1>1, Layout DEF TypeOK
    <3> QED BY <1>1, <2>5, <3>1, <3>2, FrameReads DEF FrameOK, TypeOK
  <2>9. taken.kind \in {"svc", "brk"}
    BY <1>3, <1>5 DEF ExceptionClass, Instructions, EC_SVC, EC_BRK, EC_ABORT
  <2>10. taken.kind # "svc" =>
           mem'[sp + ELR_OFFSET] = ResumeAt(taken.kind, taken.from.pc)
    BY <1>1, <2>6, <2>9 DEF ResumeAt, InHandler, ReturnOK, e
  <2>11. InRestore'
    <3>1. TakenOK' /\ taken' = taken /\ sp' = sp /\ code' = code
      BY <1>1 DEF TakenOK
    <3>2. PcOK(mem[sp + ELR_OFFSET])'
      BY <2>3, <2>6, <3>1 DEF PcOK
    <3>3. (taken.kind # "svc" =>
             mem[sp + ELR_OFFSET] = ResumeAt(taken.kind, taken.from.pc))'
      BY <2>10, <3>1 DEF ResumeAt, Advance
    <3> QED BY <2>8, <2>9, <3>1, <3>2, <3>3 DEF InRestore
  <2> QED BY <1>5, <2>7, <2>11 DEF ExInv, Handlers, Interrupts
<1> QED BY <1>4, <1>5 DEF HandleBrk, HandleSyscall, Panic

LEMMA ExInvHandleInterrupt ==
  ASSUME ExInv, HandleInterrupt
  PROVE  ExInv'
<1> USE DEF HandleInterrupt
<1>1. TypeOK /\ InHandler /\ KindOK /\ TakenOK /\ FrameOK
  BY DEF ExInv, InHandler, KindOK, Handlers
<1>2. x' \in [Regs -> Nat]
  BY <1>1 DEF AfterC, Junk, TypeOK, Regs
<1>3. at' \in {"halted", "restore"}
  BY DEF Panic
<1>4. TypeOK'
  BY <1>1, <1>2, <1>3 DEF TypeOK, At
<1>5. CASE at = "irq"
  <2>1. taken.kind = "irq"
    BY <1>1, <1>5 DEF InHandler, HandlerOf, Kinds, KindOK, Interrupts
  <2>2. TakenOK' /\ FrameOK' /\ taken' = taken
    BY <1>1 DEF TakenOK, FrameOK
  <2>3. mem[sp + ELR_OFFSET] = ResumeAt("irq", taken.from.pc)
        /\ PcOK(mem[sp + ELR_OFFSET])
    BY <1>1, <2>1 DEF InHandler, ReturnOK, ResumeAt
  <2>4. InRestore'
    BY <2>1, <2>2, <2>3 DEF InRestore, PcOK, ResumeAt
  <2> QED BY <1>4, <1>5, <2>4 DEF ExInv, Handlers, Interrupts
<1>6. CASE at # "irq"
  BY <1>4, <1>6 DEF ExInv, Handlers, Interrupts, Panic
<1> QED BY <1>5, <1>6

(* restore_context puts everything back: the heart of ContextPreserved.    *)
LEMMA RestoreRestores ==
  ASSUME ExInv, RestoreContext
  PROVE  /\ x' = taken.from.x /\ sp' = STACK_TOP
         /\ sp_el0' = taken.from.sp_el0 /\ pstate' = taken.from.pstate
         /\ pc' = mem[sp + ELR_OFFSET]
<1> USE DEF RestoreContext
<1>1. TypeOK /\ InRestore /\ TakenOK /\ FrameOK
  BY DEF ExInv, InRestore
<1>2. x' = taken.from.x
  BY <1>1 DEF FrameOK, TakenOK
<1>3. sp' = STACK_TOP
  BY <1>1, ExceptionConstants DEF FrameOK, FRAME_SIZE
<1> QED BY <1>1, <1>2, <1>3 DEF FrameOK

LEMMA ExInvRestoreContext ==
  ASSUME ExInv, RestoreContext
  PROVE  ExInv'
<1> USE DEF RestoreContext
<1>1. TypeOK /\ InRestore /\ TakenOK /\ FrameOK
  BY DEF ExInv, InRestore
<1>2. /\ mem[sp + SPSR_OFFSET] \in Nat /\ mem[sp + ELR_OFFSET] \in Nat
      /\ mem[sp + SP_EL0_OFFSET] \in Nat
  BY <1>1, FrameReads DEF FrameOK, TypeOK
<1>3. x' \in [Regs -> Nat] /\ sp' = STACK_TOP
  BY <1>1, RestoreRestores DEF TakenOK
<1>4. PcOK(pc')
  BY <1>1 DEF InRestore
<1>5. TypeOK'
  <2>1. pstate' \in Nat /\ spsr_el1' \in Nat /\ elr_el1' \in Nat
        /\ sp_el0' \in Nat
    BY <1>2
  <2>2. sp' \in Nat /\ esr_el1' \in Nat
    BY SMTT(30), <1>1, <1>3, ExceptionConstants DEF TypeOK
  <2>3. code' \in Programs /\ pc' \in 0 .. 4 * Len(code') - 1 /\ pc' % 4 = 0
    <3>1. code' = code /\ code \in Programs
      BY <1>1 DEF TypeOK
    <3> QED BY <1>4, <3>1 DEF PcOK
  <2>4. /\ mem' \in [Slots -> Nat] /\ at' \in At
        /\ pending' \subseteq Interrupts /\ gen' \in 0 .. GENERATIONS - 1
    BY <1>1 DEF TypeOK, At
  <2> HIDE DEF RestoreContext
  <2> QED BY <1>3, <2>1, <2>2, <2>3, <2>4 DEF TypeOK
<1> QED BY <1>3, <1>5 DEF ExInv, Handlers, Interrupts

LEMMA ExInvStutter ==
  ASSUME ExInv, UNCHANGED vars
  PROVE  ExInv'
BY DEF vars, cpu, ExInv, TypeOK, InSave, InHandler, InRestore, KindOK, TakenOK,
       FrameOK, ReturnOK, PcOK, ResumeAt, Advance

LEMMA ExInvNext ==
  ASSUME ExInv, [Next]_vars
  PROVE  ExInv'
BY ExInvRunOp, ExInvTrap, ExInvTakeInterrupt, ExInvRaise, ExInvSaveContext,
   ExInvHandleSync, ExInvHandleInterrupt, ExInvRestoreContext, ExInvStutter
   DEF Next, Cpu

(* The inductive invariant holds in every behaviour.                       *)
THEOREM ExInvariant == Spec => []ExInv
<1>1. ExInv /\ [Next]_vars => ExInv'
  BY ExInvNext
<1> QED BY ExInvInit, <1>1, PTL DEF Spec

(* Registers, stack and program counter keep their types: the program      *)
(* counter always points to an instruction of the interrupted code.        *)
THEOREM ExTypeCorrect == Spec => []TypeOK
<1>1. ExInv => TypeOK
  BY DEF ExInv
<1> QED BY ExInvariant, <1>1, PTL

(* Only SVC, BRK and IRQ ever return to the interrupted code.              *)
THEOREM FaultsAlwaysHalt == Spec => []FaultsHalt
<1>1. ExInv => FaultsHalt
  BY DEF ExInv, InRestore, FaultsHalt
<1> QED BY ExInvariant, <1>1, PTL

(* An exception that returns has not changed a register, a stack pointer   *)
(* or the processor state of the code it interrupted, and BRK and IRQ      *)
(* resume at the right instruction.                                        *)
THEOREM ContextIsPreserved == Spec => ContextPreserved
<1>1. ASSUME ExInv, RestoreContext
      PROVE  Preserves
  BY <1>1, RestoreRestores DEF ExInv, InRestore, TakenOK, Preserves,
                               RestoreContext
<1>2. ExInv /\ [Next]_vars => [RestoreContext => Preserves]_vars
  BY <1>1
<1> QED BY ExInvariant, <1>2, PTL DEF Spec, ContextPreserved
=============================================================================
