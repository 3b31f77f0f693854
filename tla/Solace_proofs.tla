--------------------------- MODULE Solace_proofs ---------------------------
(***************************************************************************)
(* Proofs about the whole kernel, for every size of its sections, every    *)
(* amount of memory and everything that may be typed: what the boot code   *)
(* hands over, and what the commands of the shell make of the heap.        *)
(***************************************************************************)
EXTENDS Solace, Kheap_proofs

-----------------------------------------------------------------------------
(***************************************************************************)
(* The boot code: what boot.S has done to memory, stack pointer and        *)
(* control registers at each of its stages.                                *)
(***************************************************************************)
(* ALIGN(n, a) of the linker script never moves down.                      *)
LEMMA AlignUpAbove ==
  ASSUME NEW n \in Nat, NEW a \in Nat \ {0}
  PROVE  AlignUp(n, a) \in Nat /\ AlignUp(n, a) >= n
<1> DEFINE m == n + a - 1
           q == m \div a
<1>1. m \in Nat
  OBVIOUS
<1>2. q \in Nat /\ m < (q + 1) * a
  BY <1>1
<1> HIDE DEF q
<1>3. (q + 1) * a = q * a + a /\ q * a \in Nat
  BY <1>2
<1>4. AlignUp(n, a) = q * a
  BY DEF AlignUp, q
<1> QED BY <1>2, <1>3, <1>4 DEF m

LEMMA AlignUp8 ==
  ASSUME NEW n \in Nat
  PROVE  AlignUp(n, 8) \in Nat /\ AlignUp(n, 8) >= n /\ AlignUp(n, 8) % 8 = 0
BY DEF AlignUp

(* The sections of the linker script, from the image's first byte to the   *)
(* end of the bitmap, do not overlap, and .bss is a number of whole words. *)
LEMMA Layout ==
  /\ kernel_start \in Nat /\ text_end \in Nat
  /\ rodata_start \in Nat /\ rodata_end \in Nat
  /\ data_start \in Nat /\ data_end \in Nat
  /\ bss_start \in Nat /\ bss_end \in Nat
  /\ stack_top \in Nat /\ bitmap_start \in Nat /\ kernel_end \in Nat
  /\ 0 < kernel_start /\ kernel_start < text_end
  /\ text_end <= rodata_start /\ rodata_end = rodata_start + RODATA_SIZE
  /\ rodata_end <= data_start /\ data_end = data_start + DATA_SIZE
  /\ data_end <= bss_start /\ bss_start < bss_end
  /\ (bss_end - bss_start) % 8 = 0
  /\ bss_end <= stack_top - 48
  /\ stack_top <= bitmap_start /\ bitmap_start < kernel_end
  /\ RODATA_SIZE \in Nat \ {0} /\ DATA_SIZE \in Nat \ {0}
<1>1. /\ LOAD_ADDRESS \in Nat \ {0} /\ TEXT_SIZE \in Nat \ {0}
      /\ RODATA_SIZE \in Nat \ {0} /\ DATA_SIZE \in Nat \ {0}
      /\ BSS_SIZE \in Nat \ {0} /\ EH_FRAME_SIZE \in Nat \ {0}
      /\ STACK_SIZE \in Nat /\ STACK_SIZE >= 48
      /\ BITMAP_SIZE \in Nat \ {0} /\ BITMAP_ALIGN \in Nat \ {0}
  BY BootConstants
<1>2. kernel_start \in Nat /\ 0 < kernel_start
  BY <1>1 DEF kernel_start
<1>3. text_end \in Nat /\ kernel_start < text_end
  BY <1>1, <1>2, AlignUp8 DEF text_end
<1>4. rodata_start \in Nat /\ text_end <= rodata_start
  BY <1>3, AlignUp8 DEF rodata_start
<1>5. rodata_end \in Nat /\ rodata_end = rodata_start + RODATA_SIZE
  BY <1>1, <1>4 DEF rodata_end
<1>6. data_start \in Nat /\ rodata_end <= data_start
  BY <1>5, AlignUp8 DEF data_start
<1>7. data_end \in Nat /\ data_end = data_start + DATA_SIZE
  BY <1>1, <1>6 DEF data_end
<1>8. bss_start \in Nat /\ data_end <= bss_start /\ bss_start % 8 = 0
  BY <1>7, AlignUp8 DEF bss_start
<1>9. bss_end \in Nat /\ bss_start < bss_end /\ bss_end % 8 = 0
  BY <1>1, <1>8, AlignUp8 DEF bss_end, BssEnd
<1>10. (bss_end - bss_start) % 8 = 0
  BY <1>8, <1>9
<1>11. stack_bottom \in Nat /\ bss_end <= stack_bottom
  <2>1. /\ AlignUp(bss_end + EH_FRAME_SIZE, 16) \in Nat
        /\ AlignUp(bss_end + EH_FRAME_SIZE, 16) >= bss_end + EH_FRAME_SIZE
    BY <1>1, <1>9, AlignUpAbove
  <2> QED BY <2>1, <1>1, <1>9 DEF stack_bottom
<1>12. stack_top \in Nat /\ bss_end <= stack_top - 48
  <2>1. /\ AlignUp(stack_bottom + STACK_SIZE, 16) \in Nat
        /\ AlignUp(stack_bottom + STACK_SIZE, 16) >= stack_bottom + STACK_SIZE
    BY <1>1, <1>11, AlignUpAbove
  <2> QED BY <2>1, <1>1, <1>9, <1>11 DEF stack_top
<1>13. bitmap_start \in Nat /\ stack_top <= bitmap_start
  BY <1>1, <1>12, AlignUpAbove DEF bitmap_start
<1>14. kernel_end \in Nat /\ bitmap_start < kernel_end
  BY <1>1, <1>13 DEF kernel_end, bitmap_end
<1> QED BY <1>1, <1>2, <1>3, <1>4, <1>5, <1>6, <1>7, <1>8, <1>9, <1>10,
           <1>12, <1>13, <1>14

-----------------------------------------------------------------------------
(***************************************************************************)
(* The stages of boot.S, and those after its setting of the stack pointer, *)
(* its two copies and its clearing of .bss.                                *)
(***************************************************************************)
Booting    == {"reset", "stack", "rodata", "copy_rodata", "data", "copy_data",
               "bss", "clear", "vectors", "level", "main"}
StackSet   == Booting \ {"reset", "stack"}
RodataDone == {"data", "copy_data", "bss", "clear", "vectors", "level", "main"}
DataDone   == {"bss", "clear", "vectors", "level", "main"}
BssDone    == {"vectors", "level", "main"}

Addresses ==
  (kernel_start .. kernel_end) \cup {b + load_shift : b \in Rodata \cup Data}

(* The image as it was loaded is still there: .text, and the sections that *)
(* are copied at their load addresses.                                     *)
Loaded ==
  /\ memory \in [Addresses -> Int]
  /\ \A a \in Text : memory[a] = a
  /\ \A a \in Rodata \cup Data : memory[a + load_shift] = a

Copied ==
  /\ stage \in RodataDone => \A a \in Rodata : memory[a] = a
  /\ stage \in DataDone => \A a \in Data : memory[a] = a

(* The registers of the copy loop, and what is already in place.           *)
Copying(s, start, end) ==
  stage = s =>
    /\ dst \in Int /\ left \in Int /\ src \in Int
    /\ start <= dst /\ 0 < left /\ dst + left = end /\ src = dst + load_shift
    /\ \A a \in start .. dst - 1 : memory[a] = a

(* The registers of clear_bss_loop: whole words are left.                  *)
Clearing ==
  stage = "clear" =>
    /\ dst \in Int /\ left \in Int
    /\ bss_start <= dst /\ dst + left = bss_end
    /\ 0 < left /\ left % 8 = 0

(* The bytes of .bss that are cleared, and no other is zero.               *)
Zeroed ==
  \A a \in Addresses :
    memory[a] = ZERO <=>
      \/ stage \in BssDone /\ a \in Bss
      \/ stage = "clear" /\ a \in bss_start .. dst - 1

Registers ==
  /\ entry_level \in {1, 2}
  /\ el = IF stage = "main" THEN 1 ELSE entry_level
  /\ sp \in [{1, 2} -> Int]
  /\ stage \in StackSet => sp[entry_level] = stack_top
  /\ entry_level = 2 => sp[1] = UNSET
  /\ stage \in {"level", "main"} => vbar_el1
  /\ stage = "main" => fpen

BootInv ==
  stage \in Booting =>
    /\ load_shift \in LoadShifts
    /\ Loaded /\ Copied /\ Clearing /\ Zeroed /\ Registers
    /\ Copying("copy_rodata", rodata_start, rodata_end)
    /\ Copying("copy_data", data_start, data_end)

LEMMA Sections ==
  /\ Text = kernel_start .. text_end - 1
  /\ Rodata = rodata_start .. rodata_end - 1
  /\ Data = data_start .. data_end - 1
  /\ Bss = bss_start .. bss_end - 1
BY DEF Text, Rodata, Data, Bss

(* Where they are copied at all, the sections are loaded outside the       *)
(* memory that the linked kernel occupies.                                 *)
LEMMA SourceApart ==
  ASSUME load_shift \in LoadShifts, load_shift # 0, NEW a \in Rodata \cup Data
  PROVE  /\ a + load_shift \in Int
         /\ a + load_shift \notin kernel_start .. kernel_end
<1>1. /\ load_shift \in Int
      /\ \/ rodata_start + load_shift > kernel_end
         \/ data_end + load_shift <= kernel_start
  BY BootConstants
<1>2. a \in Int /\ rodata_start <= a /\ a <= data_end - 1
  BY Layout, Sections
<1> QED BY <1>1, <1>2, Layout

LEMMA BootInvInit == BootInit => BootInv
<1> SUFFICES ASSUME BootInit PROVE BootInv
  OBVIOUS
<1> USE DEF BootInit
<1>1. load_shift \in LoadShifts /\ load_shift \in Int /\ stage = "reset"
  BY BootConstants
<1>2. memory = [a \in Addresses |->
                  IF a \in Text THEN a
                  ELSE IF a - load_shift \in Rodata \cup Data THEN a - load_shift
                  ELSE JUNK]
  BY DEF Addresses
<1>3. /\ \A a \in Rodata \cup Data : /\ a \in Nat /\ a # 0
                                     /\ a + load_shift - load_shift = a
                                     /\ a + load_shift \in Int
                                     /\ a + load_shift \in Addresses
      /\ \A a \in Text : a \in Nat /\ a # 0 /\ a \in Addresses
      /\ \A a \in Addresses : a \in Int
  BY <1>1, Layout, Sections DEF Addresses
<1>4. \A a \in Rodata \cup Data : a + load_shift \notin Text
  <2> SUFFICES ASSUME NEW a \in Rodata \cup Data PROVE a + load_shift \notin Text
    OBVIOUS
  <2>1. CASE load_shift = 0
    BY <2>1, Layout, Sections
  <2>2. CASE load_shift # 0
    <3>1. a + load_shift \in Int /\ a + load_shift \notin kernel_start .. kernel_end
      BY <2>2, <1>1, SourceApart
    <3>2. Text \subseteq kernel_start .. kernel_end
      BY Layout, Sections
    <3> QED BY <3>1, <3>2
  <2> QED BY <2>1, <2>2
<1>5. Loaded
  <2>1. memory \in [Addresses -> Int]
    BY <1>1, <1>2, <1>3 DEF JUNK
  <2>2. \A a \in Text : memory[a] = a
    BY <1>2, <1>3
  <2>3. ASSUME NEW a \in Rodata \cup Data PROVE memory[a + load_shift] = a
    <3> DEFINE t == a + load_shift
    <3>1. t \in Addresses /\ t \notin Text
      BY <1>3, <1>4
    <3>2. a \in Nat
      BY <1>3
    <3>3. t - load_shift = a
      BY <1>1, <3>2
    <3> HIDE DEF t
    <3>4. memory[t] = a
      BY <3>1, <3>3, <1>2
    <3> QED BY <3>4 DEF t
  <2> QED BY <2>1, <2>2, <2>3 DEF Loaded
<1>6. Zeroed
  <2>1. \A a \in Addresses : memory[a] # ZERO
    BY <1>2, <1>3 DEF ZERO, JUNK
  <2> QED BY <2>1, <1>1 DEF Zeroed, BssDone
<1>7. Copied /\ Clearing /\ Copying("copy_rodata", rodata_start, rodata_end)
      /\ Copying("copy_data", data_start, data_end)
  BY <1>1 DEF Copied, Clearing, Copying, RodataDone, DataDone
<1>8. Registers
  <2>1. sp \in [{1, 2} -> Int]
    BY DEF UNSET
  <2> QED BY <1>1, <2>1, BootConstants DEF Registers, StackSet
<1> QED BY <1>1, <1>5, <1>6, <1>7, <1>8 DEF BootInv

-----------------------------------------------------------------------------
(* One lemma per step.                                                     *)

LEMMA BootInvStart ==
  ASSUME BootInv, NEW mpidr \in Mpidrs, Start(mpidr)
  PROVE  BootInv'
<1>1. /\ stage = "reset" /\ stage' \in {"stack", "parked"}
      /\ UNCHANGED <<load_shift, entry_level, memory, el, sp, vbar_el1, fpen>>
  BY DEF Start
<1>2. CASE stage' = "parked"
  BY <1>2 DEF BootInv, Booting
<1>3. CASE stage' = "stack"
  <2>1. load_shift \in LoadShifts /\ Loaded /\ Zeroed /\ Registers
    BY <1>1 DEF BootInv, Booting
  <2>2. Loaded' /\ Addresses' = Addresses
    BY <1>1, <2>1 DEF Loaded, Addresses
  <2>3. Zeroed'
    BY <1>1, <1>3, <2>1, <2>2 DEF Zeroed, BssDone
  <2>4. Registers'
    BY <1>1, <1>3, <2>1 DEF Registers, StackSet
  <2>5. Copied' /\ Clearing' /\ Copying("copy_rodata", rodata_start, rodata_end)'
        /\ Copying("copy_data", data_start, data_end)'
    BY <1>3 DEF Copied, Clearing, Copying, RodataDone, DataDone
  <2> QED BY <1>1, <2>1, <2>2, <2>3, <2>4, <2>5 DEF BootInv
<1> QED BY <1>1, <1>2, <1>3

LEMMA BootInvSetStack ==
  ASSUME BootInv, SetStack
  PROVE  BootInv'
<1>1. /\ stage = "stack" /\ stage' = "rodata"
      /\ sp' = [sp EXCEPT ![el] = stack_top]
      /\ UNCHANGED <<load_shift, entry_level, memory, el, vbar_el1, fpen>>
  BY DEF SetStack
<1>2. load_shift \in LoadShifts /\ Loaded /\ Zeroed /\ Registers
  BY <1>1 DEF BootInv, Booting
<1>3. Loaded' /\ Addresses' = Addresses
  BY <1>1, <1>2 DEF Loaded, Addresses
<1>4. Zeroed'
  BY <1>1, <1>2, <1>3 DEF Zeroed, BssDone
<1>5. Registers'
  <2>1. el = entry_level /\ entry_level \in {1, 2} /\ sp \in [{1, 2} -> Int]
    BY <1>1, <1>2 DEF Registers
  <2>2. /\ sp' \in [{1, 2} -> Int] /\ sp'[entry_level] = stack_top
        /\ entry_level = 2 => sp'[1] = sp[1]
    BY <1>1, <2>1, Layout
  <2> QED BY <1>1, <1>2, <2>1, <2>2 DEF Registers
<1>6. Copied' /\ Clearing' /\ Copying("copy_rodata", rodata_start, rodata_end)'
      /\ Copying("copy_data", data_start, data_end)'
  BY <1>1 DEF Copied, Clearing, Copying, RodataDone, DataDone
<1> QED BY <1>1, <1>2, <1>3, <1>4, <1>5, <1>6 DEF BootInv

(* A copy that is not needed: the section is already in its place.         *)
LEMMA BootInvSkip ==
  ASSUME BootInv, NEW s \in {"rodata", "data"}, CopySection(s), load_shift = 0
  PROVE  BootInv'
<1>1. /\ stage = s /\ stage' = AfterCopy(s) /\ stage' \in {"data", "bss"}
      /\ UNCHANGED <<load_shift, entry_level, memory, el, sp, vbar_el1, fpen>>
  BY DEF CopySection, AfterCopy
<1>2. load_shift \in LoadShifts /\ Loaded /\ Zeroed /\ Registers
  BY <1>1 DEF BootInv, Booting
<1>3. Loaded' /\ Addresses' = Addresses
  BY <1>1, <1>2 DEF Loaded, Addresses
<1>4. Zeroed'
  BY <1>1, <1>2, <1>3 DEF Zeroed, BssDone
<1>5. Registers'
  BY <1>1, <1>2 DEF Registers, StackSet, Booting
<1>6. \A a \in Rodata \cup Data : a + load_shift = a
  BY Layout, Sections
<1>7. Copied'
  BY <1>1, <1>2, <1>6 DEF Copied, Loaded
<1>8. Clearing' /\ Copying("copy_rodata", rodata_start, rodata_end)'
      /\ Copying("copy_data", data_start, data_end)'
  BY <1>1 DEF Clearing, Copying
<1> QED BY <1>1, <1>2, <1>3, <1>4, <1>5, <1>7, <1>8 DEF BootInv

(* A change of memory that leaves the loaded image alone.                  *)
LEMMA LoadedKept ==
  ASSUME Loaded, load_shift \in LoadShifts, UNCHANGED load_shift,
         NEW W, W \subseteq kernel_start .. kernel_end,
         W \cap Text = {},
         load_shift = 0 => W \cap (Rodata \cup Data) = {},
         memory' \in [Addresses -> Int],
         \A a \in Addresses \ W : memory'[a] = memory[a]
  PROVE  Loaded' /\ Addresses' = Addresses
<1>1. Addresses' = Addresses
  BY DEF Addresses
<1>2. ASSUME NEW a \in Text PROVE memory'[a] = a
  <2>1. a \in Addresses
    BY Layout, Sections DEF Addresses
  <2> QED BY <2>1 DEF Loaded
<1>3. ASSUME NEW a \in Rodata \cup Data PROVE memory'[a + load_shift] = a
  <2>1. a + load_shift \in Addresses
    BY DEF Addresses
  <2>2. CASE load_shift = 0
    <3>1. a + load_shift = a
      BY <2>2, Layout, Sections
    <3> QED BY <2>1, <2>2, <3>1 DEF Loaded
  <2>3. CASE load_shift # 0
    <3>1. a + load_shift \notin W
      BY <2>3, SourceApart
    <3> QED BY <2>1, <3>1 DEF Loaded
  <2> QED BY <2>2, <2>3
<1> QED BY <1>1, <1>2, <1>3 DEF Loaded

(* copy_data_section pushes registers and calls boot_debug_copy.           *)
LEMMA BootInvEnterCopy ==
  ASSUME BootInv, NEW s \in {"rodata", "data"}, CopySection(s), load_shift # 0
  PROVE  BootInv'
<1> DEFINE W == stack_top - 48 .. stack_top - 1
<1>1. stage = s /\ stage \in StackSet /\ stage \in Booting /\ stage # "main"
  BY DEF CopySection, StackSet, Booting
<1>2. load_shift \in LoadShifts /\ Loaded /\ Copied /\ Zeroed /\ Registers
  BY <1>1 DEF BootInv
<1>3. sp[el] = stack_top
  BY <1>1, <1>2 DEF Registers
<1>4. Section(s) # {}
  <2>1. rodata_start \in Rodata /\ data_start \in Data
    BY Layout, Sections
  <2> QED BY <2>1 DEF Section
<1>5. /\ memory' = [a \in DOMAIN memory |->
                      IF a \in sp[el] - 32 .. sp[el] - 1
                                 \cup BootDebugCopy(sp[el] - 32)
                      THEN JUNK ELSE memory[a]]
      /\ dst' = SectionStart(s) /\ src' = SectionStart(s) + load_shift
      /\ left' = IF s = "rodata" THEN RODATA_SIZE ELSE DATA_SIZE
      /\ stage' = CopyLoop(s)
      /\ UNCHANGED <<load_shift, entry_level, el, sp, vbar_el1, fpen>>
  BY <1>4 DEF CopySection
<1>6. sp[el] - 32 .. sp[el] - 1 \cup BootDebugCopy(sp[el] - 32) = W
  BY <1>3, Layout DEF BootDebugCopy
<1>7. memory' = [a \in Addresses |-> IF a \in W THEN JUNK ELSE memory[a]]
  BY <1>2, <1>5, <1>6 DEF Loaded
<1>8. /\ W \subseteq kernel_start .. kernel_end
      /\ W \cap Text = {} /\ W \cap Rodata = {} /\ W \cap Data = {}
      /\ W \cap Bss = {}
  BY Layout, Sections
<1> HIDE DEF W
<1>9. /\ memory' \in [Addresses -> Int]
      /\ \A a \in Addresses \ W : memory'[a] = memory[a]
  BY <1>2, <1>7 DEF Loaded, JUNK
<1>10. Loaded' /\ Addresses' = Addresses
  BY <1>2, <1>5, <1>8, <1>9, LoadedKept
<1>11. stage' \in {"copy_rodata", "copy_data"} /\ stage' \notin BssDone
  BY <1>5 DEF CopyLoop, BssDone
<1>12. Zeroed'
  <2>1. \A a \in Addresses : memory[a] # ZERO
    BY <1>1, <1>2 DEF Zeroed, BssDone
  <2>2. \A a \in Addresses : memory'[a] # ZERO
    BY <2>1, <1>7 DEF ZERO, JUNK
  <2> QED BY <2>2, <1>10, <1>11 DEF Zeroed
<1>13. Registers'
  BY <1>1, <1>2, <1>5, <1>11 DEF Registers, StackSet, Booting
<1>14. Rodata \subseteq Addresses /\ Data \subseteq Addresses
  BY Layout, Sections DEF Addresses
<1>15. Copied'
  <2>1. CASE s = "rodata"
    BY <2>1, <1>5 DEF Copied, CopyLoop, RodataDone, DataDone
  <2>2. CASE s = "data"
    <3>1. \A a \in Rodata : memory[a] = a
      BY <2>2, <1>1, <1>2 DEF Copied, RodataDone
    <3>2. \A a \in Rodata : memory'[a] = a
      BY <3>1, <1>8, <1>9, <1>14
    <3> QED BY <2>2, <3>2, <1>5 DEF Copied, CopyLoop, DataDone
  <2> QED BY <2>1, <2>2
<1>16. load_shift \in Int
  BY <1>2, BootConstants
<1>17. Copying("copy_rodata", rodata_start, rodata_end)'
  <2> SUFFICES ASSUME stage' = "copy_rodata"
               PROVE  /\ dst' = rodata_start /\ left' = RODATA_SIZE
                      /\ src' = rodata_start + load_shift
    BY <1>5, <1>16, Layout DEF Copying
  <2> QED BY <1>5 DEF CopyLoop, SectionStart
<1>18. Copying("copy_data", data_start, data_end)'
  <2> SUFFICES ASSUME stage' = "copy_data"
               PROVE  /\ dst' = data_start /\ left' = DATA_SIZE
                      /\ src' = data_start + load_shift
    BY <1>5, <1>16, Layout DEF Copying
  <2> QED BY <1>5 DEF CopyLoop, SectionStart
<1>19. Clearing'
  BY <1>11 DEF Clearing
<1> QED BY <1>2, <1>5, <1>10, <1>12, <1>13, <1>15, <1>17, <1>18, <1>19
        DEF BootInv

(* One byte of a copy, whichever section it is of.                         *)
LEMMA CopyByteMoves ==
  ASSUME BootInv, NEW s \in {"rodata", "data"}, CopyByte(s),
         NEW start, NEW end, NEW B, B = start .. end - 1,
         \/ s = "rodata" /\ start = rodata_start /\ end = rodata_end
         \/ s = "data" /\ start = data_start /\ end = data_end,
         Copying(CopyLoop(s), start, end)
  PROVE  /\ Loaded' /\ Addresses' = Addresses
         /\ \A a \in Addresses : memory'[a] # ZERO
         /\ \A a \in start .. dst' - 1 : memory'[a] = a
         /\ \A a \in Addresses \ B : memory'[a] = memory[a]
         /\ dst' \in Int /\ left' \in Int /\ src' \in Int
         /\ start <= dst' /\ dst' + left' = end /\ src' = dst' + load_shift
         /\ IF left = 1 THEN left' = 0 ELSE left' > 0
<1>1. /\ stage = CopyLoop(s) /\ stage \in {"copy_rodata", "copy_data"}
      /\ stage \in Booting /\ stage \notin BssDone
  BY DEF CopyByte, CopyLoop, Booting, BssDone
<1>2. load_shift \in LoadShifts /\ Loaded /\ Zeroed
  BY <1>1 DEF BootInv
<1>3. /\ dst \in Int /\ left \in Int /\ src \in Int
      /\ start <= dst /\ 0 < left /\ dst + left = end /\ src = dst + load_shift
      /\ \A a \in start .. dst - 1 : memory[a] = a
  BY <1>1 DEF Copying
<1>4. /\ memory' = [memory EXCEPT ![dst] = memory[src]]
      /\ dst' = dst + 1 /\ src' = src + 1 /\ left' = left - 1
      /\ UNCHANGED load_shift
  BY DEF CopyByte
<1>5. start \in Nat /\ end \in Nat
  BY Layout
<1>6. dst \in B /\ B \subseteq kernel_start .. kernel_end /\ B \cap Text = {}
      /\ B \subseteq Rodata \cup Data
  BY SMTT(30), <1>3, Layout, Sections
<1>7. dst \in Addresses /\ B \subseteq Addresses
  BY <1>6 DEF Addresses
<1>8. memory[src] = dst /\ dst # 0
  BY <1>2, <1>3, <1>6, Layout, Sections DEF Loaded
<1>9. memory' = [memory EXCEPT ![dst] = dst]
  BY <1>4, <1>8
<1>10. /\ memory' \in [Addresses -> Int] /\ memory'[dst] = dst
       /\ \A a \in Addresses : a # dst => memory'[a] = memory[a]
  BY <1>2, <1>3, <1>7, <1>9 DEF Loaded
<1>11. load_shift = 0 => memory' = memory
  <2>1. load_shift = 0 => memory[dst] = dst
    BY <1>3, <1>8
  <2> QED BY <2>1, <1>2, <1>9 DEF Loaded
<1>12. Loaded' /\ Addresses' = Addresses
  <2>1. CASE load_shift = 0
    <3>1. UNCHANGED <<memory, load_shift>>
      BY <2>1, <1>4, <1>11
    <3>2. Addresses' = Addresses
      BY <3>1 DEF Addresses
    <3> QED BY <3>1, <3>2, <1>2 DEF Loaded
  <2>2. CASE load_shift # 0
    <3>1. {dst} \subseteq kernel_start .. kernel_end /\ {dst} \cap Text = {}
      BY <1>6
    <3>2. \A a \in Addresses \ {dst} : memory'[a] = memory[a]
      BY <1>10
    <3> QED BY <2>2, <3>1, <3>2, <1>2, <1>4, <1>10, LoadedKept
  <2> QED BY <2>1, <2>2
<1>13. \A a \in Addresses : memory'[a] # ZERO
  <2>1. \A a \in Addresses : memory[a] # ZERO
    BY <1>1, <1>2 DEF Zeroed
  <2> QED BY <2>1, <1>8, <1>10 DEF ZERO
<1>14. ASSUME NEW a \in start .. dst' - 1 PROVE memory'[a] = a
  <2>1. CASE a = dst
    BY <2>1, <1>10
  <2>2. CASE a # dst
    <3>1. a \in start .. dst - 1 /\ a \in B
      BY <2>2, <1>3, <1>4, <1>5
    <3> QED BY <2>2, <3>1, <1>3, <1>7, <1>10
  <2> QED BY <2>1, <2>2
<1>15. \A a \in Addresses \ B : memory'[a] = memory[a]
  BY <1>6, <1>10
<1>16. load_shift \in Int
  BY <1>2, BootConstants
<1>17. /\ dst' \in Int /\ left' \in Int /\ src' \in Int
       /\ start <= dst' /\ dst' + left' = end /\ src' = dst' + load_shift
       /\ IF left = 1 THEN left' = 0 ELSE left' > 0
  <2>1. /\ dst' \in Int /\ left' \in Int /\ src' \in Int
        /\ start <= dst' /\ src' = dst' + load_shift
    BY SMTT(30), <1>3, <1>4, <1>5, <1>16
  <2>2. dst' + left' = end
    BY <1>3, <1>4
  <2>3. IF left = 1 THEN left' = 0 ELSE left' > 0
    BY <1>3, <1>4
  <2> QED BY <2>1, <2>2, <2>3
<1> QED BY <1>12, <1>13, <1>14, <1>15, <1>17

LEMMA SectionsIn ==
  /\ Text \subseteq Addresses /\ Rodata \subseteq Addresses
  /\ Data \subseteq Addresses /\ Bss \subseteq Addresses
BY Layout, Sections DEF Addresses

LEMMA BootInvCopyByte ==
  ASSUME BootInv, NEW s \in {"rodata", "data"}, CopyByte(s)
  PROVE  BootInv'
<1>1. /\ stage = CopyLoop(s) /\ stage \in Booting /\ stage # "main"
      /\ stage' = IF left = 1 THEN AfterCopy(s) ELSE stage
      /\ stage' \in {"copy_rodata", "data", "copy_data", "bss"}
      /\ UNCHANGED <<load_shift, entry_level, el, sp, vbar_el1, fpen>>
  BY DEF CopyByte, CopyLoop, AfterCopy, Booting
<1>2. /\ load_shift \in LoadShifts /\ Copied /\ Registers
      /\ Copying("copy_rodata", rodata_start, rodata_end)
      /\ Copying("copy_data", data_start, data_end)
  BY <1>1 DEF BootInv
<1>3. Registers'
  <2>1. stage \in StackSet /\ stage' \in StackSet
    BY <1>1 DEF StackSet, Booting, CopyLoop
  <2>2. stage' # "main" /\ stage' # "level" /\ stage # "level"
    BY <1>1 DEF CopyLoop
  <2> QED BY <1>1, <1>2, <2>1, <2>2 DEF Registers
<1>4. Clearing'
  BY <1>1 DEF Clearing
<1>5. ASSUME Addresses' = Addresses, \A a \in Addresses : memory'[a] # ZERO
      PROVE  Zeroed'
  BY <1>1, <1>5 DEF Zeroed, BssDone
<1>6. CASE s = "rodata"
  <2>1. /\ Loaded' /\ Addresses' = Addresses
        /\ \A a \in Addresses : memory'[a] # ZERO
        /\ \A a \in rodata_start .. dst' - 1 : memory'[a] = a
        /\ dst' \in Int /\ left' \in Int /\ src' \in Int
        /\ rodata_start <= dst' /\ dst' + left' = rodata_end
        /\ src' = dst' + load_shift
        /\ IF left = 1 THEN left' = 0 ELSE left' > 0
    BY <1>2, <1>6, CopyByteMoves DEF CopyLoop
  <2>2. stage' = IF left = 1 THEN "data" ELSE "copy_rodata"
    BY <1>1, <1>6 DEF CopyLoop, AfterCopy
  <2>3. left = 1 => dst' = rodata_end
    <3>1. ASSUME left = 1 PROVE left' = 0
      BY <2>1, <3>1
    <3>2. dst' + left' = rodata_end /\ dst' \in Int
      BY <2>1
    <3> QED BY <3>1, <3>2
  <2>4. Copied'
    BY <2>1, <2>2, <2>3, Sections DEF Copied, RodataDone, DataDone
  <2>5. Copying("copy_rodata", rodata_start, rodata_end)'
        /\ Copying("copy_data", data_start, data_end)'
    BY <1>1, <2>1, <2>2 DEF Copying
  <2> QED BY <1>1, <1>2, <1>3, <1>4, <1>5, <2>1, <2>4, <2>5 DEF BootInv
<1>7. CASE s = "data"
  <2>1. /\ Loaded' /\ Addresses' = Addresses
        /\ \A a \in Addresses : memory'[a] # ZERO
        /\ \A a \in data_start .. dst' - 1 : memory'[a] = a
        /\ \A a \in Addresses \ Data : memory'[a] = memory[a]
        /\ dst' \in Int /\ left' \in Int /\ src' \in Int
        /\ data_start <= dst' /\ dst' + left' = data_end
        /\ src' = dst' + load_shift
        /\ IF left = 1 THEN left' = 0 ELSE left' > 0
    BY <1>2, <1>7, CopyByteMoves, Sections DEF CopyLoop
  <2>2. stage' = IF left = 1 THEN "bss" ELSE "copy_data"
    BY <1>1, <1>7 DEF CopyLoop, AfterCopy
  <2>3. left = 1 => dst' = data_end
    <3>1. ASSUME left = 1 PROVE left' = 0
      BY <2>1, <3>1
    <3>2. dst' + left' = data_end /\ dst' \in Int
      BY <2>1
    <3> QED BY <3>1, <3>2
  <2>4. \A a \in Rodata : memory'[a] = a
    <3>1. \A a \in Rodata : memory[a] = a
      BY <1>1, <1>2, <1>7 DEF Copied, CopyLoop, RodataDone
    <3>2. Rodata \subseteq Addresses \ Data
      BY SectionsIn, Layout, Sections
    <3> QED BY <2>1, <3>1, <3>2
  <2>5. Copied'
    BY <2>1, <2>2, <2>3, <2>4, Sections DEF Copied, RodataDone, DataDone
  <2>6. Copying("copy_rodata", rodata_start, rodata_end)'
        /\ Copying("copy_data", data_start, data_end)'
    BY <1>1, <2>1, <2>2 DEF Copying
  <2> QED BY <1>1, <1>2, <1>3, <1>4, <1>5, <2>1, <2>5, <2>6 DEF BootInv
<1> QED BY <1>6, <1>7

LEMMA BootInvEnterBss ==
  ASSUME BootInv, EnterBss
  PROVE  BootInv'
<1>1. /\ stage = "bss" /\ dst' = bss_start /\ left' = bss_end - bss_start
      /\ stage' = IF left' = 0 THEN "vectors" ELSE "clear"
      /\ UNCHANGED <<load_shift, entry_level, memory, el, sp, vbar_el1, fpen>>
  BY DEF EnterBss
<1>2. load_shift \in LoadShifts /\ Loaded /\ Copied /\ Zeroed /\ Registers
  BY <1>1 DEF BootInv, Booting
<1>3. stage' = "clear" /\ Clearing'
  BY <1>1, Layout DEF Clearing
<1>4. Addresses' = Addresses
  BY <1>1 DEF Addresses
<1>5. Loaded'
  BY <1>1, <1>2, <1>4 DEF Loaded
<1>6. Copied'
  BY <1>1, <1>2 DEF Copied, RodataDone, DataDone
<1>7. Zeroed'
  <2>1. \A a \in Addresses : memory[a] # ZERO
    BY <1>1, <1>2 DEF Zeroed, BssDone
  <2>2. bss_start .. dst' - 1 = {}
    BY <1>1, Layout
  <2> QED BY <1>1, <1>3, <1>4, <2>1, <2>2 DEF Zeroed, BssDone
<1>8. Registers'
  BY <1>1, <1>2, <1>3 DEF Registers, StackSet, Booting
<1>9. Copying("copy_rodata", rodata_start, rodata_end)'
      /\ Copying("copy_data", data_start, data_end)'
  BY <1>3 DEF Copying
<1> QED BY <1>1, <1>2, <1>3, <1>5, <1>6, <1>7, <1>8, <1>9 DEF BootInv

(* clear_bss_loop stays inside .bss, so that its store never aborts.       *)
LEMMA BootInvClearWord ==
  ASSUME BootInv, ClearWord
  PROVE  BootInv'
<1>1. stage = "clear" /\ stage \in Booting
  BY DEF ClearWord, Booting
<1>2. /\ load_shift \in LoadShifts /\ Loaded /\ Copied /\ Clearing /\ Zeroed
      /\ Registers
  BY <1>1 DEF BootInv
<1>3. /\ dst \in Int /\ left \in Int /\ bss_start <= dst
      /\ dst + left = bss_end /\ 0 < left /\ left % 8 = 0
  BY <1>1, <1>2 DEF Clearing
<1>4. left >= 8
  BY <1>3
<1>5. StoreAt \subseteq Bss
  BY <1>3, <1>4, Layout, Sections DEF StoreAt
<1>6. /\ memory' = [a \in Addresses |-> IF a \in StoreAt THEN ZERO ELSE memory[a]]
      /\ dst' = dst + 8 /\ left' = left - 8
      /\ stage' = IF left' = 0 THEN "vectors" ELSE "clear"
      /\ UNCHANGED <<load_shift, entry_level, el, sp, vbar_el1, fpen>>
  <2>1. DOMAIN memory = Addresses
    BY <1>2 DEF Loaded
  <2>2. StoreAt \subseteq DOMAIN memory
    BY <2>1, <1>5, SectionsIn
  <2> QED BY <1>1, <2>1, <2>2 DEF ClearWord
<1>7. /\ memory' \in [Addresses -> Int]
      /\ \A a \in Addresses \ Bss : memory'[a] = memory[a]
  BY <1>2, <1>5, <1>6 DEF Loaded, ZERO
<1>8. /\ Bss \subseteq kernel_start .. kernel_end
      /\ Bss \cap Text = {} /\ Bss \cap Rodata = {} /\ Bss \cap Data = {}
  BY Layout, Sections
<1>9. Loaded' /\ Addresses' = Addresses
  <2>1. Bss \cap (Rodata \cup Data) = {}
    BY <1>8
  <2> QED BY <2>1, <1>2, <1>6, <1>7, <1>8, LoadedKept
<1>10. Copied'
  <2>1. \A a \in Rodata \cup Data : memory[a] = a
    BY <1>1, <1>2 DEF Copied, RodataDone, DataDone
  <2>2. Rodata \cup Data \subseteq Addresses \ Bss
    BY <1>8, SectionsIn
  <2>3. \A a \in Rodata \cup Data : memory'[a] = a
    BY <2>1, <2>2, <1>7
  <2> QED BY <2>3 DEF Copied
<1>11. Clearing'
  <2>1. dst' \in Int /\ left' \in Int /\ bss_start <= dst'
    BY <1>3, <1>6, Layout
  <2>2. dst' + left' = bss_end
    BY <1>3, <1>6
  <2>3. stage' = "clear" => 0 < left' /\ left' % 8 = 0
    BY <1>3, <1>4, <1>6
  <2> QED BY <2>1, <2>2, <2>3 DEF Clearing
<1>12. Zeroed'
  <2> DEFINE done == bss_start .. dst - 1
  <2>1. \A a \in Addresses : memory[a] = ZERO <=> a \in done
    BY <1>1, <1>2 DEF Zeroed, BssDone
  <2> HIDE DEF done
  <2>2. \A a \in Addresses : memory'[a] = ZERO <=> a \in done \cup StoreAt
    BY <2>1, <1>6
  <2>3. done \cup StoreAt = bss_start .. dst' - 1
    BY <1>3, <1>6, Layout DEF done, StoreAt
  <2>4. stage' = "vectors" => bss_start .. dst' - 1 = Bss
    <3>1. stage' = "vectors" => dst' = bss_end
      BY <1>3, <1>6
    <3> QED BY <3>1, Sections
  <2>5. /\ stage' = "vectors" \/ stage' = "clear"
        /\ stage' \in BssDone <=> stage' = "vectors"
    BY <1>6 DEF BssDone
  <2> QED BY <2>2, <2>3, <2>4, <2>5, <1>9 DEF Zeroed
<1>13. Registers'
  BY <1>1, <1>2, <1>6 DEF Registers, StackSet, Booting
<1>14. Copying("copy_rodata", rodata_start, rodata_end)'
       /\ Copying("copy_data", data_start, data_end)'
  BY <1>6 DEF Copying
<1> QED BY <1>2, <1>6, <1>9, <1>10, <1>11, <1>12, <1>13, <1>14 DEF BootInv

(* The last two steps change no memory.                                    *)
LEMMA BootInvRegisters ==
  ASSUME BootInv, SetVectors \/ EnterEL1
  PROVE  BootInv'
<1>1. /\ stage \in {"vectors", "level"} /\ stage' \in {"level", "main"}
      /\ UNCHANGED <<load_shift, entry_level, memory, sp>>
  BY DEF SetVectors, EnterEL1
<1>2. load_shift \in LoadShifts /\ Loaded /\ Copied /\ Zeroed /\ Registers
  BY <1>1 DEF BootInv, Booting
<1>3. Addresses' = Addresses
  BY <1>1 DEF Addresses
<1>4. Loaded'
  BY <1>1, <1>2, <1>3 DEF Loaded
<1>5. Copied'
  BY <1>1, <1>2 DEF Copied, RodataDone, DataDone
<1>6. Zeroed'
  BY <1>1, <1>2, <1>3 DEF Zeroed, BssDone
<1>7. Registers'
  <2>1. /\ sp[entry_level] = stack_top /\ entry_level \in {1, 2}
        /\ sp \in [{1, 2} -> Int] /\ (entry_level = 2 => sp[1] = UNSET)
    BY <1>1, <1>2 DEF Registers, StackSet, Booting
  <2>2. el' = IF stage' = "main" THEN 1 ELSE entry_level
    BY <1>1, <1>2 DEF Registers, SetVectors, EnterEL1
  <2>3. vbar_el1' /\ (stage' = "main" => fpen')
    BY <1>2 DEF Registers, SetVectors, EnterEL1
  <2> QED BY <1>1, <2>1, <2>2, <2>3 DEF Registers
<1>8. Clearing' /\ Copying("copy_rodata", rodata_start, rodata_end)'
      /\ Copying("copy_data", data_start, data_end)'
  BY <1>1 DEF Clearing, Copying
<1> QED BY <1>1, <1>2, <1>4, <1>5, <1>6, <1>7, <1>8 DEF BootInv

LEMMA BootInvStep ==
  ASSUME BootInv, BootStep
  PROVE  BootInv'
<1>1. ASSUME NEW s \in {"rodata", "data"}, CopySection(s) PROVE BootInv'
  BY <1>1, BootInvSkip, BootInvEnterCopy
<1>2. ASSUME NEW s \in {"rodata", "data"}, CopyByte(s) PROVE BootInv'
  BY <1>2, BootInvCopyByte
<1>3. ASSUME NEW mpidr \in Mpidrs, Start(mpidr) PROVE BootInv'
  BY <1>3, BootInvStart
<1> QED BY <1>1, <1>2, <1>3, BootInvSetStack, BootInvEnterBss,
           BootInvClearWord, BootInvRegisters DEF BootStep

LEMMA BootInvStutter ==
  ASSUME BootInv, UNCHANGED boot_vars
  PROVE  BootInv'
<1>1. UNCHANGED <<stage, load_shift, entry_level, memory, el, sp, dst, src,
                  left, vbar_el1, fpen>>
  BY DEF boot_vars
<1>2. Addresses' = Addresses
  BY <1>1 DEF Addresses
<1> QED BY <1>1, <1>2 DEF BootInv, Loaded, Copied, Clearing, Zeroed, Registers,
                          Copying

LEMMA BootInvHandsOver == BootInv => BootHandsOver
<1> SUFFICES ASSUME BootInv, stage = "main"
             PROVE  /\ \A a \in Text \cup Rodata \cup Data : memory[a] = a
                    /\ \A a \in DOMAIN memory : memory[a] = ZERO <=> a \in Bss
                    /\ el = 1 /\ vbar_el1 /\ fpen
                    /\ sp[el] = IF entry_level = 1 THEN stack_top ELSE UNSET
  BY DEF BootHandsOver
<1>1. Loaded /\ Copied /\ Zeroed /\ Registers
  BY DEF BootInv, Booting
<1> QED BY <1>1 DEF Loaded, Copied, Zeroed, Registers, RodataDone, DataDone,
                    BssDone, StackSet, Booting

-----------------------------------------------------------------------------
(* The image that the linker script lays out is in memory, and the frame   *)
(* allocator is told where.                                                *)
LEMMA ImageFacts ==
  /\ KERNEL_START = kernel_start /\ KERNEL_END = kernel_end
  /\ BITMAP_START = bitmap_start /\ BITMAP_END = kernel_end
  /\ kernel_start \in Nat /\ kernel_end \in Nat /\ bitmap_start \in Nat
  /\ kernel_start < kernel_end /\ kernel_start <= bitmap_start
  /\ PMM_RAM_BASE \in Nat /\ PMM_RAM_BASE <= kernel_start
  /\ RAM_END \in Nat /\ PMM_MAX_ADDRESS \in Nat
  /\ kernel_end <= RAM_END /\ kernel_end <= PMM_MAX_ADDRESS
<1>1. /\ KERNEL_START = kernel_start /\ KERNEL_END = kernel_end
      /\ BITMAP_START = bitmap_start /\ BITMAP_END = kernel_end
      /\ kernel_end <= RAM_END
  BY SolaceConstants DEF kernel_end
<1>2. /\ kernel_start \in Nat /\ kernel_end \in Nat /\ bitmap_start \in Nat
      /\ kernel_start < kernel_end /\ kernel_start <= bitmap_start
  BY Layout
<1>3. PMM_RAM_BASE <= kernel_start /\ kernel_end <= PMM_MAX_ADDRESS
  BY <1>1, PmmRanges DEF RamRange
<1>4. RAM_END \in Nat /\ PMM_RAM_BASE \in Nat
  BY SolaceConstants, PmmConstants, FrameAddrNat DEF RAM_END
<1> QED BY <1>1, <1>2, <1>3, <1>4, RegionFacts

-----------------------------------------------------------------------------
(***************************************************************************)
(* What a step of the kernel is for the heap: one of the heap's own steps, *)
(* or a kfree of something that is no area, or an expansion that gets a    *)
(* frame without memory.                                                   *)
(***************************************************************************)
StrayFree ==
  /\ stage = "shell" /\ pc = "idle"
  /\ effect'.kind = "kfree" /\ ~IsArea(effect'.arg)
  /\ pc' \in {"idle", "corrupt"}
  /\ pc' = "corrupt" => stage' = stage
  /\ UNCHANGED <<pmm_vars, heap, call, live>>

LEMMA TypedNumbers ==
  ASSUME NEW w \in Sh!Words, w.number # Sh!NotANumber
  PROVE  w.number \in Numbers /\ w.number \in Nat /\ w.number \in Sizes
<1>1. w.number \in Numbers \cup {Sh!NotANumber}
  <2>1. CASE w \in [number : Numbers \cup {Sh!NotANumber}, size : {0}]
    BY <2>1
  <2>2. CASE w \in [number : {Sh!NotANumber}, size : Sh!AccessSizes]
    BY <2>2
  <2> QED BY <2>1, <2>2 DEF Sh!Words
<1>2. ASSUME NEW n \in Numbers PROVE n \in Nat /\ n \in Sizes
  BY SolaceConstants, PmmConstants
<1> QED BY <1>1, <1>2, Zenon

LEMMA AllocIsKmalloc ==
  ASSUME NEW w \in Sh!Words, Alloc(w)
  PROVE  /\ UNCHANGED boot_vars
         /\ UNCHANGED vars \/ \E size \in Sizes : Kmalloc(size)
<1>1. Sh!CmdAlloc(<<w>>) /\ UNCHANGED boot_vars
      /\ IF effect'.kind = "kmalloc" THEN Kmalloc(effect'.arg) ELSE UNCHANGED vars
  BY DEF Alloc
<1>2. CASE effect'.kind # "kmalloc"
  BY <1>1, <1>2
<1>3. CASE effect'.kind = "kmalloc"
  <2>1. Sh!AllocAccepts(<<w>>) /\ Sh!Calls("kmalloc", w.number)
    BY <1>1, <1>3 DEF Sh!CmdAlloc, Sh!OnlyPrints, Sh!NoEffect
  <2>2. w.number # Sh!NotANumber /\ effect'.arg = w.number
    BY <2>1 DEF Sh!AllocAccepts, Sh!IsNumber, Sh!Calls
  <2> QED BY <1>1, <1>3, <2>2, TypedNumbers
<1> QED BY <1>2, <1>3

LEMMA FreeIsKfree ==
  ASSUME NEW w \in Sh!Words, Free(w)
  PROVE  \/ UNCHANGED <<vars, boot_vars>>
         \/ (\E ptr \in FreeableAreas : Kfree(ptr)) /\ UNCHANGED boot_vars
         \/ StrayFree
<1>1. Sh!CmdFree(<<w>>) /\ stage = "shell" /\ pc = "idle"
  BY DEF Free, Ready
<1>2. CASE effect'.kind # "kfree"
  BY <1>2 DEF Free
<1>3. CASE effect'.kind = "kfree" /\ IsArea(effect'.arg)
  <2>1. Sh!IsNumber(<<w>>, 1) /\ Sh!Calls("kfree", w.number)
    BY <1>1, <1>3 DEF Sh!CmdFree, Sh!OnlyPrints, Sh!NoEffect
  <2>2. w.number # Sh!NotANumber /\ effect'.arg = w.number
    BY <2>1 DEF Sh!IsNumber, Sh!Calls
  <2>3. w.number \in Nat
    BY <2>2, TypedNumbers
  <2>4. effect'.arg \in FreeableAreas
    <3>1. w.number = w.number - HEAP_HEADER_SIZE + HEAP_HEADER_SIZE
      BY <2>3, KheapConstants
    <3> QED BY <1>3, <2>2, <3>1 DEF IsArea, FreeableAreas
  <2> QED BY <1>3, <2>4 DEF Free
<1>4. CASE effect'.kind = "kfree" /\ ~IsArea(effect'.arg)
  <2>1. KfreeStray(effect'.arg)
    BY <1>4 DEF Free
  <2> QED BY <1>1, <1>4, <2>1 DEF KfreeStray, StrayFree, boot_vars
<1> QED BY <1>2, <1>3, <1>4

(* The steps of a running kmalloc or kheap_init.                           *)
LEMMA HeapStepIsStep == HeapStep => Step /\ UNCHANGED <<boot_vars, shell_vars>>
<1>1. 0 .. BACKED_FRAMES - 1 \subseteq Frames
  BY SolaceConstants, PmmConstants DEF Frames
<1> QED BY <1>1 DEF HeapStep, Step

LEMMA KernelSteps ==
  ASSUME [SolaceNext]_all_vars
  PROVE  \/ UNCHANGED vars
         \/ FrameAllocInit(<<>>) /\ UNCHANGED heap_vars
         \/ KheapInit
         \/ \E size \in Sizes : Kmalloc(size)
         \/ \E ptr \in FreeableAreas : Kfree(ptr)
         \/ HeapStep
         \/ StrayFree
         \/ GrowAborts
<1>1. CASE Boots \/ EnterMain \/ InitTui \/ Shutdown \/ Report \/ Exit
  BY <1>1 DEF Boots, EnterMain, InitTui, Shutdown, Report, Exit
<1>2. CASE InitPmm \/ InitHeap
  BY <1>2 DEF InitPmm, InitHeap
<1>3. ASSUME NEW w \in Sh!Words, Alloc(w)
      PROVE  UNCHANGED vars \/ \E size \in Sizes : Kmalloc(size)
  BY <1>3, AllocIsKmalloc
<1>4. ASSUME NEW w \in Sh!Words, Free(w)
      PROVE  UNCHANGED vars \/ (\E ptr \in FreeableAreas : Kfree(ptr)) \/ StrayFree
  BY <1>4, FreeIsKfree
<1>5. ASSUME NEW w \in Sh!Words, Peek(w) PROVE UNCHANGED vars
  BY <1>5 DEF Peek
<1>6. CASE UNCHANGED all_vars
  BY <1>6 DEF all_vars
<1> QED BY <1>1, <1>2, <1>3, <1>4, <1>5, <1>6 DEF SolaceNext, Kernel

-----------------------------------------------------------------------------
(***************************************************************************)
(* The invariant.  As long as no frame beyond the image was handed out,    *)
(* the frames lie below it, one behind the other, and the heap has no gap. *)
(***************************************************************************)
ReservedIsImage == pmm_ready => reserved = KernelFrames(<<>>)

GapFreeBelowImage == ~CrossedImage => GapInv

StopsWhenCorrupt ==
  pc = "corrupt" =>
    /\ stage \in {"tui", "shell"}
    /\ CrossedImage \/ (effect.kind = "kfree" /\ ~IsArea(effect.arg))

KernelInv ==
  HeapInv /\ ReservedIsImage /\ GapFreeBelowImage /\ StopsWhenCorrupt

LEMMA HandedBelowImage ==
  ASSUME HeapInv, ReservedIsImage, ~CrossedImage, NEW f \in handed
  PROVE  FrameAddr(f + 1) <= kernel_start
<1>1. /\ pmm_ready /\ f \in Frames /\ f \notin reserved
  BY DEF HeapInv, PmmInv, PmmTypeOK, NothingBefore, BitmapIsReservedPlusHanded
<1>2. f \notin KernelFrames(<<>>)
  BY <1>1 DEF ReservedIsImage
<1>3. ~Touches(f, kernel_start, kernel_end)
  BY <1>1, <1>2, ImageFacts DEF KernelFrames, KernelRange
<1>4. ~(FrameAddr(f) >= kernel_end)
  BY DEF CrossedImage
<1>5. FrameAddr(f) \in Nat /\ FrameAddr(f + 1) \in Nat
  <2>1. f \in Nat /\ f + 1 \in Nat
    BY <1>1 DEF Frames
  <2> QED BY <2>1, FrameAddrNat
<1> QED BY <1>3, <1>4, <1>5, ImageFacts DEF Touches

LEMMA ConsecutiveBelowImage ==
  ASSUME HeapInv, ReservedIsImage, GapInv, ~CrossedImage
  PROVE  FramesConsecutive
<1> SUFFICES ASSUME NEW f \in handed, NEW g \in handed, NEW x \in Frames,
                    f < x, x < g
             PROVE  x \in handed
  BY DEF FramesConsecutive
<1>1. /\ pmm_ready /\ g \in Frames /\ frame_bitmap = reserved \cup handed
      /\ reserved = KernelFrames(<<>>)
  BY DEF HeapInv, PmmInv, PmmTypeOK, NothingBefore, BitmapIsReservedPlusHanded,
         ReservedIsImage
<1>2. x \in Nat /\ g \in Nat /\ x + 1 \in Nat /\ g + 1 \in Nat
  BY <1>1 DEF Frames
<1>3. FrameAddr(x + 1) <= kernel_start
  <2>1. FrameAddr(g + 1) <= kernel_start
    BY HandedBelowImage
  <2>2. FrameAddr(x) + PAGE_SIZE <= FrameAddr(g)
    BY <1>1, FrameAddrMono
  <2>3. /\ FrameAddr(x + 1) = FrameAddr(x) + PAGE_SIZE
        /\ FrameAddr(g + 1) = FrameAddr(g) + PAGE_SIZE
        /\ FrameAddr(x) \in Nat /\ FrameAddr(g) \in Nat
    BY <1>2, FrameAddrNat
  <2> QED BY <2>1, <2>2, <2>3, ImageFacts, PmmConstants
<1>4. x \notin reserved
  <2>1. FrameAddr(x + 1) \in Nat
    BY <1>2, FrameAddrNat
  <2>2. /\ ~Touches(x, KERNEL_START, KERNEL_END)
        /\ ~Touches(x, BITMAP_START, BITMAP_END)
    BY <1>3, <2>1, ImageFacts DEF Touches
  <2> QED BY <1>1, <2>2 DEF KernelFrames, KernelRange
<1>5. x \notin ClearFrames
  <2>1. x \in ClearFrames => g < x
    BY DEF GapInv, HandedBelowClear
  <2> QED BY <2>1, <1>2
<1> QED BY <1>1, <1>4, <1>5 DEF ClearFrames

LEMMA BlocksBelowImage ==
  ASSUME HeapInv, ReservedIsImage, GapInv, ~CrossedImage, NEW b \in Blocks(heap)
  PROVE  /\ b \in Nat /\ EndOf(heap, b) \in Nat
         /\ PMM_RAM_BASE <= b /\ EndOf(heap, b) <= kernel_start
<1>1. /\ b \in Nat /\ EndOf(heap, b) \in Nat
      /\ \A x \in Blocks(heap) : x \in Nat
  BY EndTypes DEF HeapInv, HeapOK
<1>2. handed \subseteq Frames /\ \A f \in Frames : f \in Nat /\ f + 1 \in Nat
  BY DEF HeapInv, PmmInv, PmmTypeOK, Frames
<1>3. PMM_RAM_BASE <= b
  <2>1. PICK f \in handed : FrameAddr(f) <= b
    BY DEF GapInv, AboveSomeFrame
  <2>2. PMM_RAM_BASE <= FrameAddr(f) /\ FrameAddr(f) \in Nat
    <3>1. f \in Nat
      BY <1>2
    <3>2. f * PAGE_SIZE \in Nat
      BY <3>1, PmmConstants
    <3> QED BY <3>2, PmmConstants DEF FrameAddr
  <2> QED BY <1>1, <2>1, <2>2, ImageFacts
<1>4. EndOf(heap, b) <= kernel_start
  <2>1. PICK f \in handed : Tiled(heap, FrameAddr(f + 1))
    BY ConsecutiveBelowImage DEF GapInv, TiledToLastFrame
  <2>2. FrameAddr(f + 1) <= kernel_start /\ FrameAddr(f + 1) \in Nat
    BY <1>2, HandedBelowImage, FrameAddrNat
  <2>3. /\ EndOf(heap, b) \in Blocks(heap) \cup {FrameAddr(f + 1)}
        /\ \A x \in Blocks(heap) : x < FrameAddr(f + 1)
    BY <2>1 DEF Tiled
  <2> QED BY <1>1, <2>2, <2>3, ImageFacts
<1> QED BY <1>1, <1>3, <1>4

-----------------------------------------------------------------------------
(* Each part is kept by every step.                                        *)

LEMMA GrowAbortsTakesFrame ==
  ASSUME HeapInv, GrowAborts
  PROVE  /\ pc = "grow" /\ stage' = "panic" /\ UNCHANGED <<heap_vars, reserved>>
         /\ pmm_ready /\ pmm_ready'
         /\ \E f \in Frames : AllocFrame(f) /\ f >= BACKED_FRAMES
<1>1. PICK f \in BACKED_FRAMES .. PMM_TOTAL_FRAMES - 1 : AllocFrame(f)
  BY DEF GrowAborts
<1>2. f \in Frames /\ f >= BACKED_FRAMES
  BY SolaceConstants, PmmConstants DEF Frames
<1>3. UNCHANGED reserved /\ pmm_ready /\ pmm_ready'
  BY <1>1 DEF AllocFrame
<1> QED BY <1>1, <1>2, <1>3 DEF GrowAborts, Goto

LEMMA HeapInvStray ==
  ASSUME HeapInv, StrayFree
  PROVE  HeapInv'
<1>1. /\ UNCHANGED <<heap, live, call, pmm_vars>> /\ pc = "idle"
      /\ pc' \in {"idle", "corrupt"}
  BY DEF StrayFree
<1>2. /\ PmmInv' /\ HeapOK(heap)' /\ BelowClearFrames'
      /\ live' \in [DOMAIN live' -> Nat] /\ LiveIsHeld' /\ LiveFits'
  BY <1>1, HeapUnchanged
<1>3. NothingBeforeInit'
  BY <1>1 DEF HeapInv, NothingBeforeInit, pmm_vars
<1>4. CallOK'
  BY <1>1 DEF HeapInv, CallOK, SizeAligned, CursorValid, FirstPageWaits
<1> QED BY <1>1, <1>2, <1>3, <1>4 DEF HeapInv, PC

LEMMA HeapInvAborts ==
  ASSUME HeapInv, GrowAborts
  PROVE  HeapInv'
<1>1. PICK f \in Frames : AllocFrame(f)
  BY GrowAbortsTakesFrame
<1>2. UNCHANGED <<heap, pc, call, live>>
  BY GrowAbortsTakesFrame DEF heap_vars
<1>3. PmmInv'
  BY <1>1, PmmInvAllocFrame DEF HeapInv
<1>4. ClearFrames' \subseteq ClearFrames /\ pmm_ready'
  BY <1>1 DEF AllocFrame, ClearFrames
<1>5. BelowClearFrames'
  BY <1>2, <1>4 DEF HeapInv, BelowClearFrames
<1>6. NothingBeforeInit'
  BY <1>2, <1>4 DEF HeapInv, NothingBeforeInit
<1>7. CallOK'
  BY <1>2 DEF HeapInv, CallOK, SizeAligned, CursorValid, FirstPageWaits
<1> QED BY <1>2, <1>3, <1>5, <1>6, <1>7 DEF HeapInv, LiveIsHeld, LiveFits

LEMMA HeapInvKernel ==
  ASSUME HeapInv, [SolaceNext]_all_vars
  PROVE  HeapInv'
<1>1. CASE StrayFree
  BY <1>1, HeapInvStray
<1>2. CASE GrowAborts
  BY <1>2, HeapInvAborts
<1>3. CASE FrameAllocInit(<<>>) /\ UNCHANGED heap_vars
  BY <1>3, HeapInvNext, SolaceConstants DEF Next
<1>4. CASE HeapStep
  BY <1>4, HeapInvNext, HeapStepIsStep DEF Next
<1>5. CASE \/ KheapInit \/ \E size \in Sizes : Kmalloc(size)
           \/ \E ptr \in FreeableAreas : Kfree(ptr)
  BY <1>5, HeapInvNext DEF Next
<1>6. CASE UNCHANGED vars
  BY <1>6, HeapInvNext
<1> QED BY <1>1, <1>2, <1>3, <1>4, <1>5, <1>6, KernelSteps

(* A step of the heap other than taking a frame leaves the frames alone.   *)
LEMMA FramesOfHeapStep ==
  ASSUME HeapStep
  PROVE  UNCHANGED pmm_vars \/ \E f \in Frames : AllocFrame(f)
BY HeapStepIsStep
DEF Step, ScanNext, ScanHit, ScanMiss, GrowPage, GrowFails, GrowDone

(* Frames are taken, and never given back.                                 *)
LEMMA FramesOnlyTaken ==
  ASSUME HeapInv, [SolaceNext]_all_vars
  PROVE  \/ UNCHANGED pmm_vars
         \/ \E f \in Frames : AllocFrame(f)
         \/ FrameAllocInit(<<>>)
<1>1. CASE HeapStep
  BY <1>1, FramesOfHeapStep
<1>2. CASE GrowAborts
  BY <1>2, GrowAbortsTakesFrame
<1>3. CASE \/ KheapInit \/ \E size \in Sizes : Kmalloc(size)
           \/ \E ptr \in FreeableAreas : Kfree(ptr)
  BY <1>3 DEF KheapInit, Kmalloc, Kfree
<1>4. CASE StrayFree \/ UNCHANGED vars
  BY <1>4 DEF StrayFree, vars
<1> QED BY <1>1, <1>2, <1>3, <1>4, KernelSteps

LEMMA HandedGrows ==
  ASSUME HeapInv, [SolaceNext]_all_vars
  PROVE  handed \subseteq handed'
BY FramesOnlyTaken DEF pmm_vars, AllocFrame, FrameAllocInit

LEMMA CrossedStays ==
  ASSUME HeapInv, [SolaceNext]_all_vars, CrossedImage
  PROVE  CrossedImage'
BY HandedGrows DEF CrossedImage

LEMMA ReservedKept ==
  ASSUME HeapInv, ReservedIsImage, [SolaceNext]_all_vars
  PROVE  ReservedIsImage'
<1>1. CASE UNCHANGED pmm_vars
  BY <1>1 DEF pmm_vars, ReservedIsImage
<1>2. CASE \E f \in Frames : AllocFrame(f)
  BY <1>2 DEF AllocFrame, ReservedIsImage
<1>3. CASE FrameAllocInit(<<>>)
  <2>1. reserved' = PmmInitState(<<>>).bitmap
    BY <1>3 DEF FrameAllocInit
  <2>2. PmmInitState(<<>>).bitmap = KernelFrames(<<>>)
    BY SolaceConstants, InitStateCounted
  <2> QED BY <2>1, <2>2 DEF ReservedIsImage
<1> QED BY <1>1, <1>2, <1>3, FramesOnlyTaken

(* A frame that has no memory lies beyond the image.                       *)
LEMMA AbortsCrosses ==
  ASSUME HeapInv, GrowAborts
  PROVE  CrossedImage'
<1>1. PICK f \in Frames : AllocFrame(f) /\ f >= BACKED_FRAMES
  BY GrowAbortsTakesFrame
<1>2. f \in handed'
  BY <1>1 DEF AllocFrame
<1>3. FrameAddr(f) >= kernel_end
  <2>1. BACKED_FRAMES \in Nat /\ f \in Nat /\ PAGE_SIZE \in Nat
        /\ PMM_RAM_BASE \in Nat
    BY SolaceConstants, PmmConstants DEF Frames
  <2>2. BACKED_FRAMES * PAGE_SIZE <= f * PAGE_SIZE
    BY <1>1, <2>1, MulMono
  <2>3. BACKED_FRAMES * PAGE_SIZE \in Nat /\ f * PAGE_SIZE \in Nat
    BY <2>1
  <2>4. RAM_END <= FrameAddr(f) /\ FrameAddr(f) \in Nat
    BY <2>1, <2>2, <2>3 DEF RAM_END, FrameAddr
  <2> QED BY <2>4, ImageFacts
<1> QED BY <1>2, <1>3 DEF CrossedImage

LEMMA GapFreeKept ==
  ASSUME HeapInv, HeapInv', GapFreeBelowImage, [SolaceNext]_all_vars
  PROVE  GapFreeBelowImage'
<1> SUFFICES ASSUME ~CrossedImage' PROVE GapInv'
  BY DEF GapFreeBelowImage
<1>1. GapInv
  BY CrossedStays DEF GapFreeBelowImage
<1>2. CASE StrayFree
  <2>1. UNCHANGED <<heap, pmm_vars>>
    BY <1>2 DEF StrayFree
  <2>2. HeapOK(heap) /\ Within(heap, heap)
    BY WithinSame DEF HeapInv, HeapOK
  <2> QED BY <1>1, <2>1, <2>2, GapInvKept
<1>3. CASE GrowAborts
  BY <1>3, AbortsCrosses
<1>4. CASE FrameAllocInit(<<>>) /\ UNCHANGED heap_vars
  BY <1>1, <1>4, GapInvNext, SolaceConstants DEF Next
<1>5. CASE HeapStep
  BY <1>1, <1>5, GapInvNext, HeapStepIsStep DEF Next
<1>6. CASE \/ KheapInit \/ \E size \in Sizes : Kmalloc(size)
           \/ \E ptr \in FreeableAreas : Kfree(ptr)
  BY <1>1, <1>6, GapInvNext DEF Next
<1>7. CASE UNCHANGED vars
  BY <1>1, <1>7, GapInvNext
<1> QED BY <1>2, <1>3, <1>4, <1>5, <1>6, <1>7, KernelSteps

(* Nothing runs on after the heap was written over.                        *)
LEMMA CorruptIsFinal ==
  ASSUME [SolaceNext]_all_vars, pc = "corrupt", stage \in {"tui", "shell"}
  PROVE  UNCHANGED all_vars
<1>1. ~Boots
  BY DEF Boots, BootStep, Start, SetStack, CopySection, CopyByte, CopyLoop,
         EnterBss, ClearWord, SetVectors, EnterEL1
<1>2. ~EnterMain /\ ~InitPmm /\ ~InitHeap /\ ~InitTui /\ ~Shutdown
  BY DEF EnterMain, InitPmm, InitHeap, InitTui, Shutdown
<1>3. ~HeapStep /\ ~GrowAborts
  BY DEF HeapStep, GrowAborts, ScanNext, ScanHit, ScanMiss, GrowPage, GrowFails,
         GrowDone
<1>4. ~Report /\ ~Exit /\ \A w \in Sh!Words : ~Alloc(w) /\ ~Free(w) /\ ~Peek(w)
  BY DEF Report, Exit, Alloc, Free, Peek, Ready
<1> QED BY <1>1, <1>2, <1>3, <1>4 DEF SolaceNext, Kernel

LEMMA CorruptKept ==
  ASSUME KernelInv, [SolaceNext]_all_vars
  PROVE  StopsWhenCorrupt'
<1> SUFFICES ASSUME pc' = "corrupt"
             PROVE  /\ stage' \in {"tui", "shell"}
                    /\ CrossedImage'
                       \/ (effect'.kind = "kfree" /\ ~IsArea(effect.arg)')
  BY DEF StopsWhenCorrupt
<1>1. HeapInv /\ ReservedIsImage /\ GapFreeBelowImage /\ StopsWhenCorrupt
  BY DEF KernelInv
<1>2. CASE pc = "corrupt"
  <2>1. UNCHANGED all_vars
    BY <1>1, <1>2, CorruptIsFinal DEF StopsWhenCorrupt
  <2>2. UNCHANGED <<stage, effect, heap, handed>>
    BY <2>1 DEF all_vars, vars, pmm_vars, heap_vars, boot_vars, shell_vars
  <2> QED BY <1>1, <1>2, <2>2 DEF StopsWhenCorrupt, CrossedImage, IsArea, Blocks
<1>3. CASE pc # "corrupt"
  <2>1. CASE HeapStep
    <3>1. stage' = stage /\ stage \in {"tui", "shell"}
      BY <2>1 DEF HeapStep, boot_vars
    <3>2. ScanHit
      BY <1>3, <2>1 DEF HeapStep, ScanNext, ScanMiss, GrowPage, GrowFails, GrowDone
    <3>3. CrossedImage
      <4>1. ASSUME ~CrossedImage PROVE FALSE
        <5>1. GapInv /\ FramesConsecutive
          BY <1>1, <4>1, ConsecutiveBelowImage DEF GapFreeBelowImage
        <5> QED BY <1>1, <3>2, <5>1, ScanHitInFrames
      <4> QED BY <4>1
    <3> QED BY <1>1, <3>1, <3>3, CrossedStays
  <2>2. CASE StrayFree
    BY <2>2 DEF StrayFree, IsArea, Blocks
  <2>3. CASE \/ KheapInit \/ \E size \in Sizes : Kmalloc(size)
             \/ \E ptr \in FreeableAreas : Kfree(ptr)
    BY <1>3, <2>3 DEF KheapInit, Kmalloc, Kfree
  <2>4. CASE UNCHANGED heap_vars
    BY <1>3, <2>4 DEF heap_vars
  <2> QED BY <1>1, <2>1, <2>2, <2>3, <2>4, KernelSteps DEF vars, GrowAborts
<1> QED BY <1>2, <1>3

LEMMA KernelInvariant == SolaceSpec => []KernelInv
<1>1. SolaceInit => KernelInv
  <2> SUFFICES ASSUME SolaceInit PROVE KernelInv
    OBVIOUS
  <2>1. Init /\ pmm_ready = FALSE /\ pc = "off" /\ handed = {} /\ heap = EmptyHeap
    BY DEF SolaceInit, Init, PmmInit
  <2>2. GapInv
    BY <2>1, EmptyHeapOK DEF GapInv, HandedBelowClear, TiledToLastFrame,
                             AboveSomeFrame, FramesCovered
  <2> QED BY <2>1, <2>2, HeapInvInit
          DEF KernelInv, ReservedIsImage, GapFreeBelowImage, StopsWhenCorrupt
<1>2. KernelInv /\ [SolaceNext]_all_vars => KernelInv'
  <2> SUFFICES ASSUME KernelInv, [SolaceNext]_all_vars PROVE KernelInv'
    OBVIOUS
  <2>1. HeapInv /\ ReservedIsImage /\ GapFreeBelowImage
    BY DEF KernelInv
  <2>2. HeapInv'
    BY <2>1, HeapInvKernel
  <2>3. ReservedIsImage'
    BY <2>1, ReservedKept
  <2>4. GapFreeBelowImage'
    BY <2>1, <2>2, GapFreeKept
  <2> QED BY <2>2, <2>3, <2>4, CorruptKept DEF KernelInv
<1> QED BY <1>1, <1>2, PTL DEF SolaceSpec

-----------------------------------------------------------------------------
(* As long as free is given areas, used or free, and the heap stays below  *)
(* the image, no sequence of commands makes kmalloc write outside the      *)
(* heap's frames.                                                          *)
THEOREM StrayFreeAloneBreaks == SolaceSpec => []OnlyStrayFreeBreaks
<1>1. KernelInv => OnlyStrayFreeBreaks
  BY DEF KernelInv, StopsWhenCorrupt, OnlyStrayFreeBreaks
<1> QED BY <1>1, KernelInvariant, PTL

(* Until the heap reaches the image, every area that alloc gives out       *)
(* passes is_address_valid, has memory behind it and is apart from image,  *)
(* stack and bitmap, whatever else is allocated and freed.                 *)
THEOREM AreasAlwaysUsable == SolaceSpec => []AreasUsable
<1>1. ASSUME KernelInv, ~CrossedImage, NEW ptr \in DOMAIN live,
             NEW b, b = ptr - HEAP_HEADER_SIZE,
             NEW size, size = heap.blk[b].size
      PROVE  /\ Sh!AddressValid(ptr, size) /\ Sh!Exists(ptr, size)
             /\ EndOf(heap, b) <= kernel_start
  <2>1. HeapInv /\ ReservedIsImage /\ GapInv
    BY <1>1 DEF KernelInv, GapFreeBelowImage
  <2>2. PICK x \in Held(heap) : ptr = x + HEAP_HEADER_SIZE
    BY <1>1, <2>1 DEF HeapInv, LiveIsHeld
  <2>3. x \in Blocks(heap) /\ x \in Nat /\ HEAP_HEADER_SIZE \in Nat
    BY <2>1, <2>2, EndTypes, KheapConstants DEF Held, HeapInv, HeapOK
  <2>4. b = x /\ b \in Blocks(heap)
    BY <1>1, <2>2, <2>3
  <2>5. /\ b \in Nat /\ EndOf(heap, b) \in Nat /\ size \in Nat
        /\ PMM_RAM_BASE <= b /\ EndOf(heap, b) <= kernel_start
    BY <1>1, <2>1, <2>4, BlocksBelowImage, EndTypes DEF HeapInv, HeapOK
  <2>6. ptr + size = EndOf(heap, b) /\ ptr = b + HEAP_HEADER_SIZE /\ ptr \in Nat
    BY <1>1, <2>2, <2>3, <2>4, <2>5 DEF EndOf
  <2>7. Sh!Exists(ptr, size)
    BY <2>3, <2>5, <2>6, ImageFacts DEF Sh!Exists
  <2>8. ASSUME size > 0 PROVE (ptr + size - 1) % WORD < PMM_MAX_ADDRESS
    <3>1. ptr + size - 1 \in 0 .. PMM_MAX_ADDRESS - 1
      BY <2>3, <2>5, <2>6, <2>8, ImageFacts
    <3>2. PMM_MAX_ADDRESS < WORD /\ WORD \in Nat /\ PMM_MAX_ADDRESS \in Nat
      BY RegionFacts, PmmConstants
    <3> DEFINE last == ptr + size - 1
    <3> HIDE DEF last
    <3>3. \A n \in 0 .. PMM_MAX_ADDRESS - 1 : n % WORD = n
      BY <3>2
    <3> QED BY <3>1, <3>2, <3>3
  <2>9. ptr >= PMM_RAM_BASE /\ ptr < PMM_MAX_ADDRESS
    BY <2>3, <2>5, <2>6, ImageFacts
  <2>10. Sh!AddressValid(ptr, size)
    <3>1. (ptr + size - 1) % WORD \in Nat
      <4>1. WORD \in Nat \ {0} /\ ptr + size - 1 \in Int
        BY <2>5, <2>6, PmmConstants, RegionFacts
      <4> QED BY <4>1
    <3> QED BY <2>8, <2>9, <3>1, ImageFacts DEF Sh!AddressValid
  <2> QED BY <2>5, <2>7, <2>10
<1>2. KernelInv => (pmm_ready => highest_usable_address = PMM_MAX_ADDRESS)
  BY DEF KernelInv, HeapInv, PmmInv, HighestIsEnd
<1>3. KernelInv => AreasUsable
  BY <1>1, <1>2 DEF AreasUsable
<1> QED BY <1>3, KernelInvariant, PTL

(* When kernel_main is called, all of .text, .rodata and .data is in       *)
(* place, all of .bss and nothing else was cleared, and the stack pointer, *)
(* the vectors and floating point are set up: whatever sizes the linker    *)
(* finds the sections to have, loaded in place or elsewhere.               *)
THEOREM BootAlwaysHandsOver == SolaceSpec => []BootHandsOver
<1>1. SolaceInit => BootInv
  BY BootInvInit DEF SolaceInit
<1>2. ASSUME BootInv, [SolaceNext]_all_vars PROVE BootInv'
  <2>1. CASE Boots
    BY <1>2, <2>1, BootInvStep DEF Boots
  <2>2. CASE UNCHANGED boot_vars
    BY <1>2, <2>2, BootInvStutter
  <2>3. CASE stage' \notin Booting
    BY <2>3 DEF BootInv
  <2>4. CASE EnterMain \/ InitPmm \/ InitHeap \/ InitTui \/ Shutdown \/ GrowAborts
    BY <2>3, <2>4 DEF EnterMain, InitPmm, InitHeap, InitTui, Shutdown, GrowAborts,
                      Goto, Booting
  <2>5. CASE HeapStep \/ Report
    BY <2>2, <2>5 DEF HeapStep, Report
  <2>6. ASSUME NEW w \in Sh!Words, Alloc(w) \/ Free(w) PROVE BootInv'
    BY <2>2, <2>3, <2>6 DEF Alloc, Free, KfreeStray, Goto, Booting
  <2>7. ASSUME NEW w \in Sh!Words, Peek(w) PROVE BootInv'
    BY <2>3, <2>7 DEF Peek, Ready, Goto, Booting
  <2>8. CASE Exit
    BY <2>3, <2>8 DEF Exit, Goto, Booting
  <2>9. CASE UNCHANGED all_vars
    BY <2>2, <2>9 DEF all_vars
  <2> QED BY <1>2, <2>1, <2>4, <2>5, <2>6, <2>7, <2>8, <2>9 DEF SolaceNext, Kernel
<1> QED BY <1>1, <1>2, BootInvHandsOver, PTL DEF SolaceSpec

(* The frame that a byte of managed memory is in.                          *)
LEMMA FrameOfByte ==
  ASSUME NEW y \in Nat, PMM_RAM_BASE <= y, y < PMM_MAX_ADDRESS
  PROVE  \E f \in Frames : FrameAddr(f) <= y /\ y < FrameAddr(f + 1)
<1> DEFINE a == y - PMM_RAM_BASE
           f == a \div PAGE_SIZE
<1>1. a \in Nat /\ PAGE_SIZE \in Nat \ {0} /\ PMM_TOTAL_FRAMES \in Nat \ {0}
      /\ PMM_RAM_BASE \in Nat
  BY PmmConstants
<1>2. a < PMM_TOTAL_FRAMES * PAGE_SIZE /\ PMM_TOTAL_FRAMES * PAGE_SIZE \in Nat
  BY <1>1, RegionFacts DEF PMM_MAX_ADDRESS
<1> HIDE DEF a
<1>3. f \in Nat /\ f * PAGE_SIZE <= a /\ a < (f + 1) * PAGE_SIZE
  BY <1>1
<1> HIDE DEF f
<1>4. f < PMM_TOTAL_FRAMES
  <2>1. PMM_TOTAL_FRAMES <= f => PMM_TOTAL_FRAMES * PAGE_SIZE <= f * PAGE_SIZE
    BY <1>1, <1>3, MulMono
  <2>2. f * PAGE_SIZE \in Nat
    BY <1>1, <1>3
  <2> QED BY <1>1, <1>2, <1>3, <2>1, <2>2
<1>5. f \in Frames
  BY <1>1, <1>3, <1>4 DEF Frames
<1>6. FrameAddr(f) <= y /\ y < FrameAddr(f + 1)
  <2>1. f * PAGE_SIZE \in Nat /\ (f + 1) * PAGE_SIZE \in Nat
    BY <1>1, <1>3
  <2>2. y = PMM_RAM_BASE + a
    BY <1>1 DEF a
  <2> QED BY <1>1, <1>3, <2>1, <2>2 DEF FrameAddr
<1> QED BY <1>5, <1>6

LEMMA BlocksAreFrames ==
  ASSUME HeapInv, ReservedIsImage, GapInv, ~CrossedImage
  PROVE  UNION {b .. EndOf(heap, b) - 1 : b \in Blocks(heap)}
           = UNION {FrameAddr(f) .. FrameAddr(f + 1) - 1 : f \in handed}
<1>1. FramesConsecutive
  BY ConsecutiveBelowImage
<1>2. handed \subseteq Frames /\ \A f \in Frames : f \in Nat /\ f + 1 \in Nat
  BY DEF HeapInv, PmmInv, PmmTypeOK, Frames
<1>3. ASSUME NEW b \in Blocks(heap), NEW y \in b .. EndOf(heap, b) - 1
      PROVE  \E f \in handed : y \in FrameAddr(f) .. FrameAddr(f + 1) - 1
  <2>1. /\ b \in Nat /\ EndOf(heap, b) \in Nat
        /\ PMM_RAM_BASE <= b /\ EndOf(heap, b) <= kernel_start
    BY BlocksBelowImage
  <2>2. y \in Nat /\ PMM_RAM_BASE <= y /\ y < PMM_MAX_ADDRESS
        /\ b <= y /\ y < EndOf(heap, b)
    BY <2>1, <1>3, ImageFacts
  <2>3. PICK f \in Frames : FrameAddr(f) <= y /\ y < FrameAddr(f + 1)
    BY <2>2, FrameOfByte
  <2>4. FrameAddr(f) \in Nat /\ FrameAddr(f + 1) \in Nat
    BY <1>2, FrameAddrNat
  <2>5. f \in handed
    <3>1. InHeapFrames(b, EndOf(heap, b))
      BY <1>1, <2>1, BlockInHeapFrames
    <3>2. f \notin handed => FrameAddr(f + 1) <= b \/ EndOf(heap, b) <= FrameAddr(f)
      BY <3>1 DEF InHeapFrames
    <3> QED BY <3>2, <2>1, <2>2, <2>3, <2>4
  <2>6. y \in FrameAddr(f) .. FrameAddr(f + 1) - 1
    BY <2>2, <2>3, <2>4
  <2> QED BY <2>5, <2>6
<1>4. ASSUME NEW f \in handed, NEW y \in FrameAddr(f) .. FrameAddr(f + 1) - 1
      PROVE  \E b \in Blocks(heap) : y \in b .. EndOf(heap, b) - 1
  <2>1. PICK b \in Blocks(heap) : b <= y /\ y < EndOf(heap, b)
    BY <1>1, <1>4 DEF GapInv, FramesCovered, Covers
  <2>2. b \in Nat /\ EndOf(heap, b) \in Nat /\ y \in Int
    BY <1>2, <1>4, EndTypes, FrameAddrNat DEF HeapInv, HeapOK
  <2> QED BY <2>1, <2>2
<1> DEFINE BlockBytes(b) == b .. EndOf(heap, b) - 1
           FrameBytes(f) == FrameAddr(f) .. FrameAddr(f + 1) - 1
<1>5. /\ \A b \in Blocks(heap) : \A y \in BlockBytes(b) :
           \E f \in handed : y \in FrameBytes(f)
      /\ \A f \in handed : \A y \in FrameBytes(f) :
           \E b \in Blocks(heap) : y \in BlockBytes(b)
  BY <1>3, <1>4
<1> HIDE DEF BlockBytes, FrameBytes
<1>6. UNION {BlockBytes(b) : b \in Blocks(heap)}
        = UNION {FrameBytes(f) : f \in handed}
  BY <1>5
<1> QED BY <1>6 DEF BlockBytes, FrameBytes

LEMMA UsedFrames ==
  ASSUME PmmInv, pmm_ready
  PROVE  total_memory - free_memory = Cardinality(handed)
<1>1. /\ free_memory = Cardinality(ClearFrames)
      /\ total_memory = Cardinality(Frames \ reserved)
      /\ ClearFrames = (Frames \ reserved) \ handed
      /\ (Frames \ reserved) \cap handed = handed
  BY DEF PmmInv, PmmTypeOK, FreeCount, BitmapIsReservedPlusHanded, ClearFrames
<1>2. /\ IsFiniteSet(Frames \ reserved) /\ IsFiniteSet(handed)
      /\ Cardinality(Frames \ reserved) \in Nat /\ Cardinality(handed) \in Nat
  <2>1. IsFiniteSet(Frames \ reserved) /\ IsFiniteSet(handed)
    BY FramesFinite, FS_Subset DEF PmmInv, PmmTypeOK
  <2> QED BY <2>1, FS_CardinalityType
<1>3. Cardinality((Frames \ reserved) \ handed)
        = Cardinality(Frames \ reserved)
            - Cardinality((Frames \ reserved) \cap handed)
  BY <1>2, FS_Difference
<1>4. free_memory = total_memory - Cardinality(handed)
  BY <1>1, <1>3
<1>5. total_memory \in Nat
  BY <1>1, <1>2
<1> QED BY <1>2, <1>4, <1>5

(* Until the heap reaches the image, the bytes of its blocks are exactly   *)
(* those of the frames it got, and these are what pmm_info calls used:     *)
(* splits, merges, expansions, and expansions that fail half-way, lose no  *)
(* byte of RAM.                                                            *)
THEOREM FramesAlwaysAccounted == SolaceSpec => []FramesAccounted
<1>1. ASSUME KernelInv, ~CrossedImage
      PROVE  UNION {b .. EndOf(heap, b) - 1 : b \in Blocks(heap)}
               = UNION {FrameAddr(f) .. FrameAddr(f + 1) - 1 : f \in handed}
  BY <1>1, BlocksAreFrames DEF KernelInv, GapFreeBelowImage
<1>2. ASSUME KernelInv, pmm_ready
      PROVE  total_memory - free_memory = Cardinality(handed)
  BY <1>2, UsedFrames DEF KernelInv, HeapInv
<1>3. KernelInv => FramesAccounted
  BY <1>1, <1>2 DEF FramesAccounted
<1> QED BY <1>3, KernelInvariant, PTL
=============================================================================
