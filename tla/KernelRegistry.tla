---------------------------- MODULE KernelRegistry ----------------------------
(***************************************************************************)
(* Which kernels the machine can run: the detection of the instruction set *)
(* (src/src/cpu_features.cpp), the registry built from it (src/src/        *)
(* kernel_registry.cpp) and the selection of a kernel to render with.      *)
(*                                                                         *)
(* The machine is given by what it reports and by what its system enables; *)
(* an instruction that it does not support ends the program.               *)
(***************************************************************************)
EXTENDS Integers, Sequences

VARIABLES
  arch,          \* what the program was compiled for
  cpu,           \* the machine
  pc,
  features,      \* what Detect has found
  kernels,       \* the registry
  default_index,
  kernel_index,
  faulted        \* an unsupported instruction was executed

registryVars == <<arch, cpu, pc, features, kernels, default_index, kernel_index, faulted>>

Flags == {"leaf1", "leaf7", "avx", "avx2", "fma", "osxsave", "xmm", "ymm"}

(***************************************************************************)
(* A machine: the flags it reports and the register state its system       *)
(* preserves.  Flags lie in leaves, and AVX2 extends AVX.                  *)
(***************************************************************************)
Machines ==
  {m \in SUBSET Flags :
     /\ m \cap {"avx", "fma", "osxsave", "leaf7"} # {} => "leaf1" \in m
     /\ "avx2" \in m => {"avx", "leaf7"} \subseteq m}

Nothing == [osxsave |-> FALSE, avx |-> FALSE, ymm_state |-> FALSE, avx2 |-> FALSE,
            fma |-> FALSE, neon |-> FALSE, simd_kernels_usable |-> FALSE]

RegistryInit ==
  /\ arch \in {"x86", "arm", "other"}
  /\ cpu \in Machines /\ (arch = "x86" \/ cpu = {})
  /\ pc = "leaf1"
  /\ features = Nothing
  /\ kernels = <<>> /\ default_index = 0 /\ kernel_index = 0
  /\ faulted = FALSE
-----------------------------------------------------------------------------
(***************************************************************************)
(* Detect, on x86: leaf 1, the enabled state, leaf 7.                      *)
(***************************************************************************)
Found(f, at) ==
  /\ features' = f /\ pc' = at
  /\ UNCHANGED <<arch, cpu, kernels, default_index, kernel_index>>

DetectOther ==
  /\ pc = "leaf1" /\ arch # "x86"
  /\ Found([Nothing EXCEPT !.neon = arch = "arm", !.simd_kernels_usable = arch = "arm"], "build")
  /\ UNCHANGED faulted

ReadLeaf1 ==
  /\ pc = "leaf1" /\ arch = "x86"
  /\ IF "leaf1" \in cpu
       THEN Found([features EXCEPT !.osxsave = "osxsave" \in cpu, !.avx = "avx" \in cpu,
                                   !.fma = "fma" \in cpu], "xgetbv")
       ELSE Found(features, "build")
  /\ UNCHANGED faulted

ReadXcr0Always ==
  /\ pc = "xgetbv"
  /\ Found([features EXCEPT !.ymm_state = {"xmm", "ymm"} \subseteq cpu], "leaf7")
  /\ faulted' = (faulted \/ "osxsave" \notin cpu)

ReadXcr0 ==
  /\ pc = "xgetbv"
  /\ IF features.osxsave
       THEN /\ Found([features EXCEPT !.ymm_state = {"xmm", "ymm"} \subseteq cpu], "leaf7")
            /\ faulted' = (faulted \/ "osxsave" \notin cpu)
       ELSE Found(features, "leaf7") /\ UNCHANGED faulted

UsableWithFma(f) == f.avx /\ f.avx2 /\ f.osxsave /\ f.ymm_state /\ f.fma

Usable(f) == f.avx /\ f.avx2 /\ f.osxsave /\ f.ymm_state

ReadLeaf7 ==
  /\ pc = "leaf7"
  /\ LET f == [features EXCEPT !.avx2 = {"leaf7", "avx2"} \subseteq cpu]
     IN  Found([f EXCEPT !.simd_kernels_usable = Usable(f)], "build")
  /\ UNCHANGED faulted

(***************************************************************************)
(* Build: the scalar kernel and the two of the architecture.               *)
(***************************************************************************)
Desc(isa, available, reason) == [isa |-> isa, available |-> available, reason |-> reason]

Avx2Reason ==
  IF features.avx2 THEN "OS is not preserving YMM state" ELSE "CPU does not report AVX2"

Registry ==
  LET avx2 == Desc("AVX2", features.simd_kernels_usable, Avx2Reason)
      neon == Desc("NEON", features.neon, "NEON/ASIMD not reported")
  IN  <<Desc("Scalar", TRUE, "")>> \o CASE arch = "x86" -> <<avx2, avx2>>
                                       [] arch = "arm" -> <<neon, neon>>
                                       [] OTHER        -> <<>>

Available(ks) == {i \in 1..Len(ks) : ks[i].available}

Build ==
  /\ pc = "build"
  /\ kernels' = Registry
  /\ default_index' = CHOOSE i \in Available(Registry) : \A j \in Available(Registry) : i <= j
  /\ kernel_index' = default_index'
  /\ pc' = "run"
  /\ UNCHANGED <<arch, cpu, features, faulted>>

(***************************************************************************)
(* The keys 1 to 9 and the drop-down select available kernels only.        *)
(***************************************************************************)
Select(i) ==
  /\ pc = "run"
  /\ i <= Len(kernels) /\ kernels[i].available
  /\ kernel_index' = i
  /\ UNCHANGED <<arch, cpu, pc, features, kernels, default_index, faulted>>

(***************************************************************************)
(* A frame runs the selected kernel.                                       *)
(***************************************************************************)
CanRun(isa) ==
  CASE isa = "Scalar" -> TRUE
    [] isa = "AVX2"   -> {"avx", "avx2", "osxsave", "xmm", "ymm"} \subseteq cpu
    [] isa = "NEON"   -> arch = "arm"

Run ==
  /\ pc = "run"
  /\ faulted' = (faulted \/ ~CanRun(kernels[kernel_index].isa))
  /\ UNCHANGED <<arch, cpu, pc, features, kernels, default_index, kernel_index>>

Detect == DetectOther \/ ReadLeaf1 \/ ReadXcr0 \/ ReadLeaf7

SelectAny == \E i \in 1..9 : Select(i)
-----------------------------------------------------------------------------
RegistryTypeOK ==
  /\ DOMAIN features = DOMAIN Nothing
  /\ pc = "run" => /\ Len(kernels) \in 1..4
                   /\ default_index \in Available(kernels)
                   /\ kernel_index \in 1..Len(kernels)

(***************************************************************************)
(* No instruction is executed that the machine and its system do not       *)
(* support, neither by the detection nor by a kernel: "both are checked    *)
(* here before either AVX2 kernel is allowed to run" (src/src/cpu_features *)
(* .cpp:6).                                                                *)
(***************************************************************************)
NoIllegalInstruction == ~faulted

(***************************************************************************)
(* The registry is complete, a kernel is offered exactly when the machine  *)
(* can run it, and one that is not names a reason that is true of the      *)
(* machine.                                                                *)
(***************************************************************************)
ReasonIsTrue(desc) ==
  IF desc.reason = "CPU does not report AVX2"
    THEN "avx2" \notin cpu
    ELSE ~({"osxsave", "xmm", "ymm"} \subseteq cpu)

OffersWhatRuns ==
  /\ RegistryTypeOK
  /\ pc = "run" =>
       \A i \in 1..Len(kernels) :
         /\ kernels[i].available <=> CanRun(kernels[i].isa)
         /\ ~kernels[i].available => ReasonIsTrue(kernels[i])
=============================================================================
