-------------------------------- MODULE Dashboard --------------------------------
(***************************************************************************)
(* The program from main() to the panel (src/src/main.cpp): it asks for    *)
(* the hardware, detects the kernels, starts the pool with a worker per    *)
(* core, and from then on renders frames while the user picks a kernel, a  *)
(* number of threads and a view; the panel describes what a frame used.    *)
(* The parts meet here; the frame loop's own order is the module App's.    *)
(*                                                                         *)
(* setting bounds a behaviour: the sizes its window takes, the rates its   *)
(* frames reach and the steps of the mouse and of the view's controls.     *)
(***************************************************************************)
EXTENDS KernelRegistry, HardwareInfo, ViewNavigation, PerformanceGrade

CONSTANTS
  kMaxRenderThreads,  \* 64
  ThreadInputs,       \* what the thread slider returns; a typed number ignores its range
  Instances           \* the machines and settings to start from

ASSUME DashboardAssumption ==
  /\ kMaxRenderThreads \in Nat \ {0} /\ ThreadInputs \subseteq Int
  /\ \A i \in Instances :
       /\ ReportTypes(i.source)
       /\ i.setting.rates \subseteq Nat
       /\ i.setting.windows \subseteq [w : Nat, h : Nat]

VARIABLES
  setting,
  started,            \* App::Init has returned
  max_thread_count,
  thread_count,
  last_thread_count,  \* the pool's: participants of the last frame
  live_mips,          \* live_mega_iters_per_sec_
  fresh,              \* history: no control was used since the last frame
  moves

poolVars  == <<started, max_thread_count, thread_count, last_thread_count>>
panelVars == <<live_mips, fresh>>
vars == <<registryVars, hardwareVars, viewVars, poolVars, panelVars, setting, moves>>

Init ==
  /\ \E i \in Instances :
       /\ arch = i.arch /\ cpu = i.cpu /\ source = i.source /\ setting = i.setting
       /\ \E w \in i.setting.windows : ViewInit(w)
  /\ RegistryInit
  /\ snapshot = NoSnapshot
  /\ started = FALSE
  /\ max_thread_count = 1 /\ thread_count = 1 /\ last_thread_count = 1
  /\ live_mips = 0 /\ fresh = FALSE
  /\ moves = 0
-----------------------------------------------------------------------------
(***************************************************************************)
(* main: the hardware first, then the kernels.                             *)
(***************************************************************************)
AskHardware ==
  /\ QueryHardware
  /\ UNCHANGED <<registryVars, viewVars, poolVars, panelVars, setting, moves>>

MakeRegistry ==
  /\ snapshot # NoSnapshot
  /\ Detect \/ Build
  /\ UNCHANGED <<hardwareVars, viewVars, poolVars, panelVars, setting, moves>>

(***************************************************************************)
(* App::Init: one participant per physical core, as many as the pool has.  *)
(***************************************************************************)
AtMost(n, limit) == IF n > limit THEN limit ELSE n

LogicalCores == IF snapshot.logical_cores > 0 THEN snapshot.logical_cores ELSE 1

Cores == IF snapshot.physical_cores > 0 THEN snapshot.physical_cores ELSE 1

InitApp ==
  /\ pc = "run" /\ ~started
  /\ started' = TRUE
  /\ max_thread_count' = AtMost(Cores, kMaxRenderThreads)
  /\ thread_count' = 1
  /\ UNCHANGED <<registryVars, hardwareVars, viewVars, last_thread_count, panelVars,
                 setting, moves>>

(***************************************************************************)
(* A frame: the kernel runs on as many threads as RenderFrame admits, and  *)
(* the rate of the window is computed.                                     *)
(***************************************************************************)
Participants ==
  IF thread_count < 1 THEN 1 ELSE AtMost(thread_count, max_thread_count)

Frame ==
  /\ started
  /\ Run
  /\ last_thread_count' = Participants
  /\ live_mips' \in setting.rates
  /\ fresh' = TRUE
  /\ UNCHANGED <<hardwareVars, viewVars, started, max_thread_count, thread_count, setting,
                 moves>>

(***************************************************************************)
(* The controls.  Whatever they change, the next frame makes the rate anew *)
(* (module App, WindowIsHomogeneous).                                      *)
(***************************************************************************)
UseKernel ==
  /\ started
  /\ SelectAny
  /\ fresh' = FALSE
  /\ UNCHANGED <<hardwareVars, viewVars, poolVars, live_mips, setting, moves>>

SetThreads ==
  /\ started /\ max_thread_count > 1
  /\ thread_count' \in ThreadInputs \cup {max_thread_count}
  /\ fresh' = FALSE
  /\ UNCHANGED <<registryVars, hardwareVars, viewVars, started, max_thread_count,
                 last_thread_count, live_mips, setting, moves>>

UseView ==
  /\ started /\ moves < setting.moves
  /\ Navigate \/ \E w \in setting.windows : Resize(w)
  /\ fresh' = FALSE
  /\ moves' = moves + 1
  /\ UNCHANGED <<registryVars, hardwareVars, poolVars, live_mips, setting>>

Next ==
  \/ AskHardware \/ MakeRegistry \/ InitApp
  \/ Frame \/ UseKernel \/ SetThreads \/ UseView

Spec == Init /\ [][Next]_vars
-----------------------------------------------------------------------------
DashboardTypeOK ==
  /\ {started, dragging, fresh} \subseteq BOOLEAN
  /\ max_thread_count \in 1..kMaxRenderThreads
  /\ last_thread_count \in 1..max_thread_count
  /\ thread_count \in Int /\ live_mips \in Nat
  /\ resolution_index \in DOMAIN Resolutions
  /\ view \in [x : Int, y : Int, span : Nat \ {0}]

(***************************************************************************)
(* The panel's "Your computer" tells the truth about the frame behind the  *)
(* number: three places clamp the thread count (src/src/main.cpp:387,      *)
(* src/src/thread_pool.cpp:141 and src/src/performance_grade.cpp:132) and  *)
(* must come to the same.  The cores it calls used are the participants of *)
(* the frame, whatever was typed, unless the machine has more cores than   *)
(* the pool has room for, and there for everything the slider offers.  A   *)
(* rate called "your whole processor's actual speed" was made by a thread  *)
(* per core, and where the panel says "Move the slider to all", the slider *)
(* reaches them.                                                           *)
(***************************************************************************)
Utilisation == DescribeUtilisation(live_mips, snapshot.physical_cores, thread_count)

PoolHoldsCores == Utilisation.cores_total <= kMaxRenderThreads

PanelMatchesPool ==
  /\ DashboardTypeOK
  /\ fresh =>
       /\ PoolHoldsCores \/ thread_count <= max_thread_count =>
            Utilisation.cores_used = last_thread_count
       /\ PoolHoldsCores /\ Utilisation.using_whole_chip =>
            last_thread_count = Utilisation.cores_total
       /\ PoolHoldsCores /\ Utilisation.projection_valid =>
            max_thread_count = Utilisation.cores_total

(***************************************************************************)
(* The scale below the verdict agrees with the verdict: the active row is  *)
(* the only one whose printed range contains the rate, rows show their own *)
(* colours and only the top tier fills the meter ("so the verdict is not a *)
(* black box", src/src/main.cpp:951).                                      *)
(***************************************************************************)
ScaleMatchesGrade == ScaleFits(live_mips)
=============================================================================
