------------------------------ MODULE HardwareInfo ------------------------------
(***************************************************************************)
(* The hardware snapshot (src/src/hardware_info.cpp): what a native        *)
(* provider reads from the system, what the hwinfo library lays over it,   *)
(* and the defaults.  It is built once and then only read.                 *)
(*                                                                         *)
(* Of the strings only the model's name is kept, of the memory the total:  *)
(* the vendor and the operating system's names are laid over like the      *)
(* model, the available memory like the total.                             *)
(***************************************************************************)
EXTENDS Integers, Sequences, SequencesExt

CONSTANTS
  MaxCacheBytes,         \* the largest plausible cache, 1 GiB
  MaxHz,                 \* the largest plausible clock, 100 GHz
  HzPerMHz, KHzPerMHz,   \* 1000000 and 1000
  kCacheLineBytes,
  MaxClusters            \* the cells of clusters, 4

ASSUME HardwareAssumption ==
  /\ {MaxCacheBytes, MaxHz, HzPerMHz, KHzPerMHz, kCacheLineBytes, MaxClusters}
       \subseteq Nat \ {0}

VARIABLES
  source,    \* what the system and hwinfo report
  snapshot   \* the cached snapshot, or NoSnapshot

hardwareVars == <<source, snapshot>>

Blank ==
  [model |-> "unknown", physical_cores |-> 0, logical_cores |-> 0,
   max_clock_mhz |-> 0, base_clock_mhz |-> 0, l1d |-> 0, l1i |-> 0, l2 |-> 0, l3 |-> 0,
   line |-> 0, clusters |-> <<>>, ram |-> 0, provider |-> "none"]

NoSnapshot == [Blank EXCEPT !.provider = "not asked"]

(***************************************************************************)
(* A field that is assigned as long as it has its initial value keeps the  *)
(* first other value among those read for it.                              *)
(***************************************************************************)
FirstSet(values, unset) ==
  LET set == {i \in DOMAIN values : values[i] # unset}
  IN  IF set = {} THEN unset ELSE values[CHOOSE i \in set : \A j \in set : i <= j]

(***************************************************************************)
(* Linux: the lines of /proc/cpuinfo with their keys, the processors that  *)
(* are online, the clock in kHz (0 without cpufreq), the first ten cache   *)
(* entries of processor 0 in order and the memory.  A later cache of the   *)
(* same level and type replaces an earlier one.                            *)
(***************************************************************************)
ParseSizeSuffix(size) ==
  size.value * CASE size.suffix = "K" -> 1024 [] size.suffix = "M" -> 1024 * 1024
                 [] OTHER -> 1

FillLinux(system) ==
  LET read(key, unset) ==
        FirstSet([i \in DOMAIN system.cpuinfo |->
                    IF system.cpuinfo[i].key = key THEN system.cpuinfo[i].value ELSE unset],
                 unset)
      cores == read("cpu cores", 0)
      cache(l, type) == LET found == SelectSeq(system.caches,
                                       LAMBDA c : c.level = l /\ c.type \in type)
                        IN  IF found = <<>> THEN 0 ELSE ParseSizeSuffix(Last(found).size)
      anyType == {"Data", "Instruction", "Unified"}
  IN  [Blank EXCEPT
         !.provider = "native",
         !.model = read("model name", "unknown"),
         !.physical_cores = IF cores = 0 THEN system.online ELSE cores,
         !.logical_cores = system.online,
         !.max_clock_mhz = system.khz \div KHzPerMHz,
         !.base_clock_mhz = read("cpu MHz", 0),
         !.l1d = cache(1, {"Data"}), !.l1i = cache(1, {"Instruction"}),
         !.l2 = cache(2, anyType), !.l3 = cache(3, anyType),
         !.line = FirstSet([i \in DOMAIN system.caches |-> system.caches[i].line], 0),
         !.ram = system.ram]

(***************************************************************************)
(* macOS: numbers and names by sysctl key, where the machine has the key,  *)
(* and the core clusters (of each its number of cores), of which the       *)
(* snapshot has room for MaxClusters.                                      *)
(***************************************************************************)
FillMac(system) ==
  LET number(key) == IF key \in DOMAIN system.numbers THEN system.numbers[key] ELSE 0
      name(key, unset) == IF key \in DOMAIN system.names THEN system.names[key] ELSE unset
      brand == name("brand_string", "unknown")
      room  == IF Len(system.clusters) < MaxClusters THEN Len(system.clusters)
                                                     ELSE MaxClusters
  IN  [Blank EXCEPT
         !.provider = "native",
         !.model = IF brand \in {"unknown", ""} THEN name("hw.model", brand) ELSE brand,
         !.physical_cores = number("physicalcpu"), !.logical_cores = number("logicalcpu"),
         !.max_clock_mhz = number("cpufrequency_max") \div HzPerMHz,
         !.base_clock_mhz = number("cpufrequency") \div HzPerMHz,
         !.l1d = number("l1dcachesize"), !.l1i = number("l1icachesize"),
         !.l2 = number("l2cachesize"), !.l3 = number("l3cachesize"),
         !.line = number("cachelinesize"),
         !.clusters = SubSeq(system.clusters, 1, room),
         !.ram = number("memsize")]

FillNative(system) ==
  CASE system.platform = "linux" -> FillLinux(system)
    [] system.platform = "macos" -> FillMac(system)
    [] OTHER                     -> Blank

(***************************************************************************)
(* hwinfo: the first package, its cores with sentinels for what they do    *)
(* not know, and the memory.  Built without it, it reports nothing.        *)
(***************************************************************************)
Greatest(S) == CHOOSE n \in S : \A m \in S : m <= n

BestCheckedLate(cores, field, limit) ==
  LET n == Greatest({0} \cup {core[field] : core \in ToSet(cores)})
  IN  IF n <= limit THEN n ELSE 0

Best(cores, field, limit) ==
  Greatest({0} \cup {core[field] : core \in {c \in ToSet(cores) : c[field] \in 1..limit}})

Over(value, native) == IF value # 0 THEN value ELSE native

FillCpu(s, cpu) ==
  LET cache(field) == Over(Best(cpu.cores, field, MaxCacheBytes), s[field])
      clock(field, native) ==
        LET hz == Best(cpu.cores, field, MaxHz)
        IN  IF hz # 0 THEN hz \div HzPerMHz ELSE native
  IN  [s EXCEPT
         !.model = IF cpu.model # "" THEN cpu.model ELSE @,
         !.physical_cores = IF cpu.physical > 0 THEN cpu.physical ELSE @,
         !.logical_cores = IF cpu.logical > 0 THEN cpu.logical ELSE @,
         !.l1d = cache("l1d"), !.l1i = cache("l1i"), !.l2 = cache("l2"), !.l3 = cache("l3"),
         !.max_clock_mhz = clock("max_hz", @), !.base_clock_mhz = clock("regular_hz", @)]

FillHwinfo(s, hwinfo) ==
  LET filled == IF hwinfo.cpus = <<>> THEN s ELSE FillCpu(s, Head(hwinfo.cpus))
      any    == hwinfo.cpus # <<>> \/ hwinfo.ram > 0 \/ hwinfo.os
  IN  [filled EXCEPT !.ram = IF hwinfo.ram > 0 THEN hwinfo.ram ELSE @,
                     !.provider = IF any THEN "hwinfo" ELSE @]

BuildSnapshot(from) ==
  LET s == FillHwinfo(FillNative(from.system), from.hwinfo)
  IN  [s EXCEPT !.line = Over(@, kCacheLineBytes),
                !.logical_cores = Over(@, s.physical_cores)]

(***************************************************************************)
(* What is known of a report: its numbers are not negative, a supported    *)
(* machine has a processor, and hwinfo's count, which becomes an int, may  *)
(* be anything.                                                            *)
(***************************************************************************)
ReportTypes(from) ==
  LET system == from.system
  IN  /\ system.platform \in {"linux", "macos", "other"}
      /\ system.platform = "linux" =>
           /\ system.cpuinfo \in Seq(ToSet(system.cpuinfo))
           /\ system.caches \in Seq(ToSet(system.caches))
           /\ \A i \in DOMAIN system.cpuinfo :
                system.cpuinfo[i].key = "cpu cores" => system.cpuinfo[i].value \in Nat
           /\ system.online \in Nat \ {0}
           /\ \A i \in DOMAIN system.caches : system.caches[i].line \in Nat
      /\ system.platform = "macos" =>
           /\ \A key \in DOMAIN system.numbers : system.numbers[key] \in Nat
           /\ "physicalcpu" \in DOMAIN system.numbers /\ system.numbers["physicalcpu"] > 0
           /\ system.clusters \in Seq(Nat)
      /\ from.hwinfo.cpus # <<>> => Head(from.hwinfo.cpus).physical \in Int

QueryHardware ==
  /\ snapshot = NoSnapshot
  /\ snapshot' = BuildSnapshot(source)
  /\ UNCHANGED source
-----------------------------------------------------------------------------
(***************************************************************************)
(* What hwinfo believably reports for a field, in the snapshot's unit.     *)
(***************************************************************************)
CoresOf(hwinfo) == IF hwinfo.cpus = <<>> THEN {} ELSE ToSet(Head(hwinfo.cpus).cores)

Believable(field, limit, unit) ==
  {core[field] \div unit : core \in {c \in CoresOf(source.hwinfo) : c[field] \in 1..limit}}

Caches == {"l1d", "l1i", "l2", "l3"}

ShownIsSourced(shown, reported, native) ==
  /\ shown \in reported \cup {native}
  /\ \A n \in reported : n <= shown
  /\ reported = {} => shown = native

(***************************************************************************)
(* Every cache and clock on display was reported by somebody: the greatest *)
(* that hwinfo believably reports for any core, in whatever order it lists *)
(* them and however many of them say "unknown", and where it has none the  *)
(* native value ("Anything outside a plausible range is treated as         *)
(* unknown", src/src/hardware_info.cpp:316; "leaves any field it cannot    *)
(* supply untouched", src/README.md:160).  On a supported platform there   *)
(* is a processor and a line size, and clusters never exceed their cells.  *)
(***************************************************************************)
SnapshotIsSourced ==
  snapshot # NoSnapshot =>
    LET native == FillNative(source.system)
    IN  /\ \A field \in Caches :
             ShownIsSourced(snapshot[field], Believable(field, MaxCacheBytes, 1), native[field])
        /\ ShownIsSourced(snapshot.max_clock_mhz, Believable("max_hz", MaxHz, HzPerMHz),
                          native.max_clock_mhz)
        /\ ShownIsSourced(snapshot.base_clock_mhz, Believable("regular_hz", MaxHz, HzPerMHz),
                          native.base_clock_mhz)
        /\ snapshot.line > 0 /\ Len(snapshot.clusters) <= MaxClusters
        /\ source.system.platform # "other" => snapshot.physical_cores > 0
=============================================================================
