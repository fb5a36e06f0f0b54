------------------------------ MODULE MCDashboard ------------------------------
(***************************************************************************)
(* The dashboard model-checked.  Machine, hardware report, window and rate *)
(* do not all influence each other, so they vary in turn: every machine's  *)
(* flags with one report; every report with one machine; every rate; and   *)
(* every window on a machine with one core.                                *)
(***************************************************************************)
EXTENDS Dashboard

Line(key, value) == [key |-> key, value |-> value]

(***************************************************************************)
(* Linux: one processor or two in /proc/cpuinfo, with or without the keys  *)
(* of x86, the first clock unset; caches of the same level twice.          *)
(***************************************************************************)
CpuInfos ==
  {<<>>,
   <<Line("model name", "a"), Line("cpu MHz", 0), Line("cpu cores", 0),
     Line("model name", "b"), Line("cpu MHz", 3), Line("cpu cores", 2)>>,
   <<Line("cpu cores", 4), Line("cpu cores", 2), Line("cpu MHz", 7)>>}

Cache(level, type, value, suffix, line) ==
  [level |-> level, type |-> type, size |-> [value |-> value, suffix |-> suffix], line |-> line]

CacheLists ==
  {<<>>,
   <<Cache(1, "Data", 32, "K", 0), Cache(1, "Instruction", 48, "K", 64),
     Cache(2, "Unified", 1, "M", 128), Cache(2, "Unified", 2, "M", 128)>>}

Linux ==
  {[platform |-> "linux", cpuinfo |-> c, online |-> n, khz |-> k, caches |-> l, ram |-> 9] :
     c \in CpuInfos, n \in {1, 8}, k \in {0, 9}, l \in CacheLists}

Numbers ==
  [physicalcpu |-> 4, logicalcpu |-> 8, l1dcachesize |-> 6, l1icachesize |-> 4,
   l2cachesize |-> 9, cachelinesize |-> 128, memsize |-> 9]

Clocked == [physicalcpu |-> 2, logicalcpu |-> 2, cpufrequency_max |-> 12, cpufrequency |-> 8]

Macs ==
  {[platform |-> "macos", numbers |-> n, names |-> names, clusters |-> c] :
     n \in {Numbers, Clocked},
     names \in {[brand_string |-> "a"], [key \in {"hw.model"} |-> "b"]},
     c \in {<<>>, <<1, 2>>, <<1, 2, 3>>}}

(***************************************************************************)
(* hwinfo: -1 in an unsigned field is Unexposed.  One core or two, in      *)
(* either order, that know a number, none, or nothing.                     *)
(***************************************************************************)
Unexposed == 999999

Core(x, y) == [l1d |-> x, l1i |-> y, l2 |-> x, l3 |-> y, max_hz |-> x, regular_hz |-> y]

Values == {0, 40, 70, Unexposed}

CoreLists ==
  {<<>>, <<Core(40, 70)>>}
    \cup {<<Core(x, 0), Core(z, Unexposed)>> : x \in Values, z \in Values}
    \cup {<<Core(70, x), Core(40, 40)>> : x \in Values}

Cpu(model, physical, logical, cores) ==
  [model |-> model, physical |-> physical, logical |-> logical, cores |-> cores]

Hwinfos ==
  {[cpus |-> <<>>, ram |-> r, os |-> o] : r \in {-1, 0}, o \in BOOLEAN}
    \cup {[cpus |-> <<Cpu("c", n, -1, c)>>, ram |-> 8, os |-> TRUE] :
            n \in {-1, 2}, c \in CoreLists}
    \cup {[cpus |-> <<Cpu("", -1, 4, <<>>), Cpu("d", 1, 1, <<Core(70, 70)>>)>>,
            ram |-> 8, os |-> FALSE]}

Sources == [system : Linux \cup Macs \cup {[platform |-> "other"]}, hwinfo : Hwinfos]

Laptop ==
  [system |-> [platform |-> "macos", numbers |-> Numbers, names |-> [brand_string |-> "a"],
               clusters |-> <<1, 2>>],
   hwinfo |-> [cpus |-> <<>>, ram |-> 0, os |-> FALSE]]

OneCore ==
  [system |-> [platform |-> "other"], hwinfo |-> [cpus |-> <<>>, ram |-> 0, os |-> FALSE]]

ThreeCores ==
  [OneCore EXCEPT !.hwinfo.cpus = <<Cpu("c", 3, 6, <<>>)>>]

Minimised == [w |-> 0, h |-> 0]

Instance(a, c, s, windows, rates, n) ==
  [arch |-> a, cpu |-> c, source |-> s,
   setting |-> [windows |-> windows, rates |-> rates, moves |-> n]]

Rates == {0, 1} \cup UNION {{Lower(t) - 1, Lower(t), Lower(t) + 1} : t \in Tiers \ {0}}

Windows ==
  {Minimised, [w |-> 0, h |-> 2], [w |-> 3, h |-> 0], [w |-> 1, h |-> 1], [w |-> 4, h |-> 2],
   [w |-> 4, h |-> 4], [w |-> 5, h |-> 1], [w |-> 3, h |-> 3]}

EveryMachine ==
  {Instance("x86", m, Laptop, {Minimised}, {5}, 0) : m \in Machines}
    \cup {Instance(a, {}, Laptop, {Minimised}, {5}, 0) : a \in {"arm", "other"}}

EveryReport == {Instance("other", {}, s, {Minimised}, {5}, 0) : s \in Sources}

EveryRate == {Instance("arm", {}, ThreeCores, {Minimised}, Rates, 0)}

EveryWindow == {Instance("other", {}, OneCore, Windows, {0}, 4)}

TheInstances == EveryMachine \cup EveryReport \cup EveryRate \cup EveryWindow

TypedThreads == {-1, 0, 1, 2, 9}

(***************************************************************************)
(* Units of 1/3000: the full set, and a place so deep that the finer       *)
(* resolution is below the limit of single precision there.                *)
(***************************************************************************)
TheResolutions == <<[width |-> 4, height |-> 2], [width |-> 8, height |-> 4]>>

ThePlaces == <<[x |-> -1800, y |-> 0, span |-> 9600], [x |-> -2235, y |-> 304, span |-> 6144]>>
=============================================================================
