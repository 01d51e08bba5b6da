---------------------------- MODULE CpuSampling ----------------------------
(* How a node's CPU percentage comes about: every refresh reads cumulative    *)
(* counters from each listed address and turns the difference to the last     *)
(* reading of that address into a percentage.  The list may name an address   *)
(* twice, the machine behind an address may change (a virtual IP moves, a     *)
(* lease is reassigned), and a machine restarts its counters when it boots.   *)
EXTENDS Integers

CONSTANTS
  Address,      \* addresses of nodes
  Machine,      \* machines that can answer at an address
  Slot,         \* positions of a refresh's node list
  MaxJiffies,   \* bound on a machine's counters between two boots
  MaxBoots      \* bound on a machine's boots

ASSUME BoundsAssumption == MaxJiffies \in Nat /\ MaxBoots \in Nat

VARIABLES
  total, idle,  \* cumulative jiffies of each machine, idle with iowait
  boot,         \* boot_time of each machine
  behind,       \* the machine that answers at each address
  listing,      \* the node list of the current refresh
  reading,      \* the counters read for a position, awaiting the others
  waiting,      \* positions of the current refresh not yet read
  prev,         \* coordinator._cpu_prev, with where the reading came from
  cpuPct        \* NodeData.cpu_pct of each position, as busy over total

machineVars == <<total, idle, boot, behind>>
vars == <<machineVars, listing, reading, waiting, prev, cpuPct>>

None == [none |-> TRUE]

Sample == [total : 0..MaxJiffies, idle : 0..MaxJiffies,
           boot : 0..MaxBoots, machine : Machine]

\* A percentage is 100 * busy / total.  sameRun is history: both readings came
\* from one machine between two of its boots.
Percent == [busy : -2 * MaxJiffies..2 * MaxJiffies, total : 1..MaxJiffies,
            sameRun : BOOLEAN]

SameRun(x, y) == x.machine = y.machine /\ x.boot = y.boot

-----------------------------------------------------------------------------
(* The machines.                                                              *)

Run(m) ==
  \E dt \in 1..MaxJiffies : \E di \in 0..dt :
    /\ total[m] + dt <= MaxJiffies
    /\ total' = [total EXCEPT ![m] = @ + dt]
    /\ idle' = [idle EXCEPT ![m] = @ + di]
    /\ UNCHANGED <<boot, behind, listing, reading, waiting, prev, cpuPct>>

Reboot(m) ==
  /\ boot[m] < MaxBoots
  /\ boot' = [boot EXCEPT ![m] = @ + 1]
  /\ total' = [total EXCEPT ![m] = 0]
  /\ idle' = [idle EXCEPT ![m] = 0]
  /\ UNCHANGED <<behind, listing, reading, waiting, prev, cpuPct>>

Move(a, m) ==
  /\ behind' = [behind EXCEPT ![a] = m]
  /\ UNCHANGED <<total, idle, boot, listing, reading, waiting, prev, cpuPct>>

-----------------------------------------------------------------------------
(* A refresh.                                                                 *)

Pending(s) == s \in waiting \/ reading[s] # None

BeginRefresh ==
  /\ \A s \in Slot : ~Pending(s)
  /\ listing' \in [Slot -> Address]
  /\ waiting' = Slot
  /\ cpuPct' = [s \in Slot |-> None]
  /\ UNCHANGED <<machineVars, reading, prev>>

\* The machine answers client.cpu_times.
Read(s) ==
  LET m == behind[listing[s]]
  IN /\ s \in waiting
     /\ waiting' = waiting \ {s}
     /\ reading' = [reading EXCEPT ![s] =
          [total |-> total[m], idle |-> idle[m],
           boot |-> boot[m], machine |-> m]]
     /\ UNCHANGED <<machineVars, listing, prev, cpuPct>>

\* The call fails: _cpu_percent is not called and the last reading stays.
ReadFails(s) ==
  /\ s \in waiting
  /\ waiting' = waiting \ {s}
  /\ UNCHANGED <<machineVars, listing, reading, prev, cpuPct>>

\* total_delta and idle_delta.  (A definition just before the one it resembles
\* is a seeded fault, as in Coordinator.)
SummedTotals(new, old) == new.total + old.total
UnsignedDelta(new, old) ==
  IF new.total < old.total THEN old.total - new.total ELSE new.total - old.total
TotalDelta(new, old) == new.total - old.total
IdleDelta(new, old) == new.idle - old.idle

\* _cpu_percent: nothing without an earlier reading or if time did not advance.
CpuPercent(new, old) ==
  IF old = None THEN None
  ELSE IF TotalDelta(new, old) <= 0 THEN None
  ELSE [busy |-> TotalDelta(new, old) - IdleDelta(new, old),
        total |-> TotalDelta(new, old),
        sameRun |-> SameRun(new, old)]

\* The node's calls are all in: the percentage is taken and the reading kept.
Finish(s) ==
  LET a == listing[s]
  IN /\ reading[s] # None
     /\ cpuPct' = [cpuPct EXCEPT ![s] = CpuPercent(reading[s], prev[a])]
     /\ prev' = [prev EXCEPT ![a] = reading[s]]
     /\ reading' = [reading EXCEPT ![s] = None]
     /\ UNCHANGED <<machineVars, listing, waiting>>

-----------------------------------------------------------------------------
Init ==
  /\ total = [m \in Machine |-> 0]
  /\ idle = [m \in Machine |-> 0]
  /\ boot = [m \in Machine |-> 0]
  /\ behind \in [Address -> Machine]
  /\ listing \in [Slot -> Address]
  /\ reading = [s \in Slot |-> None]
  /\ waiting = {}
  /\ prev = [a \in Address |-> None]
  /\ cpuPct = [s \in Slot |-> None]

Next ==
  \/ \E m \in Machine : Run(m) \/ Reboot(m)
  \/ \E a \in Address, m \in Machine : Move(a, m)
  \/ BeginRefresh
  \/ \E s \in Slot : Read(s) \/ ReadFails(s) \/ Finish(s)

Spec == Init /\ [][Next]_vars

-----------------------------------------------------------------------------
(* Properties.                                                                *)

\* Every variable holds a value of the program's type.
TypeOK ==
  /\ total \in [Machine -> 0..MaxJiffies]
  /\ idle \in [Machine -> 0..MaxJiffies]
  /\ \A m \in Machine : idle[m] <= total[m]
  /\ boot \in [Machine -> 0..MaxBoots]
  /\ behind \in [Address -> Machine]
  /\ listing \in [Slot -> Address]
  /\ reading \in [Slot -> Sample \cup {None}]
  /\ waiting \subseteq Slot
  /\ prev \in [Address -> Sample \cup {None}]
  /\ cpuPct \in [Slot -> Percent \cup {None}]

InRange(p) == 0 <= p.busy /\ p.busy <= p.total /\ p.total > 0

\* A percentage taken between two readings of one machine in one boot lies
\* between 0 and 100, also when the list names an address twice and the two
\* answers are handled in the other order than they were read.
PctInRangeWithinRun ==
  \A s \in Slot : cpuPct[s] # None /\ cpuPct[s].sameRun => InRange(cpuPct[s])

\* client.py:263, "the coordinator deltas these into a percent": whatever is
\* shown as a percentage lies between 0 and 100.
PctInRange == \A s \in Slot : cpuPct[s] # None => InRange(cpuPct[s])
=============================================================================
