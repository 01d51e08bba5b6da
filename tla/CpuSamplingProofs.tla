------------------------- MODULE CpuSamplingProofs -------------------------
(* Proof that two readings of one run give a percentage between 0 and 100,    *)
(* for any number of addresses, machines and listings and whatever the order  *)
(* in which answers are handled.  The argument: a machine's idle and busy     *)
(* counters both only grow between two boots, so the readings held of one run *)
(* form a chain, and a difference along a chain has both parts in range.      *)
EXTENDS CpuSampling, TLAPS

\* The readings the program holds.
Held == ({prev[a] : a \in Address} \cup {reading[s] : s \in Slot}) \ {None}

Busy(x) == x.total - x.idle

\* y was not read before x, if they are of one run and y's total is not less.
InOrder(x, y) == x.idle <= y.idle /\ Busy(x) <= Busy(y)

\* A reading is not ahead of its machine.
NotAhead(x) ==
  /\ x.boot <= boot[x.machine]
  /\ x.boot = boot[x.machine] =>
       /\ x.total <= total[x.machine]
       /\ x.idle <= idle[x.machine]
       /\ Busy(x) <= total[x.machine] - idle[x.machine]

Chained ==
  \A x, y \in Held : SameRun(x, y) /\ x.total <= y.total => InOrder(x, y)

IInv ==
  /\ TypeOK
  /\ \A x \in Held : NotAhead(x)
  /\ Chained
  /\ PctInRangeWithinRun

-----------------------------------------------------------------------------

\* What is held is a reading.
LEMMA HeldType == TypeOK => Held \subseteq Sample
BY DEF TypeOK, Held

\* Two readings of a chain give a percentage in range, or none.
LEMMA PercentInRange ==
  ASSUME NEW new \in Sample, NEW old \in Sample,
         SameRun(new, old) /\ old.total <= new.total => InOrder(old, new),
         CpuPercent(new, old) # None, SameRun(new, old)
  PROVE  InRange(CpuPercent(new, old))
<1>1. /\ new.total \in Int /\ new.idle \in Int
      /\ old.total \in Int /\ old.idle \in Int
  BY BoundsAssumption DEF Sample
<1>2. CASE old = None
  BY <1>2 DEF CpuPercent
<1>3. CASE old # None
  <2>1. TotalDelta(new, old) > 0
    BY <1>1, <1>3 DEF CpuPercent, TotalDelta
  <2>2. /\ CpuPercent(new, old).busy = TotalDelta(new, old) - IdleDelta(new, old)
        /\ CpuPercent(new, old).total = TotalDelta(new, old)
    BY <1>1, <1>3, <2>1 DEF CpuPercent, TotalDelta, IdleDelta
  <2>3. 0 <= IdleDelta(new, old) /\ IdleDelta(new, old) <= TotalDelta(new, old)
    BY <1>1, <2>1 DEF InOrder, Busy, TotalDelta, IdleDelta
  <2> QED
    BY <1>1, <2>1, <2>2, <2>3 DEF InRange, TotalDelta, IdleDelta
<1> QED
  BY <1>2, <1>3

\* A percentage has the type of one.
LEMMA PercentType ==
  ASSUME NEW new \in Sample, NEW old \in Sample \cup {None}
  PROVE  CpuPercent(new, old) \in Percent \cup {None}
<1>1. CASE old = None
  BY <1>1 DEF CpuPercent
<1>2. CASE old # None
  <2>1. /\ new.total \in 0..MaxJiffies /\ new.idle \in 0..MaxJiffies
        /\ old.total \in 0..MaxJiffies /\ old.idle \in 0..MaxJiffies
    BY <1>2 DEF Sample
  <2>2. TotalDelta(new, old) > 0 =>
          /\ TotalDelta(new, old) \in 1..MaxJiffies
          /\ TotalDelta(new, old) - IdleDelta(new, old)
               \in -2 * MaxJiffies..2 * MaxJiffies
    BY <2>1, BoundsAssumption DEF TotalDelta, IdleDelta
  <2>3. SameRun(new, old) \in BOOLEAN
    BY DEF SameRun
  <2>4. CASE TotalDelta(new, old) <= 0
    BY <1>2, <2>4 DEF CpuPercent
  <2>5. CASE ~(TotalDelta(new, old) <= 0)
    <3>1. CpuPercent(new, old) =
            [busy |-> TotalDelta(new, old) - IdleDelta(new, old),
             total |-> TotalDelta(new, old),
             sameRun |-> SameRun(new, old)]
      BY <1>2, <2>5 DEF CpuPercent
    <3>2. TotalDelta(new, old) > 0
      BY <2>1, <2>5, BoundsAssumption DEF TotalDelta
    <3> QED
      BY <2>2, <2>3, <3>1, <3>2 DEF Percent
  <2> QED
    BY <2>4, <2>5
<1> QED
  BY <1>1, <1>2

LEMMA InitInv == Init => IInv
<1> SUFFICES ASSUME Init PROVE IInv
  OBVIOUS
<1>1. Held = {}
  BY DEF Init, Held
<1>2. TypeOK
  BY BoundsAssumption DEF Init, TypeOK
<1>3. PctInRangeWithinRun
  BY DEF Init, PctInRangeWithinRun
<1> QED
  BY <1>1, <1>2, <1>3 DEF IInv, Chained

LEMMA InvStep == IInv /\ [Next]_vars => IInv'
<1> SUFFICES ASSUME IInv, [Next]_vars PROVE IInv'
  OBVIOUS
<1> TypeOK
  BY DEF IInv
<1>h. Held \subseteq Sample
  BY HeldType
<1>1. ASSUME NEW m \in Machine, Run(m) PROVE IInv'
  <2>p. PICK dt \in 1..MaxJiffies : \E di \in 0..dt :
        /\ total[m] + dt <= MaxJiffies
        /\ total' = [total EXCEPT ![m] = @ + dt]
        /\ idle' = [idle EXCEPT ![m] = @ + di]
        /\ UNCHANGED <<boot, behind, listing, reading, waiting, prev, cpuPct>>
    BY <1>1 DEF Run
  <2>q. PICK di \in 0..dt :
        /\ total[m] + dt <= MaxJiffies
        /\ total' = [total EXCEPT ![m] = @ + dt]
        /\ idle' = [idle EXCEPT ![m] = @ + di]
        /\ UNCHANGED <<boot, behind, listing, reading, waiting, prev, cpuPct>>
    BY <2>p
  <2>1. TypeOK'
    BY <2>q, BoundsAssumption DEF TypeOK
  <2>2. Held' = Held
    BY <2>q DEF Held
  <2>3. ASSUME NEW x \in Held PROVE NotAhead(x)'
    <3>1. NotAhead(x) /\ x \in Sample
      BY <1>h DEF IInv
    <3>2. /\ x.machine \in Machine /\ x.total \in Int /\ x.idle \in Int
          /\ total[x.machine] \in Int /\ idle[x.machine] \in Int
      BY <3>1 DEF Sample, TypeOK
    <3>3. dt \in Int /\ di \in Int /\ 0 <= di /\ di <= dt
      BY BoundsAssumption
    <3>4. CASE x.machine = m
      BY <2>q, <3>1, <3>2, <3>3, <3>4 DEF NotAhead, Busy, TypeOK
    <3>5. CASE x.machine # m
      BY <2>q, <3>1, <3>2, <3>5 DEF NotAhead, Busy, TypeOK
    <3> QED
      BY <3>4, <3>5
  <2> QED
    BY <2>q, <2>1, <2>2, <2>3 DEF IInv, Chained, PctInRangeWithinRun
<1>2. ASSUME NEW m \in Machine, Reboot(m) PROVE IInv'
  <2>1. TypeOK'
    BY <1>2, BoundsAssumption DEF TypeOK, Reboot
  <2>2. Held' = Held
    BY <1>2 DEF Held, Reboot
  <2>3. ASSUME NEW x \in Held PROVE NotAhead(x)'
    <3>1. NotAhead(x) /\ x \in Sample
      BY <1>h DEF IInv
    <3>2. x.machine \in Machine /\ x.boot \in Int /\ boot[x.machine] \in Int
      BY <3>1, BoundsAssumption DEF Sample, TypeOK
    <3>3. CASE x.machine = m
      BY <1>2, <3>1, <3>2, <3>3 DEF NotAhead, TypeOK, Reboot
    <3>4. CASE x.machine # m
      BY <1>2, <3>1, <3>2, <3>4 DEF NotAhead, Busy, TypeOK, Reboot
    <3> QED
      BY <3>3, <3>4
  <2> QED
    BY <1>2, <2>1, <2>2, <2>3 DEF IInv, Chained, PctInRangeWithinRun, Reboot
<1>3. ASSUME NEW a \in Address, NEW m \in Machine, Move(a, m) PROVE IInv'
  BY <1>3 DEF IInv, Move, TypeOK, Held, NotAhead, Chained, PctInRangeWithinRun
<1>4. CASE BeginRefresh
  BY <1>4 DEF IInv, BeginRefresh, machineVars, TypeOK, Held, NotAhead, Chained,
              PctInRangeWithinRun
<1>5. ASSUME NEW s \in Slot, Read(s) PROVE IInv'
  \* The new reading equals the machine's counters: nothing held of the same
  \* run is ahead of it, so it ends the chain.
  <2> DEFINE m == behind[listing[s]]
             r == [total |-> total[m], idle |-> idle[m],
                   boot |-> boot[m], machine |-> m]
  <2>1. m \in Machine
    BY DEF TypeOK
  <2>2. r \in Sample
    BY <2>1 DEF TypeOK, Sample
  <2>3. TypeOK'
    BY <1>5, <2>2 DEF Read, TypeOK, machineVars
  <2>4. Held' \subseteq Held \cup {r}
    BY <1>5 DEF Read, Held, TypeOK
  <2>5. NotAhead(r)
    BY <2>1, <2>2, BoundsAssumption DEF NotAhead, Busy, TypeOK
  <2>6. \A x \in Held' : NotAhead(x)'
    BY <1>5, <2>4, <2>5 DEF IInv, NotAhead, Read, machineVars
  <2>7. ASSUME NEW x \in Held, SameRun(x, r)
        PROVE  /\ InOrder(x, r)
               /\ r.total <= x.total => InOrder(r, x)
    <3>1. NotAhead(x) /\ x \in Sample
      BY <1>h DEF IInv
    <3>2. x.machine = m /\ x.boot = boot[m]
      BY <2>7 DEF SameRun
    <3>3. /\ x.total \in Int /\ x.idle \in Int
          /\ total[m] \in Int /\ idle[m] \in Int
      BY <2>1, <3>1 DEF Sample, TypeOK
    <3>4. /\ x.total <= total[m]
          /\ x.idle <= idle[m]
          /\ Busy(x) <= total[m] - idle[m]
      BY <3>1, <3>2 DEF NotAhead
    <3> QED
      BY <3>3, <3>4 DEF InOrder, Busy
  <2>8. InOrder(r, r)
    BY <2>1, BoundsAssumption DEF InOrder, Busy, TypeOK
  <2>9. Chained'
    <3> SUFFICES ASSUME NEW x \in Held \cup {r}, NEW y \in Held \cup {r},
                        SameRun(x, y), x.total <= y.total
                 PROVE  InOrder(x, y)
      BY <2>4 DEF Chained
    <3>1. CASE x \in Held /\ y \in Held
      BY <3>1 DEF IInv, Chained
    <3>2. CASE x \in Held /\ y = r
      BY <2>7, <3>2
    <3>3. CASE x = r /\ y \in Held
      <4>1. SameRun(y, r)
        BY <3>3 DEF SameRun
      <4> QED
        BY <2>7, <3>3, <4>1
    <3>4. CASE x = r /\ y = r
      BY <2>8, <3>4
    <3> QED
      BY <3>1, <3>2, <3>3, <3>4
  <2> QED
    BY <1>5, <2>3, <2>6, <2>9 DEF IInv, Read, PctInRangeWithinRun
<1>6. ASSUME NEW s \in Slot, ReadFails(s) PROVE IInv'
  BY <1>6 DEF IInv, ReadFails, machineVars, TypeOK, Held, NotAhead, Chained,
              PctInRangeWithinRun
<1>7. ASSUME NEW s \in Slot, Finish(s) PROVE IInv'
  <2> DEFINE a == listing[s]
             p == CpuPercent(reading[s], prev[a])
  <2>1. a \in Address /\ reading[s] \in Sample /\ reading[s] \in Held
    BY <1>7 DEF Finish, TypeOK, Held
  <2>2. prev[a] \in Sample \cup {None}
    BY <2>1 DEF TypeOK
  <2>3. p \in Percent \cup {None}
    BY <2>1, <2>2, PercentType
  <2>4. TypeOK'
    BY <1>7, <2>1, <2>3 DEF Finish, TypeOK, machineVars
  <2>5. Held' \subseteq Held
    BY <1>7, <2>1 DEF Finish, Held, TypeOK
  <2>6. \A x \in Held' : NotAhead(x)'
    BY <1>7, <2>5 DEF IInv, NotAhead, Finish, machineVars
  <2>7. Chained'
    BY <2>5 DEF IInv, Chained
  <2>8. ASSUME p # None, p.sameRun PROVE InRange(p)
    <3>1. prev[a] # None
      BY <2>8 DEF CpuPercent
    <3>2. prev[a] \in Held /\ prev[a] \in Sample
      BY <2>1, <2>2, <3>1 DEF Held
    <3>3. SameRun(reading[s], prev[a])
      BY <2>8, <3>1 DEF CpuPercent
    <3>4. SameRun(prev[a], reading[s])
      BY <3>3 DEF SameRun
    <3> HIDE DEF p
    <3>5. prev[a].total <= reading[s].total => InOrder(prev[a], reading[s])
      BY <2>1, <3>2, <3>4 DEF IInv, Chained
    <3> QED
      BY <2>1, <2>8, <3>2, <3>3, <3>5, PercentInRange DEF p
  <2>9. PctInRangeWithinRun'
    <3>1. cpuPct' = [cpuPct EXCEPT ![s] = p]
      BY <1>7 DEF Finish
    <3> HIDE DEF p
    <3> QED
      BY <2>8, <3>1 DEF IInv, PctInRangeWithinRun, TypeOK
  <2> QED
    BY <2>4, <2>6, <2>7, <2>9 DEF IInv
<1>8. CASE UNCHANGED vars
  BY <1>8 DEF IInv, vars, machineVars, TypeOK, Held, NotAhead, Chained,
              PctInRangeWithinRun
<1> QED
  BY <1>1, <1>2, <1>3, <1>4, <1>5, <1>6, <1>7, <1>8 DEF Next

\* The invariant holds in every reachable state.
THEOREM Invariance == Spec => []IInv
BY InitInv, InvStep, PTL DEF Spec

\* coordinator.py:280-289: counters, readings and percentages keep their types.
THEOREM TypeCorrect == Spec => []TypeOK
<1>1. IInv => TypeOK
  BY DEF IInv
<1> QED
  BY Invariance, <1>1, PTL

\* coordinator.py:280-289: as long as a machine is not rebooted or replaced
\* between two readings of its address, the CPU percentage is a percentage.
THEOREM PctInRangeWithinRunHolds == Spec => []PctInRangeWithinRun
<1>1. IInv => PctInRangeWithinRun
  BY DEF IInv
<1> QED
  BY Invariance, <1>1, PTL
=============================================================================
