----------------------------- MODULE PlanProofs -----------------------------
(***************************************************************************)
(* The two plans that are made from the machine and the settings, for any  *)
(* of both: the batch that fits the card, and the cores of the threads.    *)
(***************************************************************************)
EXTENDS PartsProofs

-----------------------------------------------------------------------------
(* VramPlan                                                                *)

\* The plan is the one for the request.
VramInv == part = "vram" => request \in Vram!Request /\ vplan = Vram!PlanCudaBatch(request)

LEMMA LanesArePositive ==
    ASSUME NEW r \in Vram!Request
    PROVE  Vram!Lanes(r) \in Nat \ {0}
<1>0. r.total \in Nat /\ r.lanes \in Nat
  BY VramParameters DEF Vram!Parameters, Vram!Request
<1> DEFINE total == r.total
           Row(lanes_) == IF lanes_ = 1 THEN 0 ELSE lanes_ * 3584
           tableRows == {n \in {1, 2, 4, 8, 16, 32} : total >= Row(n)}
           Most(n) == n \in tableRows /\ \A k \in tableRows : k <= n
<1>1. Vram!SuggestedMaxLanes(r.total) = CHOOSE most \in tableRows : \A n \in tableRows : n <= most
  BY DEF Vram!SuggestedMaxLanes
<1>2. \E n \in tableRows : \A k \in tableRows : k <= n
  <2> HIDE DEF total
  <2>0. total \in Nat
    BY <1>0 DEF total
  <2>1. CASE total >= 32 * 3584
    BY <2>0, <2>1
  <2>2. CASE total < 32 * 3584 /\ total >= 16 * 3584
    BY <2>0, <2>2
  <2>3. CASE total < 16 * 3584 /\ total >= 8 * 3584
    BY <2>0, <2>3
  <2>4. CASE total < 8 * 3584 /\ total >= 4 * 3584
    BY <2>0, <2>4
  <2>5. CASE total < 4 * 3584 /\ total >= 2 * 3584
    BY <2>0, <2>5
  <2>6. CASE total < 2 * 3584
    BY <2>0, <2>6
  <2> QED
    BY <2>0, <2>1, <2>2, <2>3, <2>4, <2>5, <2>6
<1>3. tableRows \subseteq Nat \ {0}
  OBVIOUS
<1> HIDE DEF tableRows
<1>4. Vram!SuggestedMaxLanes(r.total) \in Nat \ {0}
  BY <1>1, <1>2, <1>3
<1> QED
  BY <1>0, <1>4 DEF Vram!Lanes, Vram!Least

\* As many hashes as the division says fit into the memory; one more does not.
LEMMA HashesFit ==
    ASSUME NEW mib \in Nat, NEW a \in Nat \ {0}, NEW batch \in Nat,
           batch <= (mib * 10240) \div a
    PROVE  /\ (batch * a) \div 10240 \in Nat /\ (batch * a) \div 10240 <= mib
           /\ ((mib * 10240) \div a + 1) * a > mib * 10240
<1> DEFINE n == mib * 10240
           d == n \div a
<1>1. n \in Nat
  OBVIOUS
<1>2. d \in Nat /\ d * a <= n /\ n < (d + 1) * a
  <2> HIDE DEF n
  <2> QED
    BY <1>1
<1>3. batch * a <= d * a
  <2> HIDE DEF d
  <2> QED
    BY <1>2
<1> DEFINE k == batch * a
<1>4. k \in Nat /\ k <= mib * 10240
  BY <1>2, <1>3
<1>5. k \div 10240 \in Nat /\ k \div 10240 <= mib
  <2> HIDE DEF k
  <2> QED
    BY <1>4
<1> QED
  BY <1>2, <1>5

LEMMA PlanIsSound ==
    ASSUME NEW r \in Vram!Request
    PROVE  LET plan_ == Vram!PlanCudaBatch(r)
               caps  == plan_.caps
               lanes_ == Vram!Lanes(r)
               spare == Vram!Least(caps.target, Vram!Minus(r.total, caps.headroom))
           IN /\ plan_.batch > 0 =>
                     /\ Vram!WithinLimits(r, caps, plan_.batch)
                     /\ Vram!BatchVram(plan_.batch, lanes_, r.m) + caps.overhead
                            <= caps.emergency
              /\ r.batch = 0 /\ r.max_batch = 0 =>
                     (plan_.batch + 1) * lanes_ * r.m * 1001
                         > Vram!Minus(spare, caps.overhead) * 10240
<1> DEFINE caps == Vram!ResolveVramCaps(r)
           mib  == Vram!Allowed(r, caps)
           n    == Vram!Lanes(r)
           a    == n * r.m * 1001
           inRoom == (mib * 10240) \div a
           batch == Vram!BatchPerLane(r, mib)
           plan_ == Vram!PlanCudaBatch(r)
           spare == Vram!Least(caps.target, Vram!Minus(r.total, caps.headroom))
<1> USE DEF Vram!Least, Vram!Greatest, Vram!Minus
<1>0. /\ r.total \in Nat /\ r.m \in Nat \ {0} /\ r.target \in Nat /\ r.floor \in Nat
      /\ r.batch \in Nat /\ r.max_batch \in Nat /\ r.pct[1] \in Nat /\ r.pct[2] \in Nat
      /\ r.pct[3] \in Nat /\ r.pct[4] \in Nat
  <2>1. r.pct \in (0..100) \X (0..100) \X (0..100) \X (0..100)
    BY VramParameters DEF Vram!Parameters, Vram!Request
  <2>2. r.pct[1] \in Nat /\ r.pct[2] \in Nat /\ r.pct[3] \in Nat /\ r.pct[4] \in Nat
    BY <2>1
  <2> QED
    BY <2>2, VramParameters DEF Vram!Parameters, Vram!Request
<1>1. \A pct \in Nat : Vram!PercentOf(r.total, pct) \in Nat
  <2> TAKE pct \in Nat
  <2>1. 2 * r.total * pct + 100 \in Nat
    BY <1>0
  <2> QED
    BY <2>1 DEF Vram!PercentOf
<1>2. /\ caps.target \in Nat /\ caps.headroom \in Nat /\ caps.emergency \in Nat
      /\ caps.overhead \in Nat /\ caps.target <= caps.emergency
  BY <1>0, <1>1 DEF Vram!ResolveVramCaps
<1>3. plan_.caps = caps /\ plan_.batch = Vram!ClampPlanToCaps(r, caps, batch)
  BY DEF Vram!PlanCudaBatch
<1>4. n \in Nat \ {0} /\ a \in Nat \ {0}
  BY <1>0, LanesArePositive
<1> HIDE DEF caps, n
<1>5. /\ mib \in Nat
      /\ mib > 0 => /\ mib <= caps.target - caps.overhead
                    /\ mib <= r.total - (caps.headroom + caps.overhead)
      /\ mib = Vram!Minus(spare, caps.overhead)
  BY <1>0, <1>2 DEF Vram!Allowed
<1> HIDE DEF mib, spare
<1>6. inRoom \in Nat
  BY <1>4, <1>5
<1>7. batch \in Nat /\ batch <= inRoom /\ (r.batch = 0 /\ r.max_batch = 0 => batch = inRoom)
  <2>1. Vram!HashesIn(mib, n, r.m) = inRoom
    BY DEF Vram!HashesIn, n
  <2> HIDE DEF inRoom
  <2> QED
    BY <1>0, <1>6, <2>1 DEF Vram!BatchPerLane, n
<1> HIDE DEF batch
<1>8. /\ (batch * a) \div 10240 \in Nat /\ (batch * a) \div 10240 <= mib
      /\ (inRoom + 1) * a > mib * 10240
  <2> HIDE DEF a
  <2>1. mib \in Nat /\ a \in Nat \ {0} /\ batch \in Nat /\ batch <= (mib * 10240) \div a
    BY <1>4, <1>5, <1>7
  <2> QED
    <3>1. (batch * a) \div 10240 \in Nat
      BY <2>1, HashesFit
    <3>2. (batch * a) \div 10240 <= mib
      BY <2>1, HashesFit
    <3>3. ((mib * 10240) \div a + 1) * a > mib * 10240
      BY <2>1, HashesFit
    <3> QED
      BY <3>1, <3>2, <3>3
<1>9. Vram!BatchVram(batch, n, r.m) \in Nat /\ Vram!BatchVram(batch, n, r.m) <= mib
  <2>1. batch * n * r.m * 1001 = batch * a
    BY <1>0, <1>4, <1>7
  <2> QED
    BY <1>8, <2>1 DEF Vram!BatchVram
<1>10. batch > 0 => mib > 0
  <2> SUFFICES ASSUME mib = 0 PROVE inRoom = 0
    BY <1>5, <1>6, <1>7
  <2> HIDE DEF a
  <2> QED
    BY <1>4
<1>11. batch > 0 => /\ Vram!WithinLimits(r, caps, batch)
                    /\ Vram!BatchVram(batch, n, r.m) + caps.overhead <= caps.emergency
  <2> DEFINE used == Vram!BatchVram(batch, n, r.m)
  <2>1. used \in Nat /\ used <= mib
    BY <1>9
  <2> HIDE DEF used
  <2>2. batch > 0 => /\ used + caps.overhead <= caps.target
                     /\ Vram!Minus(r.total, used + caps.overhead) >= caps.headroom
                     /\ used + caps.overhead <= caps.emergency
    BY <1>0, <1>2, <1>5, <1>10, <2>1
  <2> QED
    BY <2>2 DEF Vram!WithinLimits, used, n
<1>12. plan_.batch = batch
  <2>1. batch <= 1 \/ Vram!WithinLimits(r, caps, batch)
    BY <1>7, <1>11
  <2> QED
    BY <1>3, <2>1 DEF Vram!ClampPlanToCaps
<1>13. (batch + 1) * n * r.m * 1001 = (batch + 1) * a
  BY <1>0, <1>4, <1>7
<1> HIDE DEF inRoom, a, plan_
<1> QED
  BY <1>3, <1>5, <1>7, <1>8, <1>11, <1>12, <1>13 DEF plan_, n, spare

\* A plan that sizes a batch fits the target, the headroom and the emergency mark,
\* and without a size in the settings it leaves no room for another hash on each
\* lane, for any card, caps and m= (plan_cuda_batch in vram_batch.cpp).
THEOREM PlansFit == FairSpec => []PlanFits
<1>1. VramInv => PlanFits
  BY PlanIsSound DEF VramInv, PlanFits, Vram!PlanFits
<1>2. Init => VramInv
  BY DEF Init, VramInit, Vram!Init, VramInv
<1>3. VramInv /\ [Next]_vars => VramInv'
  <2> SUFFICES ASSUME VramInv, [Next]_vars, part' = "vram" PROVE VramInv'
    BY DEF VramInv
  <2>0. part = "vram" /\ request \in Vram!Request /\ vplan = Vram!PlanCudaBatch(request)
    BY PartsApart DEF VramInv
  <2>1. ASSUME NEW m \in Hundreds, Vram!Replan(m) PROVE VramInv'
    BY <2>0, <2>1 DEF Vram!Replan, Vram!Request, VramInv
  <2>2. CASE UNCHANGED V
    BY <2>0, <2>2 DEF V, VramInv
  <2> QED
    BY <2>1, <2>2, PartsApart DEF Vram!Next
<1> QED
  BY <1>1, <1>2, <1>3, PTL DEF FairSpec

-----------------------------------------------------------------------------
(* CpuLayout                                                               *)

\* Shares that are given up until they fit, flush last.
Shares(s) == s.bag \in Nat /\ s.flush \in Nat \ {0} /\ s.dash \in Nat

LEMMA ShrunkFits ==
    ASSUME NEW s, Shares(s), NEW room \in Nat \ {0}
    PROVE  LET kept == Cpu!Shrunk(s, room)
           IN Shares(kept) /\ kept.bag + kept.flush + kept.dash <= room
<1> DEFINE bag == s.bag  flush == s.flush  dash == s.dash
           over == Cpu!Upper(0, bag + flush + dash - room)
           rest == Cpu!Upper(0, over - dash)
           kept == Cpu!Shrunk(s, room)
<1>1. bag \in Nat /\ flush \in Nat \ {0} /\ dash \in Nat
  BY DEF Shares
<1>2. /\ kept.bag = Cpu!Upper(0, bag - rest)
      /\ kept.flush = Cpu!Upper(1, flush - Cpu!Upper(0, rest - bag))
      /\ kept.dash = Cpu!Upper(0, dash - over)
  BY DEF Cpu!Shrunk
<1> HIDE DEF kept, bag, flush, dash
<1>3. over \in Nat /\ rest \in Nat
  BY <1>1 DEF Cpu!Upper
<1>4. /\ kept.bag \in Nat /\ kept.flush \in Nat \ {0} /\ kept.dash \in Nat
      /\ kept.bag + kept.flush + kept.dash <= room
  BY <1>1, <1>2, <1>3 DEF Cpu!Upper
<1> QED
  BY <1>4 DEF Shares, kept

\* The first twelve of the cores below one.
LEMMA FirstTwelve ==
    ASSUME NEW n \in Nat \ {0}
    PROVE  Cpu!FirstOf(0..(n - 1), 12) = 0..(Cpu!Lower(n, 12) - 1)
<1>1. \A c \in 0..(n - 1) : Cpu!Cardinality({d \in 0..(n - 1) : d < c}) = c
  <2> TAKE c \in 0..(n - 1)
  <2>1. {d \in 0..(n - 1) : d < c} = 0..(c - 1)
    OBVIOUS
  <2>2. Cardinality(0..(c - 1)) = c
    BY FS_Interval
  <2> QED
    BY <2>1, <2>2 DEF Cpu!Cardinality, Cardinality
<1>2. Cpu!FirstOf(0..(n - 1), 12) = {c \in 0..(n - 1) : c < 12}
  BY <1>1 DEF Cpu!FirstOf
<1>3. {c \in 0..(n - 1) : c < 12} = 0..(Cpu!Lower(n, 12) - 1)
  <2>1. CASE n < 12
    BY <2>1 DEF Cpu!Lower
  <2>2. CASE n >= 12
    BY <2>2 DEF Cpu!Lower
  <2> QED
    BY <2>1, <2>2
<1> QED
  BY <1>2, <1>3

\* Key generator threads: one or two to a core, of twelve cores at most.
LEMMA KeygenThreads ==
    ASSUME NEW n \in 1..12
    PROVE  /\ Cpu!Cardinality(0..(n - 1)) = n
           /\ n <= Cpu!SuggestedKeygenThreads(n) /\ Cpu!SuggestedKeygenThreads(n) <= 2 * n
<1>1. Cardinality(0..(n - 1)) = n
  BY FS_Interval
<1> QED
  BY <1>1 DEF Cpu!SuggestedKeygenThreads, Cpu!Upper, Cpu!Cardinality, Cardinality

\* CoresApart, of a machine.
Apart(m, cores_) ==
    LET roles == {"bag", "flush", "dash"}
        own   == {r \in roles : m.os = "windows" \/ cores_[r] # cores_.keygen}
    IN /\ \A r \in roles \cup {"keygen"} : cores_[r] \cap cores_.cuda = {}
       /\ \A r \in {"flush", "cuda", "keygen"} : cores_[r] # {}
       /\ m.os = "posix" => \A r \in roles : cores_[r] # {}
       /\ \A r, s \in own : r # s => cores_[r] \cap cores_[s] = {}
       /\ Cpu!Cardinality(cores_.keygen) <= cores_.threads
       /\ cores_.threads <= 2 * Cpu!Cardinality(cores_.keygen)

LEMMA MachineTypes ==
    ASSUME NEW m \in Cpu!Machine
    PROVE  /\ m.os \in {"windows", "posix"} /\ m.cores \in Nat \ {0}
           /\ m.desktop \in Int /\ m.bag \in Int /\ m.flush \in Int /\ m.dash \in Int
<1> QED
  BY CpuParameters DEF Cpu!Parameters, Cpu!Machine

LEMMA WindowsApart ==
    ASSUME NEW m \in Cpu!Machine, m.os = "windows", m.cores - Cpu!DesktopCores(m) > 1
    PROVE  Apart(m, Cpu!WindowsLayout(m))
<1> DEFINE cores  == m.cores
           first  == Cpu!DesktopCores(m)
           remain == cores - first
           shares == Cpu!WindowsShares(m, remain)
           s      == Cpu!WindowsCores(m, remain)
           b == s.bag  f == s.flush  h == s.dash
           start  == first + b + f + h
           lay    == Cpu!WindowsLayout(m)
<1>0. /\ cores \in Nat \ {0}
      /\ m.desktop \in Int /\ m.bag \in Int /\ m.flush \in Int /\ m.dash \in Int
  BY MachineTypes
<1>1. first \in Nat /\ remain \in Nat /\ remain > 1
  BY <1>0 DEF Cpu!DesktopCores, Cpu!Upper, Cpu!Lower
<1> HIDE DEF first, cores
<1>2. Shares(shares)
  <2> HIDE DEF remain
  <2>1. shares.bag \in Nat
    BY <1>0, <1>1 DEF Cpu!WindowsShares
  <2>2. shares.dash \in Nat
    BY <1>0, <1>1 DEF Cpu!WindowsShares
  <2>3. shares.flush \in Nat \ {0}
    BY <1>0, <1>1 DEF Cpu!WindowsShares, Cpu!Upper
  <2> HIDE DEF shares
  <2> QED
    BY <2>1, <2>2, <2>3 DEF Shares
<1>3. s = Cpu!Shrunk(shares, remain - 1)
  BY <1>1 DEF Cpu!WindowsCores
<1>4. Shares(s) /\ b + f + h <= remain - 1
  <2> HIDE DEF shares, remain
  <2>1. remain - 1 \in Nat \ {0}
    BY <1>1
  <2> QED
    BY <1>2, <1>3, <2>1, ShrunkFits
<1> HIDE DEF s
<1>5. /\ b \in Nat /\ f \in Nat \ {0} /\ h \in Nat
      /\ start \in Nat \ {0} /\ start < cores
  BY <1>0, <1>1, <1>4 DEF Shares
<1> HIDE DEF b, f, h
<1> DEFINE cuda == start..(cores - 1)
           most == Cpu!Lower(start, 12)
           keygen == 0..(most - 1)
<1>6. Cpu!Take(start, cores, cores) = cuda /\ cuda # {}
  <2>1. Cpu!Take(start, cores, cores) = cuda
    BY <1>0, <1>5 DEF Cpu!Take
  <2>2. start \in cuda
    BY <1>0, <1>5
  <2> QED
    BY <2>1, <2>2
<1>7. Cpu!FirstOf((0..(cores - 1)) \ cuda, 12) = keygen /\ keygen # {} /\ most \in 1..12
  <2>1. (0..(cores - 1)) \ cuda = 0..(start - 1)
    BY <1>0, <1>5
  <2>2. most \in 1..12
    BY <1>5 DEF Cpu!Lower
  <2>3. Cpu!FirstOf(0..(start - 1), 12) = keygen
    <3> HIDE DEF start
    <3> QED
      BY <1>5, FirstTwelve
  <2>4. 0 \in keygen
    BY <2>2
  <2> HIDE DEF cuda, keygen, start, most
  <2> QED
    BY <2>1, <2>2, <2>3, <2>4
<1>8. /\ lay.bag = Cpu!Take(first, b, cores) /\ lay.flush = Cpu!Take(first + b, f, cores)
      /\ lay.dash = Cpu!Take(first + b + f, h, cores)
      /\ lay.cuda = cuda /\ lay.keygen = keygen
      /\ lay.threads = Cpu!SuggestedKeygenThreads(Cpu!Cardinality(keygen))
  <2>1. Cpu!Or(Cpu!Take(start, cores, cores), lay.flush) = cuda
    BY <1>6 DEF Cpu!Or
  <2>2. Cpu!Or(Cpu!FirstOf((0..(cores - 1)) \ cuda, 12), cuda) = keygen
    BY <1>7 DEF Cpu!Or
  <2> HIDE DEF cuda, keygen
  <2> QED
    BY <2>1, <2>2 DEF Cpu!WindowsLayout, first, cores, s, b, f, h
<1> HIDE DEF lay
<1>9. /\ Cpu!Cardinality(keygen) = most /\ most <= lay.threads /\ lay.threads <= 2 * most
  <2> HIDE DEF most
  <2> QED
    BY <1>7, <1>8, KeygenThreads
<1>10. /\ first \in Int /\ cores \in Int /\ most <= start
  BY <1>0, <1>1, <1>5 DEF Cpu!Lower
<1> HIDE DEF most
<1>11. /\ lay.bag = first..(first + b - 1)
       /\ lay.flush = (first + b)..(first + b + f - 1)
       /\ lay.dash = (first + b + f)..(start - 1)
  BY <1>1, <1>5, <1>8, <1>10 DEF Cpu!Take
<1>12. /\ lay.bag \cap cuda = {} /\ lay.flush \cap cuda = {} /\ lay.dash \cap cuda = {}
       /\ keygen \cap cuda = {}
  <2>1. lay.bag \cap cuda = {}
    BY <1>1, <1>5, <1>10, <1>11
  <2>2. lay.flush \cap cuda = {}
    BY <1>1, <1>5, <1>10, <1>11
  <2>3. lay.dash \cap cuda = {}
    BY <1>1, <1>5, <1>10, <1>11
  <2>4. keygen \cap cuda = {}
    BY <1>1, <1>5, <1>7, <1>10
  <2> QED
    BY <2>1, <2>2, <2>3, <2>4
<1>13. /\ lay.bag \cap lay.flush = {} /\ lay.bag \cap lay.dash = {}
       /\ lay.flush \cap lay.dash = {}
  <2>1. lay.bag \cap lay.flush = {}
    BY <1>1, <1>5, <1>10, <1>11
  <2>2. lay.bag \cap lay.dash = {}
    BY <1>1, <1>5, <1>10, <1>11
  <2>3. lay.flush \cap lay.dash = {}
    BY <1>1, <1>5, <1>10, <1>11
  <2> QED
    BY <2>1, <2>2, <2>3
<1>14. lay.flush # {}
  <2>1. first + b \in lay.flush
    BY <1>1, <1>5, <1>11
  <2> QED
    BY <2>1
<1> HIDE DEF cuda, keygen
<1> QED
  BY <1>6, <1>7, <1>8, <1>9, <1>12, <1>13, <1>14 DEF Apart, lay

LEMMA PosixApart ==
    ASSUME NEW m \in Cpu!Machine, m.os = "posix", m.cores > 1
    PROVE  Apart(m, Cpu!PosixLayout(m))
<1> DEFINE cores  == m.cores
           first  == cores - Cpu!CudaPhys(cores)
           shares == Cpu!PosixShares(m)
           s      == Cpu!Shrunk(shares, first)
           b == s.bag  f == s.flush  h == s.dash
           number == Cpu!Lower(6, Cpu!Upper(1, first))
           keygen == 0..(number - 1)
           cuda   == first..(cores - 1)
           bag    == Cpu!Take(0, b, first)
           flush  == Cpu!Take(b, f, first)
           dash   == Cpu!Take(b + f, h, first)
           lay    == Cpu!PosixLayout(m)
<1>0. /\ cores \in Nat \ {0} /\ cores > 1 /\ m.os = "posix"
      /\ m.bag \in Int /\ m.flush \in Int /\ m.dash \in Int
  BY MachineTypes
<1>1. first \in Nat \ {0} /\ first < cores
  BY <1>0 DEF Cpu!CudaPhys, Cpu!Upper, Cpu!Lower
<1>2. Shares(shares)
  BY <1>0 DEF Cpu!PosixShares, Shares
<1> HIDE DEF first, cores, shares
<1>3. Shares(s) /\ b + f + h <= first
  BY <1>1, <1>2, ShrunkFits
<1>4. /\ lay.bag = Cpu!Or(bag, keygen) /\ lay.flush = Cpu!Or(flush, keygen)
      /\ lay.dash = Cpu!Or(dash, keygen) /\ lay.cuda = cuda /\ lay.keygen = keygen
      /\ lay.threads = Cpu!SuggestedKeygenThreads(number)
  BY <1>1 DEF Cpu!PosixLayout, first, cores, shares
<1> HIDE DEF s
<1>5. b \in Nat /\ f \in Nat \ {0} /\ h \in Nat
  BY <1>3 DEF Shares
<1> HIDE DEF b, f, h, lay
<1>6. number \in 1..12 /\ number <= first
  BY <1>1 DEF Cpu!Upper, Cpu!Lower
<1>7. Cpu!Cardinality(keygen) = number /\ number <= lay.threads /\ lay.threads <= 2 * number
  <2> HIDE DEF number
  <2> QED
    BY <1>4, <1>6, KeygenThreads
<1> HIDE DEF number
<1>8. /\ bag \cap flush = {} /\ bag \cap dash = {} /\ flush \cap dash = {}
  BY <1>1, <1>5 DEF Cpu!Take
<1>9. /\ bag \cap cuda = {} /\ flush \cap cuda = {} /\ dash \cap cuda = {}
      /\ keygen \cap cuda = {}
  BY <1>0, <1>1, <1>5, <1>6 DEF Cpu!Take
<1>10. keygen # {} /\ cuda # {} /\ flush # {}
  <2>1. 0 \in keygen
    BY <1>6
  <2>2. first \in cuda
    BY <1>0, <1>1
  <2>3. b \in flush
    BY <1>1, <1>3, <1>5 DEF Cpu!Take, f, b, h
  <2> QED
    BY <2>1, <2>2, <2>3
<1> HIDE DEF keygen, cuda, bag, flush, dash
\* A role that is not on the keygen cores is on its own.
<1>11. /\ \A own \in {bag, flush, dash} :
              /\ Cpu!Or(own, keygen) # {} /\ Cpu!Or(own, keygen) \cap cuda = {}
              /\ Cpu!Or(own, keygen) # keygen => Cpu!Or(own, keygen) = own
  BY <1>9, <1>10 DEF Cpu!Or
<1>12. /\ lay.bag # {} /\ lay.flush # {} /\ lay.dash # {}
       /\ lay.bag \cap cuda = {} /\ lay.flush \cap cuda = {} /\ lay.dash \cap cuda = {}
       /\ lay.bag # keygen => lay.bag = bag
       /\ lay.flush # keygen => lay.flush = flush
       /\ lay.dash # keygen => lay.dash = dash
  BY <1>4, <1>11
<1>13. \A r, q_ \in {"bag", "flush", "dash"} :
           r # q_ /\ lay[r] # keygen /\ lay[q_] # keygen => lay[r] \cap lay[q_] = {}
  BY <1>8, <1>12
<1> QED
  BY <1>0, <1>4, <1>7, <1>9, <1>10, <1>12, <1>13 DEF Apart, lay

\* No thread of another role is laid on a core of the CUDA host, each role that is
\* pinned has its cores and keygen threads have room, on any machine with two cores
\* to spare and with any settings (init_layout in cpu_affinity.cpp).
THEOREM CoresAreApart == FairSpec => []CoresApart
<1> DEFINE Inv == part = "cpu" => machine \in Cpu!Machine /\ layout = Cpu!LayoutOf(machine)
<1>1. Inv => CoresApart
  <2> SUFFICES ASSUME Inv, part = "cpu" PROVE Cpu!CoresApart
    BY DEF CoresApart
  <2>0. machine \in Cpu!Machine /\ layout = Cpu!LayoutOf(machine)
    OBVIOUS
  <2>1. machine.os \in {"windows", "posix"} /\ machine.cores \in Nat
    BY <2>0, MachineTypes
  <2>2. CASE machine.os = "windows"
    <3>1. machine.cores - Cpu!DesktopCores(machine) > 1 => Apart(machine, layout)
      BY <2>0, <2>2, WindowsApart DEF Cpu!LayoutOf
    <3> QED
      BY <2>2, <3>1 DEF Apart, Cpu!CoresApart
  <2>3. CASE machine.os = "posix"
    <3>1. machine.cores > 1 => Apart(machine, layout)
      BY <2>0, <2>3, PosixApart DEF Cpu!LayoutOf
    <3>2. machine.cores - 0 = machine.cores
      BY <2>1
    <3> QED
      BY <2>3, <3>1, <3>2 DEF Apart, Cpu!CoresApart
  <2> QED
    BY <2>1, <2>2, <2>3
<1>2. Init => Inv
  BY DEF Init, CpuInit, Cpu!InitLayout
<1>3. Inv /\ [Next]_vars => Inv'
  <2> SUFFICES ASSUME Inv, [Next]_vars PROVE Inv'
    OBVIOUS
  <2>1. UNCHANGED <<part, machine, layout>>
    BY PartsApart DEF C
  <2> QED
    BY <2>1 DEF Cpu!LayoutOf
<1> QED
  BY <1>1, <1>2, <1>3, PTL DEF FairSpec
=============================================================================
