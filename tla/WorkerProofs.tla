---------------------------- MODULE WorkerProofs ----------------------------
(***************************************************************************)
(* Proofs about two parts of scheduler/worker.ts that run next to each     *)
(* other: the poll and its limit (WorkerPool), and the scan that enqueues  *)
(* what is due (DomainScan).                                               *)
(*                                                                         *)
(* WorkerPool, for any number of overlapping polls: activeJobsCount is     *)
(* exact, no claimed row is dropped, the polls exceed WORKER_CONCURRENCY   *)
(* by a known factor only, and a clean exit abandons no handler.  The      *)
(* bound is not inductive by itself: a poll that starts a full load must   *)
(* know that the slots the others still hold leave room for it.  The       *)
(* invariant counts what is handled together with the slots that every     *)
(* poll has read (Reserved).                                               *)
(*                                                                         *)
(* DomainScan, for any rows, limits and number of overlapping scans: every *)
(* needless job of a closed row was live when it was closed, or in the     *)
(* batch of one of the scans (ScansPaid).                                  *)
(***************************************************************************)
EXTENDS WorkerPool, DomainScan, FiniteSetTheorems, WellFoundedInduction, TLAPS

Place == {"idle", "claiming", "claimed"}
Asked == [pc : Place, slots : 0..Concurrency, got : 0..Concurrency]

-----------------------------------------------------------------------------
(* Counting what the polls hold. *)

(* A unit for each number up to f[p]: |Units(f)| is the sum of f.          *)
Units(f) == {pn \in Poll \X (1..Concurrency) : pn[2] <= f[pn[1]]}
Others(f, p) == {pn \in Units(f) : pn[1] # p}

(* The units are finitely many, and all but those of p are at most         *)
(* Concurrency for each other poll.                                        *)
LEMMA UnitsOfOthers ==
  ASSUME NEW f \in [Poll -> 0..Concurrency], NEW p \in Poll
  PROVE  /\ IsFiniteSet(Units(f)) /\ IsFiniteSet(Others(f, p))
         /\ Cardinality(Others(f, p)) <= (Cardinality(Poll) - 1) * Concurrency
         /\ Cardinality(Units(f)) = Cardinality(Others(f, p)) + f[p]
<1>1. IsFiniteSet(Poll) /\ Concurrency \in Nat /\ f[p] \in 0..Concurrency
  BY PoolAssumption
<1>2. IsFiniteSet(1..Concurrency) /\ Cardinality(1..Concurrency) = Concurrency
  BY <1>1, FS_Interval, SMT
<1>3. IsFiniteSet(1..f[p]) /\ Cardinality(1..f[p]) = f[p]
  BY <1>1, FS_Interval, SMT
<1>4. /\ IsFiniteSet(Poll \ {p}) /\ Cardinality(Poll \ {p}) = Cardinality(Poll) - 1
      /\ IsFiniteSet({p}) /\ Cardinality({p}) = 1
  BY <1>1, FS_RemoveElement, FS_Singleton
<1> DEFINE Room == (Poll \ {p}) \X (1..Concurrency)
           Own == {p} \X (1..f[p])
<1>5. IsFiniteSet(Room) /\ Cardinality(Room) = (Cardinality(Poll) - 1) * Concurrency
  <2>1. /\ IsFiniteSet(Room)
        /\ Cardinality(Room) = Cardinality(Poll \ {p}) * Cardinality(1..Concurrency)
    BY <1>2, <1>4, FS_Product, Zenon
  <2> QED BY <1>2, <1>4, <2>1
<1>6. IsFiniteSet(Own) /\ Cardinality(Own) = f[p]
  <2>1. IsFiniteSet(Own) /\ Cardinality(Own) = Cardinality({p}) * Cardinality(1..f[p])
    BY <1>3, <1>4, FS_Product, Zenon
  <2>2. Cardinality(Own) = 1 * f[p]
    BY <1>3, <1>4, <2>1
  <2> QED BY <1>1, <2>1, <2>2
<1>7. Others(f, p) \subseteq Room
  BY DEF Others, Units
<1>8. /\ IsFiniteSet(Others(f, p))
      /\ Cardinality(Others(f, p)) <= (Cardinality(Poll) - 1) * Concurrency
  BY <1>5, <1>7, FS_Subset
<1>9. Units(f) = Others(f, p) \cup Own /\ Others(f, p) \cap Own = {}
  BY <1>1 DEF Others, Units
<1>10. /\ IsFiniteSet(Units(f))
       /\ Cardinality(Units(f)) = Cardinality(Others(f, p)) + Cardinality(Own) - Cardinality({})
  BY <1>6, <1>8, <1>9, FS_Union
<1>11. Cardinality({}) = 0 /\ Cardinality(Others(f, p)) \in Nat
  BY <1>8, FS_EmptySet, FS_CardinalityType
<1> QED BY <1>1, <1>6, <1>8, <1>10, <1>11

(* What the polls have claimed, and the slots they have read.              *)
Got == [p \in Poll |-> poll[p].got]
Slots == [p \in Poll |-> poll[p].slots]
Taken == Cardinality(Units(Got))
Reserved == Cardinality(Units(Slots))

LEMMA TakenInHand == InHand = handling + Taken
<1>1. Claimed = Units(Got)
  BY DEF Claimed, Units, Got
<1> QED BY <1>1 DEF InHand, Taken

(* Types; a poll that is idle holds nothing, one that claims has no rows.  *)
Fits(r) ==
  /\ r.got <= r.slots
  /\ r.pc = "idle" => r = Idle
  /\ r.pc = "claiming" => r.got = 0
PollsOK == poll \in [Poll -> Asked] /\ \A p \in Poll : Fits(poll[p])

LEMMA CountsAreNumbers == PollsOK => Taken \in Nat /\ Reserved \in Nat
<1> SUFFICES ASSUME PollsOK PROVE Taken \in Nat /\ Reserved \in Nat
  OBVIOUS
<1>1. Got \in [Poll -> 0..Concurrency] /\ Slots \in [Poll -> 0..Concurrency]
  BY DEF PollsOK, Asked, Got, Slots
<1>2. IsFiniteSet(Units(Got)) /\ IsFiniteSet(Units(Slots))
  <2>1. CASE Poll = {}
    <3>1. Units(Got) = {} /\ Units(Slots) = {}
      BY <2>1 DEF Units
    <3> QED BY <3>1, FS_EmptySet
  <2>2. ASSUME NEW p \in Poll PROVE IsFiniteSet(Units(Got)) /\ IsFiniteSet(Units(Slots))
    BY <1>1, UnitsOfOthers
  <2> QED BY <2>1, <2>2
<1> QED BY <1>2, FS_CardinalityType DEF Taken, Reserved

(* A step of one poll moves the counts by what that poll holds.            *)
LEMMA OnePollMoves ==
  ASSUME PollsOK, NEW p \in Poll, NEW r \in Asked, Fits(r), poll' = [poll EXCEPT ![p] = r]
  PROVE  /\ PollsOK'
         /\ Taken' = Taken - poll[p].got + r.got
         /\ Reserved' = Reserved - poll[p].slots + r.slots
         /\ Reserved - poll[p].slots <= (Cardinality(Poll) - 1) * Concurrency
<1>1. PollsOK'
  <2> HIDE DEF Asked
  <2> QED BY DEF PollsOK
<1>2. /\ Got \in [Poll -> 0..Concurrency] /\ Slots \in [Poll -> 0..Concurrency]
      /\ Got' \in [Poll -> 0..Concurrency] /\ Slots' \in [Poll -> 0..Concurrency]
      /\ Got[p] = poll[p].got /\ Got'[p] = r.got
      /\ Slots[p] = poll[p].slots /\ Slots'[p] = r.slots
  BY <1>1 DEF PollsOK, Asked, Got, Slots
<1>3. \A q \in Poll \ {p} : Got'[q] = Got[q] /\ Slots'[q] = Slots[q]
  BY DEF PollsOK, Got, Slots
<1>4. Others(Got', p) = Others(Got, p) /\ Others(Slots', p) = Others(Slots, p)
  BY <1>3 DEF Others, Units
<1>5. /\ Taken = Cardinality(Others(Got, p)) + poll[p].got
      /\ Taken' = Cardinality(Others(Got, p)) + r.got
      /\ Reserved = Cardinality(Others(Slots, p)) + poll[p].slots
      /\ Reserved' = Cardinality(Others(Slots, p)) + r.slots
  <2>1. Taken' = Cardinality(Units(Got')) /\ Reserved' = Cardinality(Units(Slots'))
    BY DEF Taken, Reserved, Units
  <2> QED BY <1>2, <1>4, <2>1, UnitsOfOthers DEF Taken, Reserved
<1>6. /\ IsFiniteSet(Others(Got, p)) /\ IsFiniteSet(Others(Slots, p))
      /\ Cardinality(Others(Slots, p)) <= (Cardinality(Poll) - 1) * Concurrency
  BY <1>2, UnitsOfOthers
<1>7. /\ Cardinality(Others(Got, p)) \in Nat /\ Cardinality(Others(Slots, p)) \in Nat
      /\ poll[p].got \in Nat /\ poll[p].slots \in Nat /\ r.got \in Nat /\ r.slots \in Nat
  BY <1>6, FS_CardinalityType DEF PollsOK, Asked
<1> QED BY <1>1, <1>5, <1>6, <1>7

(* A poll that ends gives back what it held.                               *)
LEMMA PollEnds ==
  ASSUME PollsOK, NEW p \in Poll, poll' = [poll EXCEPT ![p] = Idle]
  PROVE  /\ PollsOK'
         /\ Taken' = Taken - poll[p].got /\ Reserved' = Reserved - poll[p].slots
<1>1. Idle \in Asked /\ Idle.got = 0 /\ Idle.slots = 0 /\ Idle.pc = "idle"
  BY PoolAssumption DEF Idle, Asked, Place
<1>2. /\ PollsOK' /\ Taken' = Taken - poll[p].got + 0
      /\ Reserved' = Reserved - poll[p].slots + 0
  <2> DEFINE r == Idle
  <2>1. r \in Asked /\ Fits(r) /\ r.got = 0 /\ r.slots = 0
    BY <1>1 DEF Fits
  <2>2. poll' = [poll EXCEPT ![p] = r]
    OBVIOUS
  <2> HIDE DEF r
  <2>3. /\ PollsOK' /\ Taken' = Taken - poll[p].got + r.got
        /\ Reserved' = Reserved - poll[p].slots + r.slots
    BY <2>1, <2>2, OnePollMoves
  <2> QED BY <2>1, <2>3
<1>3. /\ Taken \in Nat /\ Reserved \in Nat /\ poll[p].got \in Nat /\ poll[p].slots \in Nat
  BY CountsAreNumbers DEF PollsOK, Asked
<1> QED BY <1>2, <1>3

-----------------------------------------------------------------------------
(* The inductive invariant. *)

Bound == Cardinality(Poll) * Concurrency

PoolInv ==
  /\ TypeOK /\ PollsOK /\ CountExact
  /\ due + handling + Taken + settled + orphaned = MaxJobs
  /\ handling + Reserved <= Bound

(* The invariant gives the numbers that the steps compute with.            *)
LEMMA Facts ==
  ASSUME PoolInv
  PROVE  /\ Concurrency \in Nat \ {0} /\ MaxJobs \in Nat /\ Cardinality(Poll) \in Nat /\ Bound \in Nat
         /\ due \in 0..MaxJobs /\ handling \in Nat /\ settled \in Nat /\ orphaned \in Nat
         /\ activeJobsCount = handling /\ Taken \in Nat /\ Reserved \in Nat
         /\ (Cardinality(Poll) - 1) * Concurrency + Concurrency = Bound
         /\ Idle \in Asked /\ Idle.got = 0 /\ Idle.slots = 0 /\ Idle.pc = "idle"
         /\ \A p \in Poll : poll[p] \in Asked /\ poll[p].got \in Nat /\ poll[p].slots \in Nat
<1>1. Concurrency \in Nat \ {0} /\ MaxJobs \in Nat /\ Cardinality(Poll) \in Nat
  BY PoolAssumption, FS_CardinalityType
<1>2. Bound \in Nat /\ (Cardinality(Poll) - 1) * Concurrency + Concurrency = Bound
  BY <1>1 DEF Bound
<1>3. Taken \in Nat /\ Reserved \in Nat
  BY CountsAreNumbers DEF PoolInv
<1>4. Idle \in Asked /\ Idle.got = 0 /\ Idle.slots = 0 /\ Idle.pc = "idle"
  BY <1>1 DEF Idle, Asked, Place
<1>5. \A p \in Poll : poll[p] \in Asked /\ poll[p].got \in Nat /\ poll[p].slots \in Nat
  BY DEF PoolInv, PollsOK, Asked
<1> QED BY <1>1, <1>2, <1>3, <1>4, <1>5 DEF PoolInv, TypeOK, CountExact

LEMMA InitEstablishes == Init => PoolInv
<1> SUFFICES ASSUME Init PROVE PoolInv
  OBVIOUS
<1>1. Concurrency \in Nat \ {0} /\ MaxJobs \in Nat /\ Cardinality(Poll) \in Nat
  BY PoolAssumption, FS_CardinalityType
<1>2. Idle \in Asked /\ Idle.got = 0 /\ Idle.slots = 0 /\ Idle.pc = "idle"
  BY <1>1 DEF Idle, Asked, Place
<1>3. PollsOK
  BY <1>2 DEF Init, PollsOK, Fits
<1>4. Units(Got) = {} /\ Units(Slots) = {}
  BY <1>2 DEF Init, Units, Got, Slots
<1>5. Taken = 0 /\ Reserved = 0
  BY <1>4, FS_EmptySet DEF Taken, Reserved
<1>6. TypeOK
  <2>1. isShuttingDown \in BOOLEAN /\ shutdowns \subseteq Signal /\ exit \in {"no", "clean", "forced"}
    BY DEF Init
  <2> QED BY <1>1, <1>3, <2>1 DEF Init, TypeOK, PollsOK, Asked, Place
<1>7. 0 <= Bound
  BY <1>1 DEF Bound
<1> QED BY <1>1, <1>3, <1>5, <1>6, <1>7 DEF Init, PoolInv, CountExact

(* A poll reads its slots, claims, and is answered or fails.               *)
LEMMA PollKeeps ==
  ASSUME PoolInv, NEW p \in Poll,
         \/ StartPoll(p) \/ ClaimFails(p) \/ StartJobs(p)
         \/ \E n \in 0..Concurrency : Claim(p, n)
  PROVE  PoolInv'
<1> USE Facts
<1>0. PollsOK /\ TypeOK
  BY DEF PoolInv
<1>1. CASE StartPoll(p)
  <2> DEFINE r == [pc |-> "claiming", slots |-> FreeSlots, got |-> 0]
  <2>1. FreeSlots = Concurrency - handling /\ FreeSlots \in 0..Concurrency
    BY <1>1 DEF StartPoll, HasSlots, FreeSlots
  <2>2. r \in Asked /\ Fits(r) /\ r.got = 0 /\ r.slots = FreeSlots
    BY <2>1 DEF Asked, Place, Fits
  <2>3. poll' = [poll EXCEPT ![p] = r] /\ poll[p] = Idle
    BY <1>1 DEF StartPoll
  <2> HIDE DEF r
  <2>4. /\ PollsOK' /\ Taken' = Taken /\ Reserved' = Reserved + FreeSlots
        /\ Reserved <= (Cardinality(Poll) - 1) * Concurrency
    <3>1. /\ PollsOK' /\ Taken' = Taken - poll[p].got + r.got
          /\ Reserved' = Reserved - poll[p].slots + r.slots
          /\ Reserved - poll[p].slots <= (Cardinality(Poll) - 1) * Concurrency
      BY <1>0, <2>1, <2>2, <2>3, OnePollMoves
    <3> QED BY <2>1, <2>2, <2>3, <3>1
  <2>5. handling' + Reserved' <= Bound
    BY <1>1, <2>1, <2>4 DEF StartPoll
  <2> QED BY <1>1, <2>4, <2>5 DEF StartPoll, PoolInv, TypeOK, CountExact, PollsOK, Asked, Place, rest
<1>2. CASE ClaimFails(p)
  <2>1. PollsOK' /\ Taken' = Taken - poll[p].got /\ Reserved' = Reserved - poll[p].slots
    BY <1>0, <1>2, PollEnds DEF ClaimFails
  <2> QED BY <1>2, <2>1 DEF ClaimFails, PoolInv, TypeOK, CountExact, PollsOK, Asked, Place, rest
<1>3. CASE StartJobs(p)
  <2>1. /\ PollsOK' /\ Taken' = Taken - poll[p].got /\ Reserved' = Reserved - poll[p].slots
        /\ poll[p].got <= poll[p].slots
    BY <1>0, <1>3, PollEnds DEF StartJobs, PollsOK, Fits
  <2> QED BY <1>3, <2>1 DEF StartJobs, Counted, Handled, PoolInv, TypeOK, CountExact, PollsOK, Asked, Place, rest
<1>4. ASSUME NEW n \in 0..Concurrency, Claim(p, n) PROVE PoolInv'
  <2>0. /\ n <= due /\ due' = due - n
        /\ UNCHANGED <<activeJobsCount, handling, settled, orphaned, rest>>
    BY <1>4 DEF Claim
  <2>1. CASE n = 0
    <3>1. /\ PollsOK' /\ Taken' = Taken - poll[p].got /\ Reserved' = Reserved - poll[p].slots
      BY <1>0, <1>4, <2>1, PollEnds DEF Claim
    <3>2. poll[p].got = 0
      BY <1>0, <1>4 DEF Claim, PollsOK, Fits
    <3> QED BY <2>0, <2>1, <3>1, <3>2 DEF PoolInv, TypeOK, CountExact, PollsOK, Asked, Place, rest
  <2>2. CASE n # 0
    <3> DEFINE r == [poll[p] EXCEPT !.pc = "claimed", !.got = n]
    <3>1. r \in Asked /\ Fits(r) /\ r.got = n /\ r.slots = poll[p].slots
      BY <1>4 DEF Asked, Place, Fits, Claim
    <3>2. poll' = [poll EXCEPT ![p] = r]
      BY <1>4, <2>2 DEF Claim
    <3> HIDE DEF r
    <3>3. PollsOK' /\ Taken' = Taken - poll[p].got + n /\ Reserved' = Reserved
      <4>1. /\ PollsOK' /\ Taken' = Taken - poll[p].got + r.got
            /\ Reserved' = Reserved - poll[p].slots + r.slots
        BY <1>0, <3>1, <3>2, OnePollMoves
      <4> QED BY <3>1, <4>1
    <3>4. poll[p].got = 0
      BY <1>0, <1>4 DEF Claim, PollsOK, Fits
    <3> QED BY <2>0, <3>3, <3>4 DEF PoolInv, TypeOK, CountExact, PollsOK, Asked, Place, rest
  <2> QED BY <2>1, <2>2
<1> QED BY <1>1, <1>2, <1>3, <1>4

LEMMA PoolKept == PoolInv /\ [Next]_vars => PoolInv'
<1> SUFFICES ASSUME PoolInv, [Next]_vars PROVE PoolInv'
  OBVIOUS
<1> USE Facts
<1>0. poll' = poll => Taken' = Taken /\ Reserved' = Reserved
  BY DEF Taken, Reserved, Units, Got, Slots
<1>1. CASE EndJob
  BY <1>0, <1>1 DEF EndJob, PoolInv, TypeOK, CountExact, PollsOK, rest
<1>2. ASSUME NEW s \in Signal, Shutdown(s) PROVE PoolInv'
  BY <1>0, <1>2 DEF Shutdown, PoolInv, TypeOK, CountExact, PollsOK
<1>3. ASSUME NEW how \in {"clean", "forced"}, Exit(how) PROVE PoolInv'
  <2>1. poll' = [p \in Poll |-> Idle]
    BY <1>3 DEF Exit
  <2>2. PollsOK'
    BY <2>1 DEF PollsOK, Fits
  <2>3. Units(Got)' = {} /\ Units(Slots)' = {}
    BY <2>1 DEF Units, Got, Slots
  <2>4. Taken' = 0 /\ Reserved' = 0
    BY <2>3, FS_EmptySet DEF Taken, Reserved
  <2>5. orphaned' = orphaned + handling + Taken
    BY <1>3, TakenInHand DEF Exit
  <2> QED BY <1>3, <2>2, <2>4, <2>5 DEF Exit, PoolInv, TypeOK, CountExact, PollsOK, Asked, Place
<1>4. CASE UNCHANGED vars
  BY <1>0, <1>4 DEF vars, rest, PoolInv, TypeOK, CountExact, PollsOK
<1> QED BY <1>1, <1>2, <1>3, <1>4, PollKeeps DEF Next, ExitDrained, ExitForced

(* The slot count and the rows agree with what is being handled, for any   *)
(* number of overlapping polls: no poll's answer is counted twice or       *)
(* missed, Math.max(0, ...) hides nothing, no claimed row is dropped       *)
(* between the claim and the handlers, and P overlapping polls of          *)
(* pollAndProcessJobs handle at most P times WORKER_CONCURRENCY jobs.      *)
THEOREM PoolSoundHolds == Spec => []PoolSound
<1>1. PoolInv => PoolSound
  <2> SUFFICES ASSUME PoolInv PROVE PoolSound
    OBVIOUS
  <2>1. JobsConserved
    BY Facts, TakenInHand DEF PoolInv, JobsConserved
  <2>2. Overload
    BY Facts DEF PoolInv, Overload, Bound
  <2> QED BY <2>1, <2>2 DEF PoolInv, PoolSound
<1> QED BY <1>1, InitEstablishes, PoolKept, PTL DEF Spec

(* gracefulShutdown never exits cleanly while a handler runs, and leaves   *)
(* no row behind but those of a claim in flight.                           *)
THEOREM CleanExitDrainsHolds == Spec => CleanExitDrains
<1>1. PoolSound /\ [Next]_vars =>
        [exit' = "clean" /\ exit = "no" =>
           /\ handling = 0
           /\ orphaned' > orphaned => \E p \in Poll : poll[p].got > 0]_vars
  <2> SUFFICES ASSUME PoolSound, Next, exit' = "clean", exit = "no"
               PROVE  /\ handling = 0
                      /\ orphaned' > orphaned => \E p \in Poll : poll[p].got > 0
    BY DEF vars
  <2>1. exit' = exit \/ ExitDrained \/ ExitForced
    BY DEF Next, StartPoll, ClaimFails, StartJobs, Claim, EndJob, Shutdown, rest
  <2>2. ExitDrained
    BY <2>1 DEF ExitForced, Exit
  <2>3. handling = 0
    BY <2>2 DEF ExitDrained, Drained, PoolSound, CountExact
  <2>4. ASSUME \A p \in Poll : ~(poll[p].got > 0) PROVE orphaned' = orphaned
    <3>1. \A p \in Poll : poll[p].got = 0
      BY <2>4 DEF PoolSound, TypeOK
    <3>2. Claimed = {}
      BY <3>1 DEF Claimed
    <3> QED BY <2>2, <2>3, <3>2, FS_EmptySet DEF ExitDrained, Exit, InHand, PoolSound, TypeOK
  <2>5. orphaned \in Nat
    BY DEF PoolSound, TypeOK
  <2> QED BY <2>3, <2>4, <2>5
<1> QED BY <1>1, PoolSoundHolds, PTL DEF Spec, CleanExitDrains

-----------------------------------------------------------------------------
(* DomainScan: what a batch holds.                                         *)

(* Parts of finite sets, and least numbers.                                *)
LEMMA Fewer ==
  ASSUME NEW S, IsFiniteSet(S), NEW T, T \subseteq S
  PROVE  /\ IsFiniteSet(T) /\ Cardinality(T) <= Cardinality(S)
         /\ Cardinality(T) \in Nat /\ Cardinality(S) \in Nat
BY FS_Subset, FS_CardinalityType

LEMMA Least ==
  ASSUME NEW T, T \subseteq Nat, T # {}
  PROVE  \E x \in T : \A y \in T : x <= y
<1>1. PICK x \in T : \A y \in T : ~ (<<y, x>> \in OpToRel(<, Nat))
  BY NatLessThanWellFounded, WFMin, Zenon
<1>2. \A y \in T : ~ (y < x)
  BY <1>1 DEF OpToRel
<1> QED BY <1>2

Earlier(i, S) == {j \in S : j < i}

(* A query with a LIMIT returns at most so many rows: all but the last one *)
(* are earlier than the last one.                                          *)
LEMMA FirstBounded ==
  ASSUME NEW k, NEW S, S \subseteq Nat, IsFiniteSet(S), Limit[k] \in Nat \ {0}
  PROVE  /\ First(k, S) \subseteq S
         /\ Cardinality(First(k, S)) <= Limit[k]
<1> DEFINE L == First(k, S)
           room(i) == Limit[k] - Cardinality(Earlier(i, S))
<1>1. L \subseteq S /\ \A i \in L : Cardinality(Earlier(i, S)) < Limit[k]
  BY DEF First, Earlier
<1>5. \A i \in S : i \in Nat
  OBVIOUS
<1>2. \A i \in S : IsFiniteSet(Earlier(i, S)) /\ Cardinality(Earlier(i, S)) \in Nat
  BY Fewer DEF Earlier
<1>3. CASE L = {}
  BY <1>1, <1>3, FS_EmptySet
<1>4. CASE L # {}
  <2>1. {room(i) : i \in L} \subseteq Nat /\ {room(i) : i \in L} # {}
    BY <1>1, <1>2, <1>4
  <2>2. PICK n \in {room(i) : i \in L} : \A m \in {room(i) : i \in L} : n <= m
    BY <2>1, Least
  <2>3. PICK x \in L : \A y \in L : room(x) <= room(y)
    BY <2>2
  <2> DEFINE upTo == Earlier(x, S) \cup {x}
  <2>9. x \in S /\ x \in Nat
    BY <1>1, <1>5
  <2>4. x \notin Earlier(x, S)
    BY <2>9 DEF Earlier
  <2>5. IsFiniteSet(upTo) /\ Cardinality(upTo) = Cardinality(Earlier(x, S)) + 1
    BY <1>1, <1>2, <2>4, FS_AddElement
  <2>6. \A y \in L : y <= x
    <3> SUFFICES ASSUME NEW y \in L, x < y PROVE FALSE
      BY <1>1, <1>5, <2>9
    <3>0. y \in S /\ y \in Nat
      BY <1>1, <1>5
    <3>1. upTo \subseteq Earlier(y, S)
      <4> SUFFICES ASSUME NEW j \in S, j < x \/ j = x PROVE j < y
        BY <2>9 DEF Earlier
      <4> QED BY <1>5, <2>9, <3>0
    <3>2. Cardinality(upTo) <= Cardinality(Earlier(y, S))
      BY <1>1, <1>2, <3>1, Fewer
    <3>3. room(x) <= room(y)
      BY <2>3
    <3> QED BY <1>2, <2>9, <3>0, <2>5, <3>2, <3>3
  <2>7. L \subseteq upTo
    BY <1>1, <1>5, <2>6, <2>9 DEF Earlier
  <2>8. Cardinality(L) <= Cardinality(upTo) /\ Cardinality(L) \in Nat
    BY <2>5, <2>7, Fewer
  <2>10. Cardinality(Earlier(x, S)) < Limit[k]
    BY <1>1
  <2>11. Cardinality(Earlier(x, S)) \in Nat
    BY <1>2, <2>9
  <2> HIDE DEF L
  <2>12. Cardinality(L) <= Limit[k]
    BY <2>5, <2>8, <2>10, <2>11
  <2> USE DEF L
  <2> QED BY <1>1, <2>12
<1> QED BY <1>1, <1>3, <1>4

(* A row that is read is due, and a batch holds no more than its LIMIT.    *)
LEMMA BatchBounded ==
  ASSUME NEW k \in Kind, NEW S \in Batches(k)
  PROVE  /\ S \subseteq Due(k) /\ S \subseteq Rows[k] /\ S \subseteq Item
         /\ Cardinality(S) <= Limit[k]
<1> DEFINE D == Due(k)
<1>1. D \subseteq Rows[k] /\ Rows[k] \subseteq Item
  BY DEF Due, Item
<1>2. D \subseteq Nat /\ IsFiniteSet(D) /\ Limit[k] \in Nat \ {0}
  <2>1. IsFiniteSet(Item) /\ Item \subseteq Nat
    BY DomainScanAssumption
  <2>2. Limit[k] \in Nat \ {0}
    BY DomainScanAssumption
  <2> QED BY <1>1, <2>1, <2>2, FS_Subset
<1>3. First(k, D) \subseteq D /\ Cardinality(First(k, D)) <= Limit[k]
  BY <1>2, FirstBounded
<1>4. S \subseteq D /\ Cardinality(S) = Cardinality(First(k, D))
  BY <1>3 DEF Batches
<1> QED BY <1>1, <1>3, <1>4

LEMMA CurrentInBatch ==
  ASSUME NEW s, scan[s].batch \subseteq Nat, scan[s].batch # {}
  PROVE  Current(s) \in scan[s].batch
BY Least DEF Current

-----------------------------------------------------------------------------
(* DomainScan: needless jobs.                                              *)

(* The scans that will still enqueue the watched row.                      *)
Carrying == {s \in Scanner : Watched \in scan[s].batch}
Queued == IF Watched \in live THEN 1 ELSE 0

(* Once the row is closed no query returns it: every needless job that ran *)
(* was live then, or in the batch of some scan, and those that will run    *)
(* still are.                                                              *)
ScansPaid ==
  /\ row[Watched] # "closed" => again = 0
  /\ row[Watched] = "closed" => again + Queued + Cardinality(Carrying) <= Cardinality(Scanner) + 1

(* A scan keeps to its batch, and has a row of it in hand when it has      *)
(* looked for a live job.                                                  *)
ScanTyped ==
  /\ scan \in [Scanner -> [kind : 0..4, batch : SUBSET Item, checked : BOOLEAN]]
  /\ \A s \in Scanner :
       scan[s].kind # 0 => /\ scan[s].batch \subseteq Rows[scan[s].kind]
                           /\ Cardinality(scan[s].batch) <= Limit[scan[s].kind]
  /\ \A s \in Scanner : scan[s].checked => scan[s].kind # 0 /\ scan[s].batch # {}

RowsTyped ==
  /\ row \in [Item -> {"waiting", "due", "stuck", "closed"}]
  /\ live \subseteq Item /\ again \in Nat /\ faults \in 0..MaxFaults

ScanInv == RowsTyped /\ ScanTyped /\ ScansPaid

LEMMA CarryingFinite ==
  /\ IsFiniteSet(Scanner) /\ Cardinality(Scanner) \in Nat
  /\ IsFiniteSet(Carrying) /\ Cardinality(Carrying) \in Nat
  /\ Cardinality(Carrying) <= Cardinality(Scanner)
<1>1. IsFiniteSet(Scanner) /\ Carrying \subseteq Scanner
  BY DomainScanAssumption DEF Carrying
<1> QED BY <1>1, Fewer

LEMMA ScanInvInit == ASSUME ScanInit PROVE ScanInv
<1>1. RowsTyped
  BY DomainScanAssumption DEF ScanInit, RowsTyped
<1>2. scan = [s \in Scanner |-> [kind |-> 0, batch |-> {}, checked |-> FALSE]]
  BY DEF ScanInit, NoScan
<1>3. ScanTyped
  BY <1>2 DEF ScanTyped
<1>4. again = 0 /\ row[Watched] # "closed"
  BY DomainScanAssumption DEF ScanInit
<1> QED BY <1>1, <1>3, <1>4 DEF ScanInv, ScansPaid

(* What a step of one scan does to the batches.                            *)
LEMMA BatchRead ==
  ASSUME ScanInv, NEW s \in Scanner, NEW k \in Kind,
         ReadBatch(s, k)
  PROVE  ScanTyped' /\ (row[Watched] = "closed" => Carrying' \subseteq Carrying)
<1>1. PICK S \in Batches(k) :
        scan' = [scan EXCEPT ![s] = [kind |-> k, batch |-> S, checked |-> FALSE]]
  BY DEF ReadBatch
<1>2. S \subseteq Due(k) /\ S \subseteq Rows[k] /\ S \subseteq Item
      /\ Cardinality(S) <= Limit[k]
  BY BatchBounded
<1>3. k \in 0..4 /\ k # 0
  BY DEF Kind
<1>4. ScanTyped'
  BY <1>1, <1>2, <1>3 DEF ScanInv, ScanTyped
<1>5. row[Watched] = "closed" => Watched \notin S
  BY <1>2 DEF Due, Matches
<1>6. row[Watched] = "closed" => Carrying' \subseteq Carrying
  BY <1>1, <1>5 DEF Carrying, ScanInv, ScanTyped
<1> QED BY <1>4, <1>6

LEMMA RowDone ==
  ASSUME ScanInv, NEW s \in Scanner, NextRow(s)
  PROVE  /\ ScanTyped' /\ Carrying' \subseteq Carrying
         /\ scan[s].batch # {} /\ Current(s) = Watched =>
              s \in Carrying /\ Carrying' \subseteq Carrying \ {s}
<1> DEFINE B == scan[s].batch \ {Current(s)}
<1>1. scan' = [scan EXCEPT ![s].batch = B, ![s].checked = FALSE]
  BY DEF NextRow
<1>2. scan[s] \in [kind : 0..4, batch : SUBSET Item, checked : BOOLEAN]
  BY DEF ScanInv, ScanTyped
<1>3. /\ scan'[s] = [kind |-> scan[s].kind, batch |-> B, checked |-> FALSE]
      /\ \A r \in Scanner \ {s} : scan'[r] = scan[r]
      /\ scan' \in [Scanner -> [kind : 0..4, batch : SUBSET Item, checked : BOOLEAN]]
  BY <1>1, <1>2 DEF ScanInv, ScanTyped
<1>4. scan[s].kind # 0 => Cardinality(B) <= Limit[scan[s].kind]
  <2>1. IsFiniteSet(Item) /\ scan[s].batch \subseteq Item
    BY <1>2, DomainScanAssumption
  <2>2. IsFiniteSet(scan[s].batch)
    BY <2>1, FS_Subset
  <2>3. /\ Cardinality(B) <= Cardinality(scan[s].batch)
        /\ Cardinality(B) \in Nat /\ Cardinality(scan[s].batch) \in Nat
    BY <2>2, Fewer
  <2>4. scan[s].kind # 0 => Limit[scan[s].kind] \in Nat
    BY <1>2, DomainScanAssumption DEF Kind
  <2>5. scan[s].kind # 0 => Cardinality(scan[s].batch) <= Limit[scan[s].kind]
    BY DEF ScanInv, ScanTyped
  <2> QED BY <2>3, <2>4, <2>5
<1>5. ScanTyped'
  <2>1. /\ scan[s].kind # 0 => scan[s].batch \subseteq Rows[scan[s].kind]
        /\ scan'[s].kind = scan[s].kind /\ scan'[s].batch = B /\ scan'[s].checked = FALSE
    BY <1>2, <1>3 DEF ScanInv, ScanTyped
  <2>2. scan'[s].kind # 0 => /\ scan'[s].batch \subseteq Rows[scan'[s].kind]
                             /\ Cardinality(scan'[s].batch) <= Limit[scan'[s].kind]
    BY <1>4, <2>1
  <2>3. ScanTyped
    BY DEF ScanInv
  <2> HIDE DEF B
  <2>4. \A r \in Scanner : scan'[r].kind # 0 =>
          /\ scan'[r].batch \subseteq Rows[scan'[r].kind]
          /\ Cardinality(scan'[r].batch) <= Limit[scan'[r].kind]
    BY <1>3, <2>2, <2>3 DEF ScanTyped
  <2>5. \A r \in Scanner : scan'[r].checked => scan'[r].kind # 0 /\ scan'[r].batch # {}
    BY <1>3, <2>1, <2>3 DEF ScanTyped
  <2> QED BY <1>3, <2>4, <2>5 DEF ScanTyped
<1>6. Carrying' \subseteq Carrying
  BY <1>3 DEF Carrying
<1>7. scan[s].batch # {} => Current(s) \in scan[s].batch
  BY <1>2, CurrentInBatch, DomainScanAssumption
<1>8. ASSUME scan[s].batch # {}, Current(s) = Watched
      PROVE  s \in Carrying /\ s \notin Carrying'
  BY <1>3, <1>7, <1>8 DEF Carrying
<1> QED BY <1>5, <1>6, <1>8

LEMMA ScanEnded ==
  ASSUME ScanInv, NEW s \in Scanner, EndScan(s)
  PROVE  ScanTyped' /\ Carrying' \subseteq Carrying \ {s}
<1>1. scan' = [scan EXCEPT ![s] = [kind |-> 0, batch |-> {}, checked |-> FALSE]]
  BY DEF EndScan, NoScan
<1> QED BY <1>1 DEF ScanInv, ScanTyped, Carrying

LEMMA RowChecked ==
  ASSUME ScanInv, NEW s \in Scanner, Scanning(s), scan[s].batch # {},
         scan' = [scan EXCEPT ![s].checked = TRUE]
  PROVE  ScanTyped' /\ Carrying' = Carrying
<1>1. /\ scan'[s] = [scan[s] EXCEPT !.checked = TRUE]
      /\ \A r \in Scanner \ {s} : scan'[r] = scan[r]
      /\ scan' \in [Scanner -> [kind : 0..4, batch : SUBSET Item, checked : BOOLEAN]]
  BY DEF ScanInv, ScanTyped
<1>2. /\ scan'[s].kind = scan[s].kind /\ scan'[s].batch = scan[s].batch
  BY <1>1 DEF ScanInv, ScanTyped
<1> QED BY <1>1, <1>2 DEF ScanInv, ScanTyped, Carrying, Scanning

(* Fewer scans carry the row, and no job of it was added or ran.           *)
LEMMA StillPaid ==
  ASSUME ScansPaid, again \in Nat,
         UNCHANGED <<live, again>>, row'[Watched] = row[Watched],
         row[Watched] = "closed" => Carrying' \subseteq Carrying
  PROVE  ScansPaid'
<1>1. IsFiniteSet(Carrying)
  BY CarryingFinite
<1>2. row[Watched] = "closed" =>
        Cardinality(Carrying') <= Cardinality(Carrying) /\ Cardinality(Carrying') \in Nat
  BY <1>1, Fewer
<1> QED BY <1>2, CarryingFinite DEF ScansPaid, Queued

(* InsertJob: the scan gives up the row that it adds to the queue.         *)
LEMMA InsertPaid ==
  ASSUME ScanInv, NEW s \in Scanner, InsertJob(s)
  PROVE  ScanTyped' /\ ScansPaid'
<1>1. scan[s].checked /\ scan[s].batch # {} /\ again' = again /\ row' = row
  BY DEF InsertJob, ScanInv, ScanTyped
<1>2. live' = live \cup {Current(s)}
  BY DEF InsertJob
<1>3. NextRow(s) \/ EndScan(s)
  BY DEF InsertJob
<1>4. ScanTyped' /\ Carrying' \subseteq Carrying
  BY <1>3, RowDone, ScanEnded
<1>5. /\ scan[s].batch \subseteq Nat
      /\ Current(s) \in scan[s].batch
  BY <1>1, CurrentInBatch, DomainScanAssumption DEF ScanInv, ScanTyped
<1>6. CASE Current(s) = Watched /\ Watched \notin live
  <2>1. s \in Carrying
    BY <1>5, <1>6 DEF Carrying
  <2>2. Carrying' \subseteq Carrying \ {s}
    BY <1>1, <1>3, <1>6, RowDone, ScanEnded
  <2>3. Cardinality(Carrying \ {s}) = Cardinality(Carrying) - 1 /\ IsFiniteSet(Carrying \ {s})
    BY <2>1, CarryingFinite, FS_RemoveElement
  <2>4. Cardinality(Carrying') <= Cardinality(Carrying \ {s}) /\ Cardinality(Carrying') \in Nat
    BY <2>2, <2>3, Fewer
  <2>5. Queued = 0 /\ Queued' = 1
    BY <1>2, <1>6 DEF Queued
  <2> QED BY <1>1, <1>4, <2>3, <2>4, <2>5, CarryingFinite DEF ScansPaid, ScanInv, RowsTyped
<1>7. CASE ~(Current(s) = Watched /\ Watched \notin live)
  <2>1. Queued' = Queued /\ Queued \in 0..1
    BY <1>2, <1>7 DEF Queued
  <2>2. Cardinality(Carrying') <= Cardinality(Carrying) /\ Cardinality(Carrying') \in Nat
    BY <1>4, CarryingFinite, Fewer
  <2> QED BY <1>1, <1>4, <2>1, <2>2, CarryingFinite DEF ScansPaid, ScanInv, RowsTyped
<1> QED BY <1>6, <1>7

LEMMA ScanStepKept ==
  ASSUME ScanInv, NEW s \in Scanner,
         ScanStep(s) \/ ScanFails(s)
  PROVE  ScanInv'
<1>1. RowsTyped'
  <2>1. row' = row /\ again' = again /\ faults' \in 0..MaxFaults
    BY DomainScanAssumption DEF ScanStep, ScanFails, StartScan, NextKind, CheckKey,
           InsertJob, ScanInv, RowsTyped
  <2>2. CASE InsertJob(s)
    <3>1. Current(s) \in Item
      BY <2>2, CurrentInBatch, DomainScanAssumption
      DEF InsertJob, ScanInv, ScanTyped
    <3> QED BY <2>1, <2>2, <3>1 DEF InsertJob, ScanInv, RowsTyped
  <2>3. CASE ~InsertJob(s)
    <3>1. live' = live
      BY <2>3 DEF ScanStep, ScanFails, StartScan, NextKind, CheckKey
    <3> QED BY <2>1, <3>1 DEF ScanInv, RowsTyped
  <2> QED BY <2>2, <2>3
<1>2. ScansPaid /\ again \in Nat
  BY DEF ScanInv, RowsTyped
<1>3. CASE StartScan(s)
  <2>1. ReadBatch(s, 1) /\ UNCHANGED <<row, live, again>>
    BY <1>3 DEF StartScan
  <2>2. ScanTyped' /\ (row[Watched] = "closed" => Carrying' \subseteq Carrying)
    BY <2>1, BatchRead DEF Kind
  <2> QED BY <1>1, <1>2, <2>1, <2>2, StillPaid DEF ScanInv
<1>4. CASE NextKind(s)
  <2>1. AfterBatch(s) /\ UNCHANGED <<row, live, again>> /\ scan[s].kind \in Kind
    BY <1>4 DEF NextKind, Scanning, ScanInv, ScanTyped, Kind
  <2>2. ScanTyped' /\ (row[Watched] = "closed" => Carrying' \subseteq Carrying)
    <3>1. CASE EndScan(s)
      BY <3>1, ScanEnded
    <3>2. CASE ~EndScan(s)
      <4>1. scan[s].kind # 4 /\ ReadBatch(s, scan[s].kind + 1)
        BY <2>1, <3>2 DEF AfterBatch
      <4>2. scan[s].kind + 1 \in Kind
        BY <2>1, <4>1 DEF Kind
      <4> QED BY <4>1, <4>2, BatchRead
    <3> QED BY <3>1, <3>2
  <2> QED BY <1>1, <1>2, <2>1, <2>2, StillPaid DEF ScanInv
<1>5. CASE CheckKey(s)
  <2>1. /\ Scanning(s) /\ scan[s].batch # {} /\ UNCHANGED <<row, live, again>>
        /\ NextRow(s) \/ scan' = [scan EXCEPT ![s].checked = TRUE]
    BY <1>5 DEF CheckKey
  <2>2. ScanTyped' /\ Carrying' \subseteq Carrying
    BY <2>1, RowDone, RowChecked
  <2> QED BY <1>1, <1>2, <2>1, <2>2, StillPaid DEF ScanInv
<1>6. CASE InsertJob(s)
  BY <1>1, <1>6, InsertPaid DEF ScanInv
<1>7. CASE ScanFails(s)
  <2>1. EndScan(s) /\ UNCHANGED <<row, live, again>>
    BY <1>7 DEF ScanFails
  <2>2. ScanTyped' /\ Carrying' \subseteq Carrying
    BY <2>1, ScanEnded
  <2> QED BY <1>1, <1>2, <2>1, <2>2, StillPaid DEF ScanInv
<1> QED BY <1>3, <1>4, <1>5, <1>6, <1>7 DEF ScanStep

(* Rows become due and are closed, and jobs run, without a scan.  Only a   *)
(* job of a closed row that ran for nothing moves from the queue to again. *)
LEMMA ItemStepKept ==
  ASSUME ScanInv, NEW i \in Item,
         BecomesDue(i) \/ Close(i) \/ RunJob(i)
  PROVE  ScanInv'
<1> USE DEF JobEnds
<1>1. scan' = scan
  BY DEF BecomesDue, Close, RunJob, Dispatched, CutOff,
         Suppressed, Repeated, NotDispatched, RecurringTaskAdvance,
         CalendarReconciliation
<1>2. ScanTyped' /\ Carrying' = Carrying
  BY <1>1 DEF ScanInv, ScanTyped, Carrying
<1>3. \/ live' = live
      \/ i \in live /\ live' = live \ {i}
  BY DEF BecomesDue, Close, RunJob, Dispatched, CutOff,
         Suppressed, Repeated, NotDispatched, RecurringTaskAdvance,
         CalendarReconciliation
<1>4. \/ row' = row
      \/ /\ row[i] # "closed"
         /\ \/ row' = [row EXCEPT ![i] = "due"] \/ row' = [row EXCEPT ![i] = "closed"]
            \/ row' = [row EXCEPT ![i] = "stuck"]
  BY DEF BecomesDue, Close, RunJob, Dispatched, CutOff,
         Suppressed, Repeated, NotDispatched, RecurringTaskAdvance,
         CalendarReconciliation
<1>5. \/ again' = again
      \/ /\ row[i] = "closed" /\ i = Watched /\ again' = again + 1 /\ row' = row
         /\ i \in live /\ live' = live \ {i}
  BY DEF BecomesDue, Close, RunJob, Dispatched, CutOff,
         Suppressed, Repeated, NotDispatched, RecurringTaskAdvance,
         CalendarReconciliation, ScanInv, RowsTyped
<1>6. faults' \in 0..MaxFaults
  BY DomainScanAssumption DEF BecomesDue, Close, RunJob, Dispatched, CutOff,
         Suppressed, Repeated, NotDispatched, RecurringTaskAdvance,
         CalendarReconciliation, ScanInv, RowsTyped
<1>7. RowsTyped'
  <2>1. row' \in [Item -> {"waiting", "due", "stuck", "closed"}]
    BY <1>4 DEF ScanInv, RowsTyped
  <2>2. live' \subseteq Item
    BY <1>3 DEF ScanInv, RowsTyped
  <2>3. again' \in Nat
    BY <1>5 DEF ScanInv, RowsTyped
  <2> QED BY <1>6, <2>1, <2>2, <2>3 DEF RowsTyped
<1>8. ScansPaid'
  <2>1. Watched \in Item /\ row \in [Item -> {"waiting", "due", "stuck", "closed"}]
    BY DomainScanAssumption DEF ScanInv, RowsTyped
  <2>2. row[Watched] = "closed" => row'[Watched] = "closed"
    BY <1>4, <2>1
  <2>3. CASE again' = again
    <3>1. Queued' <= Queued /\ Queued \in 0..1 /\ Queued' \in 0..1
      BY <1>3 DEF Queued
    <3>2. again \in Nat /\ ScansPaid
      BY DEF ScanInv, RowsTyped
    <3> QED BY <1>2, <2>2, <2>3, <3>1, <3>2, CarryingFinite DEF ScansPaid
  <2>4. CASE again' # again
    <3>1. row[Watched] = "closed" /\ again' = again + 1 /\ Queued = 1 /\ Queued' = 0
      BY <1>5, <2>4 DEF Queued
    <3>2. again \in Nat /\ ScansPaid
      BY DEF ScanInv, RowsTyped
    <3> QED BY <1>2, <2>2, <3>1, <3>2, CarryingFinite DEF ScansPaid
  <2> QED BY <2>3, <2>4
<1> QED BY <1>2, <1>7, <1>8 DEF ScanInv

LEMMA ScanKept ==
  ASSUME ScanInv, [ScanNext]_scanVars
  PROVE  ScanInv'
<1>1. CASE UNCHANGED scanVars
  BY <1>1 DEF scanVars, ScanInv, RowsTyped, ScanTyped, ScansPaid, Carrying, Queued
<1>2. CASE ScanNext
  BY <1>2, ScanStepKept, ItemStepKept DEF ScanNext
<1> QED BY <1>1, <1>2

(* Batches stay within their LIMIT and their kind of rows, and a row that  *)
(* was closed costs at most one needless job for each scan that overlaps,  *)
(* and one more: for any rows, limits and number of scans.                 *)
THEOREM ScansSoundHolds == ScanSpec => []ScansSound
<1>1. ScanInit => ScanInv
  BY ScanInvInit
<1>2. ScanInv /\ [ScanNext]_scanVars => ScanInv'
  BY ScanKept
<1>3. ScanInv => ScansSound
  <2> SUFFICES ASSUME ScanInv PROVE ScansSound
    OBVIOUS
  <2>1. ScanTypeOK
    BY DEF ScanInv, RowsTyped, ScanTyped, ScanTypeOK
  <2>2. again <= Cardinality(Scanner) + 1
    BY CarryingFinite DEF ScanInv, RowsTyped, ScansPaid, Queued
  <2> QED BY <2>1, <2>2 DEF ScansSound, StaleBounded
<1> QED BY <1>1, <1>2, <1>3, PTL DEF ScanSpec
=============================================================================
