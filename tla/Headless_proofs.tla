---------------------------- MODULE Headless_proofs ----------------------------
(***************************************************************************)
(* The parts of headless extraction, for any values of their constants:    *)
(* UsageMeter, the limits on a subject's runs and on a day's cost;         *)
(* Windows, that no passage is cut apart; ExtractItem, what a valid item   *)
(* means; PromptSets, that what was published stays as it was and that     *)
(* applications stay in their day.                                         *)
(***************************************************************************)
EXTENDS UsageMeter, Windows, ExtractItem, PromptSets, FiniteSetTheorems, SequenceTheorems, TLAPS

-----------------------------------------------------------------------------
(* UsageMeter: the concurrency limit and the bound on a day's cost, for    *)
(* any number of runs on any number of instances, any limits and any cost  *)
(* of a file, as long as the counter's key does not expire.                *)

(* Sets of runs are finite.                                                *)
LEMMA FiniteRuns ==
    ASSUME NEW S \in SUBSET Runs
    PROVE  IsFiniteSet(S) /\ Cardinality(S) \in Nat
BY MeterAssumption, FS_Subset, FS_CardinalityType

(* How the number of runs at some step changes when one of them moves.     *)
LEMMA OneMore ==
    ASSUME NEW S \in SUBSET Runs, NEW r \in Runs
    PROVE  /\ r \notin S => Cardinality(S \cup {r}) = Cardinality(S) + 1
           /\ r \in S => Cardinality(S \ {r}) = Cardinality(S) - 1
BY FiniteRuns, FS_AddElement, FS_RemoveElement

(* A part of the runs is not more than the whole.                          *)
LEMMA Fewer ==
    ASSUME NEW S \in SUBSET Runs, NEW T \in SUBSET S
    PROVE  Cardinality(T) <= Cardinality(S)
BY FiniteRuns, FS_Subset

(* A run that asks is in progress, and one in progress is counted.         *)
LEMMA RunSets == /\ Holding \in SUBSET Runs /\ Occupying \in SUBSET Runs
                 /\ Asking \in SUBSET Runs
                 /\ Holding \subseteq Occupying /\ Asking \subseteq Holding
BY DEF Holding, Occupying, Asking

(* One file fewer in hand makes room for what it cost.                     *)
LEMMA OneFileLess ==
    ASSUME NEW n \in Nat, NEW c \in Nat
    PROVE  (n - 1) * c = n * c - c /\ (n + 1) * c = n * c + c
OBVIOUS

(* More files in hand, more that they may cost.                            *)
LEMMA Monotone ==
    ASSUME NEW m \in Nat, NEW n \in Nat, m <= n, NEW c \in Nat
    PROVE  m * c <= n * c
OBVIOUS

(* Where a run goes decides which of the sets it is in.                    *)
LEMMA Moves ==
    ASSUME TypeOK, NEW r \in Runs, NEW step \in {"idle", "over", "held", "asking"},
           Goto(r, step)
    PROVE  /\ pc' \in [Runs -> {"idle", "over", "held", "asking"}]
           /\ Occupying' = IF step # "idle" THEN Occupying \cup {r} ELSE Occupying \ {r}
           /\ Holding' = IF step \in {"held", "asking"} THEN Holding \cup {r}
                                                         ELSE Holding \ {r}
           /\ Asking' = IF step = "asking" THEN Asking \cup {r} ELSE Asking \ {r}
<1> USE DEF TypeOK
<1>1. /\ pc' \in [Runs -> {"idle", "over", "held", "asking"}]
      /\ \A q \in Runs : pc'[q] = IF q = r THEN step ELSE pc[q]
  BY DEF Goto
<1>2. Occupying' = IF step # "idle" THEN Occupying \cup {r} ELSE Occupying \ {r}
  BY <1>1 DEF Occupying
<1>3. Holding' = IF step \in {"held", "asking"} THEN Holding \cup {r} ELSE Holding \ {r}
  BY <1>1 DEF Holding
<1>4. Asking' = IF step = "asking" THEN Asking \cup {r} ELSE Asking \ {r}
  BY <1>1 DEF Asking
<1> QED  BY <1>1, <1>2, <1>3, <1>4

(* The bound on the overshoot only looks at the count and at how many runs *)
(* are asking.                                                             *)
LEMMA NoMoreAsking ==
    ASSUME OvershootIsBounded, TypeOK, expired' = expired, counted' = counted,
           Asking' \subseteq Asking
    PROVE  OvershootIsBounded'
<1>1. /\ Cardinality(Asking) \in Nat /\ Cardinality(Asking') \in Nat
      /\ Cardinality(Asking') <= Cardinality(Asking)
  BY RunSets, FiniteRuns, Fewer
<1>2. Cardinality(Asking') * MaxCost <= Cardinality(Asking) * MaxCost
  BY <1>1, Monotone, MeterAssumption
<1>3. TokenLimit \in Nat /\ Limit * MaxCost \in Int /\ counted \in Nat
  BY MeterAssumption DEF TypeOK
<1>4. Cardinality(Asking) * MaxCost \in Int /\ Cardinality(Asking') * MaxCost \in Int
  BY <1>1, MeterAssumption
<1> QED
  <2> DEFINE a == Cardinality(Asking) * MaxCost
             b == Cardinality(Asking)' * MaxCost
             m == Limit * MaxCost
  <2>1. a \in Int /\ b \in Int /\ m \in Int /\ b <= a
    BY <1>1, <1>2, <1>3, <1>4
  <2>2. ~expired => counted + a < TokenLimit + m
    BY DEF OvershootIsBounded
  <2>3. SUFFICES ~expired' => counted' + b < TokenLimit + m
    BY DEF OvershootIsBounded
  <2> HIDE DEF a, b, m
  <2> QED  BY <2>1, <2>2, <1>3

(* Adding a smaller to a smaller.                                          *)
LEMMA AddBounds ==
    ASSUME NEW c \in Int, NEW t \in Int, NEW b \in Int, NEW m \in Int, c < t, b <= m
    PROVE  c + b < t + m
OBVIOUS

(* What leaves the files in hand is at least what is counted.              *)
LEMMA CostMoves ==
    ASSUME NEW n \in Int, NEW c \in Int, NEW k \in Int, NEW a \in Int, NEW bound \in Int,
           k <= c, n + a < bound
    PROVE  (n + k) + (a - c) < bound
OBVIOUS

(* At most Limit runs ask at once, and each has at most MaxCost in hand:   *)
(* with budget left, or none counted, the bound holds.                     *)
LEMMA RoomLeft ==
    ASSUME TypeOK', LimitHolds', counted' < TokenLimit
    PROVE  OvershootIsBounded'
<1>1. SUFFICES ASSUME ~expired'
               PROVE  counted' + Cardinality(Asking)' * MaxCost < TokenLimit + Limit * MaxCost
  BY DEF OvershootIsBounded
<1>2. Cardinality(Asking)' \in Nat /\ Cardinality(Holding)' \in Nat
  BY FiniteRuns DEF Asking, Holding
<1>3. Cardinality(Asking)' <= Cardinality(Holding)'
  <2>1. Holding' \in SUBSET Runs /\ Asking' \in SUBSET Holding'
    BY DEF Asking, Holding
  <2> QED  BY <2>1, Fewer
<1>4. Cardinality(Asking)' <= Limit
  BY <1>1, <1>2, <1>3, MeterAssumption DEF LimitHolds
<1>5. Cardinality(Asking)' * MaxCost <= Limit * MaxCost
  BY <1>2, <1>4, Monotone, MeterAssumption
<1>6. counted' \in Nat /\ TokenLimit \in Nat
  BY MeterAssumption DEF TypeOK
<1>7. Cardinality(Asking)' * MaxCost \in Int /\ Limit * MaxCost \in Int
  BY <1>2, MeterAssumption
<1> QED  BY <1>5, <1>6, <1>7, AddBounds

-----------------------------------------------------------------------------
(* At the start nothing runs and nothing is counted.                       *)
LEMMA InitMeterInv == Init => MeterInv
<1> SUFFICES ASSUME Init
             PROVE  MeterInv
  OBVIOUS
<1>1. Occupying = {} /\ Holding = {} /\ Asking = {}
  BY DEF Init, Occupying, Holding, Asking
<1>2. Cardinality({}) = 0
  BY FS_EmptySet
<1>3. TypeOK
  <2>1. exists \in BOOLEAN /\ expiring \in BOOLEAN /\ expired \in BOOLEAN
    BY DEF Init
  <2>2. /\ slots \in Int /\ counted \in Nat /\ spent \in Nat
        /\ pc \in [Runs -> {"idle", "over", "held", "asking"}]
        /\ cost \in [Runs -> 0..MaxCost]
        /\ days \in 0..MaxDays /\ lost \in 0..MaxLost /\ failed \in 0..MaxFailed
    BY MeterAssumption DEF Init
  <2> QED  BY <2>1, <2>2 DEF TypeOK
<1>4. SlotsCoverRuns /\ LimitHolds
  BY <1>1, <1>2, MeterAssumption DEF Init, SlotsCoverRuns, LimitHolds
<1>5. OvershootIsBounded
  <2>1. Limit * MaxCost \in Nat
    BY MeterAssumption
  <2> DEFINE m == Limit * MaxCost
  <2>2. 0 * MaxCost = 0 /\ counted = 0 /\ TokenLimit \in Nat \ {0}
    BY MeterAssumption DEF Init
  <2>3. m \in Nat
    BY <2>1
  <2> HIDE DEF m
  <2>4. 0 < TokenLimit + m
    BY <2>2, <2>3
  <2>5. counted + Cardinality(Asking) * MaxCost = 0
    BY <2>2, <1>1, <1>2
  <2> QED  BY <2>4, <2>5 DEF OvershootIsBounded, m
<1> QED  BY <1>3, <1>4, <1>5 DEF MeterInv

(* A run enters: counted before it is compared, so that only one that      *)
(* found room is in progress.                                              *)
LEMMA EnterKeeps ==
    ASSUME MeterInv, NEW r \in Runs, Enter(r)
    PROVE  MeterInv'
<1> DEFINE step == IF slots + 1 > Limit THEN "over" ELSE "held"
<1> USE DEF MeterInv
<1>1. /\ Occupying' = Occupying \cup {r} /\ r \notin Occupying
      /\ Holding' = IF step = "held" THEN Holding \cup {r} ELSE Holding \ {r}
      /\ Asking' = Asking \ {r}
      /\ pc' \in [Runs -> {"idle", "over", "held", "asking"}]
  <2>1. step \in {"over", "held"} /\ Goto(r, step)
    BY DEF Enter
  <2>2. r \notin Occupying
    BY DEF Enter, Occupying
  <2> QED  BY <2>1, <2>2, Moves
<1>2. TypeOK'
  BY <1>1 DEF TypeOK, Enter, Increment, boundVars
<1>3. /\ Cardinality(Occupying') = Cardinality(Occupying) + 1
      /\ Cardinality(Occupying) \in Nat /\ slots \in Int /\ Limit \in Nat
      /\ slots' = slots + 1 /\ expired' = expired
  BY <1>1, OneMore, FiniteRuns, RunSets, MeterAssumption DEF TypeOK, Enter, Increment
<1>4. SlotsCoverRuns'
  BY <1>3 DEF SlotsCoverRuns
<1>5. LimitHolds'
  <2>1. CASE step = "over"
    <3>1. Holding' \subseteq Holding
      BY <2>1, <1>1
    <3>2. /\ Cardinality(Holding') <= Cardinality(Holding)
          /\ Cardinality(Holding') \in Nat /\ Cardinality(Holding) \in Nat
      BY <3>1, RunSets, Fewer, FiniteRuns
    <3> QED  BY <3>2, <1>3 DEF LimitHolds
  <2>2. CASE step = "held"
    <3>1. Holding' \subseteq Occupying' /\ Occupying' \in SUBSET Runs
      BY DEF Holding, Occupying
    <3>2. /\ Cardinality(Holding') <= Cardinality(Occupying')
          /\ Cardinality(Holding') \in Nat
      BY <3>1, Fewer, FiniteRuns
    <3>3. slots + 1 <= Limit
      BY <2>2, <1>3
    <3> QED  BY <3>2, <3>3, <1>3 DEF LimitHolds, SlotsCoverRuns
  <2> QED  BY <2>1, <2>2
<1>6. OvershootIsBounded'
  <2>1. expired' = expired /\ counted' = counted /\ Asking' \subseteq Asking
    BY <1>1 DEF Enter
  <2> QED  BY <2>1, NoMoreAsking
<1> QED  BY <1>2, <1>4, <1>5, <1>6

(* A run goes away: at most one count is given back, and it stood for this *)
(* run.                                                                    *)
LEMMA GoingKeeps ==
    ASSUME MeterInv, TypeOK', NEW r \in Occupying, Goto(r, "idle"),
           slots' \in {slots, slots - 1}, UNCHANGED <<expired, counted>>
    PROVE  MeterInv'
<1> USE DEF MeterInv
<1>1. r \in Runs
  BY RunSets
<1>2. /\ Occupying' = Occupying \ {r} /\ Holding' = Holding \ {r}
      /\ Asking' = Asking \ {r}
  BY <1>1, Moves
<1>3. /\ Cardinality(Occupying') = Cardinality(Occupying) - 1
      /\ Cardinality(Occupying) \in Nat /\ slots \in Int
  BY <1>1, <1>2, OneMore, FiniteRuns, RunSets DEF TypeOK
<1>4. SlotsCoverRuns'
  BY <1>3 DEF SlotsCoverRuns
<1>5. LimitHolds'
  <2>1. /\ Cardinality(Holding') <= Cardinality(Holding)
        /\ Cardinality(Holding') \in Nat /\ Cardinality(Holding) \in Nat
    BY <1>2, RunSets, Fewer, FiniteRuns
  <2> QED  BY <2>1, MeterAssumption DEF LimitHolds
<1>6. OvershootIsBounded'
  BY <1>2, NoMoreAsking
<1> QED  BY <1>4, <1>5, <1>6

(* A run stays in progress and none more asks: only the count may grow.    *)
LEMMA WorkingKeeps ==
    ASSUME MeterInv, TypeOK', Occupying' = Occupying, Holding' = Holding,
           OvershootIsBounded', UNCHANGED <<slots, expired>>
    PROVE  MeterInv'
BY DEF MeterInv, SlotsCoverRuns, LimitHolds

(* A refused run gives its count back.                                     *)
LEMMA RefuseKeeps ==
    ASSUME MeterInv, NEW r \in Runs, Refuse(r)
    PROVE  MeterInv'
<1>1. TypeOK'
  BY Moves DEF MeterInv, TypeOK, Refuse, Decrement, boundVars
<1> QED  BY <1>1, GoingKeeps DEF Refuse, Decrement, Occupying

(* An ended run gives its count back.                                      *)
LEMMA LeaveKeeps ==
    ASSUME MeterInv, NEW r \in Runs, Leave(r)
    PROVE  MeterInv'
<1>1. TypeOK'
  BY Moves DEF MeterInv, TypeOK, Leave, Decrement, boundVars
<1> QED  BY <1>1, GoingKeeps DEF Leave, Decrement, Occupying

(* A killed run leaves its count behind.                                   *)
LEMMA VanishKeeps ==
    ASSUME MeterInv, NEW r \in Runs, Vanish(r)
    PROVE  MeterInv'
<1>1. pc' \in [Runs -> {"idle", "over", "held", "asking"}]
  BY Moves DEF MeterInv, Vanish
<1>2. TypeOK'
  <2>1. cost' \in [Runs -> 0..MaxCost] /\ cost[r] \in Nat
    BY MeterAssumption DEF MeterInv, TypeOK, Vanish
  <2>2. spent' \in Nat /\ lost' \in 0..MaxLost
    BY <2>1, MeterAssumption DEF MeterInv, TypeOK, Vanish
  <2> QED  BY <1>1, <2>1, <2>2 DEF MeterInv, TypeOK, Vanish, slotVars
<1> QED  BY <1>2, GoingKeeps DEF Vanish, slotVars, Occupying

(* A file is begun only with budget left.                                  *)
LEMMA StartFileKeeps ==
    ASSUME MeterInv, NEW r \in Runs, StartFile(r)
    PROVE  MeterInv'
<1>1. /\ Occupying' = Occupying \cup {r} /\ Holding' = Holding \cup {r}
      /\ r \in Occupying /\ r \in Holding
      /\ pc' \in [Runs -> {"idle", "over", "held", "asking"}]
  BY Moves DEF MeterInv, StartFile, Occupying, Holding
<1>2. TypeOK'
  BY <1>1 DEF MeterInv, TypeOK, StartFile, slotVars, boundVars
<1>3. Occupying' = Occupying /\ Holding' = Holding
  BY <1>1
<1>4. UNCHANGED <<slots, expired, counted>> /\ counted < TokenLimit
  BY DEF StartFile, slotVars
<1>5. LimitHolds'
  BY <1>3, <1>4 DEF MeterInv, LimitHolds
<1>6. OvershootIsBounded'
  BY <1>2, <1>4, <1>5, RoomLeft
<1> QED  BY <1>2, <1>3, <1>4, <1>6, WorkingKeeps

(* A window costs what its file was reckoned for.                          *)
LEMMA AskWindowKeeps ==
    ASSUME MeterInv, NEW r \in Runs, AskWindow(r)
    PROVE  MeterInv'
<1>1. TypeOK'
  BY MeterAssumption DEF MeterInv, TypeOK, AskWindow, slotVars, boundVars
<1>2. /\ Occupying' = Occupying /\ Holding' = Holding /\ Asking' = Asking
      /\ UNCHANGED <<slots, expired, counted>>
  BY DEF AskWindow, Occupying, Holding, Asking, slotVars
<1>3. OvershootIsBounded'
  BY <1>2, NoMoreAsking DEF MeterInv
<1> QED  BY <1>1, <1>2, <1>3, WorkingKeeps

(* What a file may cost is counted for when it starts, so that counting    *)
(* what it did cost keeps the bound.                                       *)
LEMMA FileDoneKeeps ==
    ASSUME MeterInv, NEW r \in Runs, FileDone(r)
    PROVE  MeterInv'
<1> USE DEF MeterInv
<1>1. /\ Occupying' = Occupying \cup {r} /\ Holding' = Holding \cup {r}
      /\ Asking' = Asking \ {r}
      /\ r \in Occupying /\ r \in Holding /\ r \in Asking
      /\ pc' \in [Runs -> {"idle", "over", "held", "asking"}]
  BY Moves DEF FileDone, Occupying, Holding, Asking
<1>2. cost[r] \in Nat /\ cost[r] <= MaxCost /\ counted' = counted + cost[r]
  BY MeterAssumption DEF TypeOK, FileDone
<1>3. TypeOK'
  <2>1. cost' \in [Runs -> 0..MaxCost]
    BY MeterAssumption DEF TypeOK, FileDone
  <2>2. counted' \in Nat /\ spent' \in Nat
    BY <1>2 DEF TypeOK, FileDone
  <2> QED  BY <1>1, <2>1, <2>2 DEF TypeOK, FileDone, slotVars, boundVars
<1>4. UNCHANGED <<slots, expired>>
  BY DEF FileDone, slotVars
<1>5. OvershootIsBounded'
  <2>1. /\ Cardinality(Asking') = Cardinality(Asking) - 1
        /\ Cardinality(Asking) \in Nat
    BY <1>1, OneMore, FiniteRuns, RunSets
  <2>2. Cardinality(Asking') * MaxCost = Cardinality(Asking) * MaxCost - MaxCost
    BY <2>1, OneFileLess, MeterAssumption
  <2>3. /\ Cardinality(Asking) * MaxCost \in Int /\ Limit * MaxCost \in Int
        /\ MaxCost \in Nat /\ TokenLimit \in Nat /\ counted \in Nat
    BY <2>1, MeterAssumption DEF TypeOK
  <2>4. SUFFICES ASSUME ~expired'
                 PROVE  counted' + Cardinality(Asking') * MaxCost
                            < TokenLimit + Limit * MaxCost
    BY DEF OvershootIsBounded
  <2>5. counted + Cardinality(Asking) * MaxCost < TokenLimit + Limit * MaxCost
    BY <2>4, <1>4 DEF OvershootIsBounded
  <2> QED  BY <2>2, <2>3, <2>5, <1>2, CostMoves
<1> QED  BY <1>1, <1>3, <1>4, <1>5, WorkingKeeps

(* What a failed file cost is not counted.                                 *)
LEMMA FileFailsKeeps ==
    ASSUME MeterInv, NEW r \in Runs, FileFails(r)
    PROVE  MeterInv'
<1> USE DEF MeterInv
<1>1. /\ Occupying' = Occupying \cup {r} /\ Holding' = Holding \cup {r}
      /\ Asking' = Asking \ {r}
      /\ r \in Occupying /\ r \in Holding
      /\ pc' \in [Runs -> {"idle", "over", "held", "asking"}]
  BY Moves DEF FileFails, Occupying, Holding
<1>2. TypeOK'
  <2>1. cost' \in [Runs -> 0..MaxCost] /\ cost[r] \in Nat
    BY MeterAssumption DEF TypeOK, FileFails
  <2>2. spent' \in Nat /\ failed' \in 0..MaxFailed
    BY <2>1, MeterAssumption DEF TypeOK, FileFails
  <2> QED  BY <1>1, <2>1, <2>2 DEF TypeOK, FileFails, slotVars
<1>3. UNCHANGED <<slots, expired, counted>>
  BY DEF FileFails, slotVars
<1>4. OvershootIsBounded'
  BY <1>1, <1>3, NoMoreAsking
<1> QED  BY <1>1, <1>2, <1>3, <1>4, WorkingKeeps

(* Nothing is claimed once the key has expired.                            *)
LEMMA ExpireKeeps ==
    ASSUME MeterInv, Expire
    PROVE  MeterInv'
<1>1. exists' \in BOOLEAN /\ expiring' \in BOOLEAN /\ expired' \in BOOLEAN
  BY DEF Expire
<1>2. TypeOK'
  BY <1>1 DEF MeterInv, TypeOK, Expire, boundVars
<1>3. expired'
  BY DEF Expire
<1> QED  BY <1>2, <1>3 DEF MeterInv, SlotsCoverRuns, LimitHolds, OvershootIsBounded

(* A new day begins with nothing counted.                                  *)
LEMMA NewDayKeeps ==
    ASSUME MeterInv, NewDay
    PROVE  MeterInv'
<1>1. TypeOK'
  BY MeterAssumption DEF MeterInv, TypeOK, NewDay, slotVars
<1>2. /\ Occupying' = Occupying /\ Holding' = Holding
      /\ UNCHANGED <<slots, expired>>
  BY DEF NewDay, Occupying, Holding, slotVars
<1>3. LimitHolds'
  BY <1>2 DEF MeterInv, LimitHolds
<1>4. counted' < TokenLimit
  BY MeterAssumption DEF NewDay
<1>5. OvershootIsBounded'
  BY <1>1, <1>3, <1>4, RoomLeft
<1> QED  BY <1>1, <1>2, <1>5, WorkingKeeps

-----------------------------------------------------------------------------
(* The inductive invariant: the counter counts at least every run in       *)
(* progress, and a file in hand is paid for by the bound.                  *)
THEOREM MeterInvariant == Spec => []MeterInv
<1>1. MeterInv /\ [Next]_vars => MeterInv'
  <2> SUFFICES ASSUME MeterInv, [Next]_vars
               PROVE  MeterInv'
    OBVIOUS
  <2>1. CASE \E r \in Runs : Step(r) \/ Vanish(r)
    BY <2>1, EnterKeeps, RefuseKeeps, LeaveKeeps, StartFileKeeps, AskWindowKeeps,
       FileDoneKeeps, FileFailsKeeps, VanishKeeps DEF Step
  <2>2. CASE Expire
    BY <2>2, ExpireKeeps
  <2>3. CASE NewDay
    BY <2>3, NewDayKeeps
  <2>4. CASE UNCHANGED vars
    <3>1. TypeOK'
      BY <2>4 DEF MeterInv, TypeOK, vars, slotVars, boundVars
    <3>2. /\ Occupying' = Occupying /\ Holding' = Holding /\ Asking' = Asking
          /\ UNCHANGED <<slots, expired, counted>>
      BY <2>4 DEF vars, slotVars, Occupying, Holding, Asking
    <3>3. OvershootIsBounded'
      BY <3>2, NoMoreAsking DEF MeterInv
    <3> QED  BY <3>1, <3>2, <3>3, WorkingKeeps
  <2> QED  BY <2>1, <2>2, <2>3, <2>4 DEF Next
<1> QED  BY <1>1, InitMeterInv, PTL DEF Spec

(* Counting before comparing is enough: whatever runs enter, are refused,  *)
(* end or are killed at once, on whichever instances, no more are in       *)
(* progress than concurrent_runs, until the counter's key expires.         *)
THEOREM LimitIsHeld == Spec => []LimitHolds
<1>1. MeterInv => LimitHolds
  BY DEF MeterInv
<1> QED  BY <1>1, MeterInvariant, PTL

(* The check before every file, without any reservation, still bounds a    *)
(* day's cost: at most Limit files beyond the budget.                      *)
THEOREM BudgetOvershoot == Spec => []OvershootIsBounded
<1>1. MeterInv => OvershootIsBounded
  BY DEF MeterInv
<1> QED  BY <1>1, MeterInvariant, PTL

-----------------------------------------------------------------------------
(* The counter counts exactly the runs and those that died without giving  *)
(* theirs back.                                                            *)
SlotsAccounted == ~expired => slots = Cardinality(Occupying) + lost

LEMMA AccountedInit == Init => SlotsAccounted
<1>1. Init => Occupying = {}
  BY DEF Init, Occupying
<1> QED  BY <1>1, FS_EmptySet DEF Init, SlotsAccounted

(* Entering takes one, going away gives one back or leaves it lost.        *)
LEMMA AccountedStep == MeterInv /\ SlotsAccounted /\ [Next]_vars => SlotsAccounted'
<1> SUFFICES ASSUME MeterInv, SlotsAccounted, [Next]_vars
             PROVE  SlotsAccounted'
  OBVIOUS
<1>1. Cardinality(Occupying) \in Nat /\ slots \in Int /\ lost \in Nat
  BY FiniteRuns, RunSets, MeterAssumption DEF MeterInv, TypeOK
<1>2. ASSUME NEW r \in Runs, Enter(r) PROVE SlotsAccounted'
  <2>1. Occupying' = Occupying \cup {r} /\ r \notin Occupying
    BY <1>2, Moves DEF Enter, Occupying, MeterInv
  <2>2. Cardinality(Occupying') = Cardinality(Occupying) + 1
    BY <2>1, OneMore, RunSets
  <2>3. slots' = slots + 1 /\ lost' = lost /\ expired' = expired
    BY <1>2 DEF Enter, Increment, boundVars
  <2> QED  BY <1>1, <2>2, <2>3 DEF SlotsAccounted
<1>3. ASSUME NEW r \in Runs, Refuse(r) \/ Leave(r) \/ Vanish(r) PROVE SlotsAccounted'
  <2>1. Occupying' = Occupying \ {r} /\ r \in Occupying
    BY <1>3, Moves DEF Refuse, Leave, Vanish, Occupying, MeterInv
  <2>2. Cardinality(Occupying') = Cardinality(Occupying) - 1
    BY <2>1, OneMore, RunSets
  <2>3. /\ expired' = expired
        /\ \/ slots' = slots - 1 /\ lost' = lost
           \/ slots' = slots /\ lost' = lost + 1
    BY <1>3 DEF Refuse, Leave, Vanish, Decrement, slotVars, boundVars
  <2> QED  BY <1>1, <2>2, <2>3 DEF SlotsAccounted
<1>4. ASSUME NEW r \in Runs, StartFile(r) \/ FileDone(r) \/ FileFails(r) PROVE SlotsAccounted'
  <2>1. Occupying' = Occupying
    BY <1>4, Moves DEF StartFile, FileDone, FileFails, Occupying, MeterInv
  <2>2. slots' = slots /\ lost' = lost /\ expired' = expired
    BY <1>4 DEF StartFile, FileDone, FileFails, slotVars, boundVars
  <2> QED  BY <2>1, <2>2 DEF SlotsAccounted
<1>5. CASE (\E r \in Runs : AskWindow(r)) \/ NewDay \/ UNCHANGED vars
  <2>1. Occupying' = Occupying /\ slots' = slots /\ lost' = lost /\ expired' = expired
    BY <1>5 DEF AskWindow, NewDay, Occupying, vars, slotVars, boundVars
  <2> QED  BY <2>1 DEF SlotsAccounted
<1>6. CASE Expire
  BY <1>6 DEF Expire, SlotsAccounted
<1> QED  BY <1>2, <1>3, <1>4, <1>5, <1>6 DEF Next, Step

(* Refusals and endings give back exactly what was taken: once nothing     *)
(* runs, and if nothing was killed, every slot of the subject is free.     *)
THEOREM SlotsAreFreed == Spec => []SlotsComeBack
<1>1. MeterInv /\ SlotsAccounted => SlotsComeBack
  <2>1. MeterInv => lost \in Nat
    BY MeterAssumption DEF MeterInv, TypeOK
  <2> QED  BY <2>1, FS_EmptySet DEF SlotsAccounted, SlotsComeBack
<1> QED  BY <1>1, MeterInvariant, AccountedInit, AccountedStep, PTL DEF Spec

-----------------------------------------------------------------------------
(* Windows: for every text, window size and set of breaks.                 *)

(* Integer division by the constants the cut is made with: a window ends   *)
(* further from its start than the overlap it will share with the next.    *)
LEMMA Division ==
    ASSUME NEW n \in Int, 0 < n
    PROVE  /\ n \div 10 \in Nat /\ n \div 2 \in Nat
           /\ n \div 10 < n
           /\ n \div 10 = 0 \/ n \div 10 < n \div 2
  OBVIOUS

LEMMA OverlapBounds ==
    ASSUME size \in Int, 0 < size
    PROVE  Overlap \in Nat /\ Overlap < size /\ (Overlap = 0 \/ Overlap < size \div 2)
  <1>1. size \div 10 \in Nat /\ size \div 2 \in Nat /\ size \div 10 < size
        /\ (size \div 10 = 0 \/ size \div 10 < size \div 2)
    BY Division
  <1> QED  BY <1>1 DEF Overlap, Min2

(* A window ends beyond its start, by more than the overlap, unless the    *)
(* text ends.                                                              *)
LEMMA EndIsFar ==
    ASSUME WindowsTypeOK, ~TooShort, start < length, NEW e \in 0..Reach, EndsAt(e)
    PROVE  e >= length \/ (start < e /\ start + Overlap < e)
  <1>1. /\ size \in Int /\ length \in Nat /\ start \in Nat /\ 0 < size
        /\ Overlap \in Nat /\ Overlap < size
        /\ (Overlap = 0 \/ Overlap < size \div 2) /\ size \div 2 \in Nat
    BY OverlapBounds, Division DEF WindowsTypeOK, TooShort
  <1>2. Reach = IF length < start + size THEN length ELSE start + size
    BY DEF Reach, Min2
  <1>3. CASE e = Reach
    BY <1>1, <1>2, <1>3
  <1>4. CASE Last(e)
    <2>1. start < e /\ start + size \div 2 <= e
      BY <1>4 DEF Last, Breaks
    <2> QED  BY <1>1, <2>1
  <1> QED  BY <1>3, <1>4 DEF EndsAt

THEOREM WindowsInvariant == WindowsSpec => []WindowsInv
  <1>1. ASSUME WindowsInit
        PROVE  WindowsInv
    <2>1. size \in Int /\ length \in Nat /\ breaks \subseteq Nat /\ start = 0
      BY <1>1, WindowsAssumption DEF WindowsInit
    <2>2. CASE TooShort
      <3>1. out = {<<0, length>>} /\ cut = TRUE
        BY <1>1, <2>2 DEF WindowsInit
      <3>2. \A a, b \in 0..length : Whole(a, b)
        <4>1. <<0, length>> \in out
          BY <3>1
        <4> QED  BY <2>1, <4>1 DEF Whole
      <3> QED  BY <2>1, <2>2, <3>1, <3>2 DEF WindowsInv, WindowsTypeOK, SoFar, NoPassageIsCut
    <2>3. CASE ~TooShort
      <3>1. out = {} /\ cut = FALSE
        BY <1>1, <2>3 DEF WindowsInit
      <3>2. 0 < size /\ start < length
        BY <2>1, <2>3 DEF TooShort
      <3>3. \A a, b \in 0..length : ~(a < start)
        BY <2>1
      <3> QED  BY <2>1, <2>3, <3>1, <3>2, <3>3 DEF WindowsInv, WindowsTypeOK, SoFar, NoPassageIsCut
    <2> QED  BY <2>2, <2>3
  <1>2. ASSUME WindowsInv, [WindowsNext]_windowVars
        PROVE  WindowsInv'
    <2>1. CASE UNCHANGED windowVars
      BY <1>2, <2>1 DEF WindowsInv, WindowsTypeOK, SoFar, NoPassageIsCut, Whole,
         TooShort, Overlap, windowVars, textVars
    <2>2. CASE Cut
      <3>1. PICK e \in 0..Reach : /\ EndsAt(e)
                                  /\ out' = out \cup {<<start, e>>}
                                  /\ cut' = (e >= length)
                                  /\ start' = IF e >= length THEN start
                                              ELSE IF e - Overlap > start THEN e - Overlap
                                              ELSE start + 1
        BY <2>2 DEF Cut
      <3>2. /\ size' = size /\ length' = length /\ breaks' = breaks /\ ~cut
            /\ Overlap' = Overlap /\ TooShort' = TooShort
        BY <2>2 DEF Cut, textVars, Overlap, TooShort
      <3>3. /\ WindowsTypeOK /\ SoFar /\ ~TooShort
            /\ size \in Int /\ length \in Nat /\ start \in Nat /\ 0 < size /\ start < length
        BY <1>2, <3>2 DEF WindowsInv, WindowsTypeOK, SoFar
      <3>4. Overlap \in Nat
        BY <3>3, OverlapBounds
      <3>5. e >= length \/ (start < e /\ start + Overlap < e)
        BY <3>1, <3>3, EndIsFar
      <3>6. e \in Nat
        BY <3>1, <3>3 DEF Reach, Min2
      <3>7. WindowsTypeOK'
        BY <3>1, <3>2, <3>3, <3>4, <3>6 DEF WindowsTypeOK
      <3>8. \A a, b : Whole(a, b) => Whole(a, b)'
        BY <3>1 DEF Whole
      <3>9. \A a, b \in 0..length : start <= a /\ b <= e => Whole(a, b)'
        <4> SUFFICES ASSUME NEW a \in 0..length, NEW b \in 0..length, start <= a, b <= e
                     PROVE  Whole(a, b)'
          OBVIOUS
        <4>1. <<start, e>> \in out'
          BY <3>1
        <4> QED  BY <4>1 DEF Whole
      <3>10. SoFar'
        <4> SUFFICES ASSUME ~cut'
                     PROVE  /\ 0 < size /\ start' < length
                            /\ \A a, b \in 0..length :
                                 a <= b /\ b - a <= Overlap + 1 /\ a < start' => Whole(a, b)'
          BY <3>2, <3>3 DEF SoFar
        <4>0. ~(e >= length)
          BY <3>1
        <4>1. start < e /\ start + Overlap < e /\ e < length
          BY <3>3, <3>5, <3>6, <4>0
        <4>2. start' = e - Overlap \/ (start' = start + 1 /\ e - Overlap <= start + 1)
          BY <3>1, <3>3, <3>4, <3>6, <4>1
        <4>3. ASSUME NEW a \in 0..length, NEW b \in 0..length, a <= b,
                     b - a <= Overlap + 1, a < start'
              PROVE  Whole(a, b)'
          <5>1. CASE a < start
            BY <3>2, <3>3, <3>8, <4>3, <5>1 DEF SoFar
          <5>2. CASE start <= a
            <6>1. b <= e
              BY <3>3, <3>4, <3>6, <4>1, <4>2, <4>3
            <6> QED  BY <3>9, <4>3, <5>2, <6>1
          <5> QED  BY <3>3, <4>3, <5>1, <5>2
        <4> QED  BY <3>3, <3>4, <3>6, <4>1, <4>2, <4>3
      <3>11. NoPassageIsCut'
        <4> SUFFICES ASSUME cut', NEW a \in 0..length, NEW b \in 0..length, a <= b,
                            b - a <= Overlap + 1
                     PROVE  Whole(a, b)'
          BY <3>2, <3>3 DEF NoPassageIsCut
        <4>1. CASE a < start
          BY <3>2, <3>3, <3>8, <4>1 DEF SoFar
        <4>2. CASE start <= a
          <5>1. e >= length
            BY <3>1
          <5>2. b <= e
            BY <3>3, <3>6, <5>1
          <5> QED  BY <3>9, <4>2, <5>2
        <4> QED  BY <3>3, <4>1, <4>2
      <3> QED  BY <3>2, <3>3, <3>7, <3>10, <3>11 DEF WindowsInv
    <2> QED  BY <1>2, <2>1, <2>2 DEF WindowsNext
  <1> QED  BY <1>1, <1>2, PTL DEF WindowsSpec

(* A value at a cut is seen whole in a window, however the text is cut.    *)
THEOREM PassagesAreWhole == WindowsSpec => []NoPassageIsCut
  <1>1. WindowsInv => NoPassageIsCut
    BY DEF WindowsInv
  <1> QED  BY <1>1, WindowsInvariant, PTL


-----------------------------------------------------------------------------
(* ExtractItem: what a valid item means, for any fields and any number of  *)
(* windows.                                                                *)
WindowTypes ==
    /\ part \in 1..(Parts + 1) /\ first \subseteq Replies /\ (first # {} => part <= Parts)
    /\ answers \in [1..Parts -> [Fields -> Data]]
    /\ given \in [1..Parts -> Replies] /\ flawed \subseteq 1..Parts

(* A window that is done and is not flawed has the data of its last reply. *)
Settled(n) == given[n].readable /\ ~Errs(given[n]) /\ answers[n] = Check(given[n])

ItemInv == WindowTypes /\ \A n \in 1..Parts : n < part /\ n \notin flawed => Settled(n)

LEMMA Checked ==
    ASSUME NEW r \in Replies
    PROVE  /\ Check(r) \in [Fields -> Data]
           /\ \A f \in Fields : r.entry[f] \in Entries
           /\ \A f \in Fields : Check(r)[f] = "found" <=> r.entry[f] = "stated"
           /\ \A f \in Fields : Check(r)[f] = "dropped" <=> r.entry[f] = "unquoted"
<1>1. Check(r) \in [Fields -> Data]
    BY DEF Check, Data
<1>2. \A f \in Fields : r.entry[f] \in Entries
    <2>1. CASE r = Unreadable
        <3>1. \A f \in Fields : r.entry[f] = "missing"
            BY <2>1 DEF Unreadable
        <3>2. QED
            BY <3>1 DEF Entries
    <2>2. CASE r \in [entry: [Fields -> Entries], extra: BOOLEAN, readable: {TRUE}]
        BY <2>2
    <2>3. QED
        BY <2>1, <2>2 DEF Replies
<1>3. \A f \in Fields : Check(r)[f] = CASE r.entry[f] = "stated" -> "found"
                                        [] r.entry[f] = "unquoted" -> "dropped"
                                        [] OTHER -> "empty"
    BY DEF Check
<1>4. QED
    BY <1>1, <1>2, <1>3

(* A window is done with the data of its reply, or is flawed.              *)
LEMMA WindowDone ==
    ASSUME ItemInv, part <= Parts, NEW r \in Replies, NEW data \in [Fields -> Data], Given(r),
           answers' = [answers EXCEPT ![part] = data], part' = part + 1, first' = {},
           \/ flawed' = flawed \cup {part}
           \/ flawed' = flawed /\ r.readable /\ ~Errs(r) /\ data = Check(r)
    PROVE  ItemInv'
<1>1. part \in 1..Parts
    BY DEF ItemInv, WindowTypes
<1>2. given' = [given EXCEPT ![part] = r]
    BY DEF Given
<1>3. Parts \in Nat
    BY ItemAssumption
<1>4. WindowTypes'
    <2>1. part' \in 1..(Parts + 1)
        BY <1>1, <1>3
    <2>2. given' \in [1..Parts -> Replies] /\ answers' \in [1..Parts -> [Fields -> Data]]
        BY <1>1, <1>2 DEF ItemInv, WindowTypes
    <2>3. flawed' \subseteq 1..Parts
        BY <1>1, <1>2 DEF ItemInv, WindowTypes
    <2>4. QED
        BY <2>1, <2>2, <2>3 DEF WindowTypes
<1>5. ASSUME NEW n \in 1..Parts, n < part', n \notin flawed' PROVE Settled(n)'
    <2>1. CASE n = part
        <3>1. r.readable /\ ~Errs(r) /\ data = Check(r)
            BY <1>5, <2>1
        <3>2. given'[n] = r /\ answers'[n] = data
            BY <1>1, <1>2, <2>1 DEF ItemInv, WindowTypes
        <3>3. QED
            BY <3>1, <3>2 DEF Settled, Errs, Check
    <2>2. CASE n # part
        <3>1. n < part /\ n \notin flawed
            BY <1>1, <1>2, <1>3, <1>5, <2>2
        <3>2. given'[n] = given[n] /\ answers'[n] = answers[n]
            BY <1>1, <1>2, <2>2 DEF ItemInv, WindowTypes
        <3>3. QED
            BY <3>1, <3>2 DEF ItemInv, Settled, Errs, Check
    <2>3. QED
        BY <2>1, <2>2
<1>6. QED
    BY <1>4, <1>5 DEF ItemInv

LEMMA AskKeeps ==
    ASSUME ItemInv, Ask
    PROVE  ItemInv'
<1>1. PICK r \in Replies : /\ Given(r)
                           /\ \/ Usable(r) /\ Keep(Check(r), FALSE) /\ UNCHANGED first
                              \/ first' = {r} /\ UNCHANGED <<answers, flawed, part>>
    BY DEF Ask
<1>2. CASE Usable(r) /\ Keep(Check(r), FALSE) /\ UNCHANGED first
    BY <1>1, <1>2, Checked, WindowDone DEF Ask, Usable, Keep
<1>3. CASE first' = {r} /\ UNCHANGED <<answers, flawed, part>>
    <2>1. part \in 1..Parts /\ given' = [given EXCEPT ![part] = r]
        BY <1>1 DEF ItemInv, WindowTypes, Ask, Given
    <2>2. WindowTypes'
        BY <1>3, <2>1 DEF ItemInv, WindowTypes
    <2>3. ASSUME NEW n \in 1..Parts, n < part', n \notin flawed' PROVE Settled(n)'
        <3>1. n # part /\ n < part /\ n \notin flawed
            BY <1>3, <2>1, <2>3
        <3>2. given'[n] = given[n] /\ answers'[n] = answers[n]
            BY <1>3, <2>1, <3>1 DEF ItemInv, WindowTypes
        <3>3. QED
            BY <3>1, <3>2 DEF ItemInv, Settled, Errs, Check
    <2>4. QED
        BY <2>2, <2>3 DEF ItemInv
<1>4. QED
    BY <1>1, <1>2, <1>3

LEMMA RepairKeeps ==
    ASSUME ItemInv, Repair
    PROVE  ItemInv'
<1>1. PICK r \in Replies : /\ Given(r)
                           /\ \/ r.readable /\ Keep(Check(r), Errs(r))
                              \/ \E one \in first : Keep(Check(one), TRUE)
    BY DEF Repair
<1>2. part <= Parts /\ first' = {} /\ first \subseteq Replies
    BY DEF Repair, ItemInv, WindowTypes
<1>3. CASE r.readable /\ Keep(Check(r), Errs(r))
    BY <1>1, <1>2, <1>3, Checked, WindowDone DEF Keep
<1>4. CASE \E one \in first : Keep(Check(one), TRUE)
    <2>1. PICK one \in first : Keep(Check(one), TRUE)
        BY <1>4
    <2>2. Check(one) \in [Fields -> Data]
        BY <1>2, Checked
    <2>3. QED
        BY <1>1, <1>2, <2>1, <2>2, WindowDone DEF Keep
<1>5. QED
    BY <1>1, <1>3, <1>4

(* A window that is done has the data of a reply that could be read and    *)
(* that the schema accepts, or its problems are on record.                 *)
THEOREM ItemInvariant == ItemSpec => []ItemInv
<1>1. ItemInit => ItemInv
    <2> SUFFICES ASSUME ItemInit PROVE ItemInv
        OBVIOUS
    <2>1. Unreadable \in Replies /\ Nothing \in [Fields -> Data]
        BY DEF Replies, Nothing, Data
    <2>2. WindowTypes
        BY <2>1, ItemAssumption DEF ItemInit, WindowTypes
    <2>3. QED
        BY <2>2 DEF ItemInit, ItemInv
<1>2. ItemInv /\ [ItemNext]_itemVars => ItemInv'
    <2> SUFFICES ASSUME ItemInv, [ItemNext]_itemVars PROVE ItemInv'
        OBVIOUS
    <2>1. CASE UNCHANGED itemVars
        BY <2>1 DEF itemVars, ItemInv, WindowTypes, Settled, Errs, Check
    <2>2. QED
        BY <2>1, AskKeeps, RepairKeeps DEF ItemNext
<1>3. QED
    BY <1>1, <1>2, PTL DEF ItemSpec

(* Of an item reported valid (extract.py): every window ended in a reply   *)
(* that could be read and that the schema accepts, a field is found        *)
(* exactly if such a reply stated it with evidence, and one said to be not *)
(* found was nowhere claimed without.                                      *)
THEOREM ValidItemsAreAnswered == ItemSpec => []ValidMeansAnswered
<1>1. ItemInv => ValidMeansAnswered
    <2> SUFFICES ASSUME ItemInv, Asked, Valid
                 PROVE  /\ \A n \in 1..Parts : given[n].readable /\ ~Errs(given[n])
                        /\ \A f \in Fields :
                             /\ Merged(f) = "found" <=> \E n \in 1..Parts : given[n].entry[f] = "stated"
                             /\ Merged(f) = "empty" =>
                                  \A n \in 1..Parts : given[n].entry[f] \in {"missing", "denied"}
        BY DEF ValidMeansAnswered
    <2>1. \A n \in 1..Parts : Settled(n) /\ given[n] \in Replies
        BY ItemAssumption DEF ItemInv, WindowTypes, Asked, Valid
    <2>2. ASSUME NEW f \in Fields
          PROVE  /\ Merged(f) = "found" <=> \E n \in 1..Parts : given[n].entry[f] = "stated"
                 /\ Merged(f) = "empty" =>
                      \A n \in 1..Parts : given[n].entry[f] \in {"missing", "denied"}
        <3>1. ASSUME NEW n \in 1..Parts
              PROVE  /\ answers[n][f] = "found" <=> given[n].entry[f] = "stated"
                     /\ answers[n][f] = "dropped" <=> given[n].entry[f] = "unquoted"
                     /\ given[n].entry[f] \in Entries \ {"wrong"}
            BY <2>1, Checked DEF Settled, Errs
        <3>2. \A n \in 1..Parts : answers[n][f] \notin {"found", "dropped"} =>
                  given[n].entry[f] \in {"missing", "denied"}
            BY <3>1 DEF Entries
        <3>3. QED
            BY <3>1, <3>2 DEF Merged
    <2>3. QED
        BY <2>1, <2>2 DEF Settled
<1>2. QED
    BY <1>1, ItemInvariant, PTL

-----------------------------------------------------------------------------
(* PromptSets: for any number of clients, sets and revisions, that what    *)
(* was published stays as it was, seen from the runs that were given it    *)
(* and from the row of its set.                                            *)

(* The tables have their types, and the current revision exists.           *)
TablesOK ==
    /\ row \in [Sets -> Rows] /\ rev \in [Sets -> Seq(Revisions)]
    /\ \A s \in Sets : Len(rev[s]) <= MaxRevisions /\ row[s].current <= Len(rev[s])
    /\ MirrorsCurrent

(* A request has a draft in hand only on the way to writing or publishing  *)
(* it, which is also the only way to a publication.                        *)
Shape(q) ==
    /\ q.draft # 0 => q.at = "write" \/ (q.at = "slug" /\ q.op = "publish")
    /\ q.op = "publish" => q.at \in {"draft", "slug", "write"}
    /\ q.op = "publish" /\ q.at # "draft" => q.draft # 0

Good(q) == q \in Calls /\ Shape(q) /\ q.draft <= Len(rev[q.set])

CallsOK == call \in [Clients -> Calls] /\ \A c \in Clients : Good(call[c])

RunsOK ==
    /\ ran \subseteq Sets \X (1..MaxRevisions) \X Bodies
    /\ \A x \in ran : x[2] <= Len(rev[x[1]])
    /\ RunsArePublished

PublishedInv ==
    /\ TablesOK /\ CallsOK /\ RunsOK
    /\ left \in [Clients -> Nat] /\ overtaken \subseteq Clients

-----------------------------------------------------------------------------
(* The arbitrary set and definition of an empty request.                   *)
LEMMA Arbitrary == AnySet \in Sets /\ AnyBody \in Bodies /\ AnyBody.slug # NoSlug
<1>1. AnySet \in Sets
    BY PromptAssumption DEF AnySet
<1>2. \E b \in Bodies : b.slug # NoSlug
    <2>1. PICK t \in Texts, g \in Slugs : TRUE
        BY PromptAssumption
    <2>2. [text |-> t, slug |-> g] \in Bodies /\ g # NoSlug
        BY PromptAssumption DEF Bodies
    <2>3. QED
        BY <2>2
<1>3. QED
    BY <1>1, <1>2 DEF AnyBody

LEMMA AbsentIsRow == Absent \in Rows
BY PromptAssumption DEF Absent, Rows

LEMMA BlankIsCall ==
    Blank \in Calls /\ Blank.op = "run" /\ Blank.at = "idle" /\ Blank.draft = 0
BY Arbitrary, AbsentIsRow, PromptAssumption DEF Blank, Calls, Ops, EditorOps, AppOps, Stages

LEMMA BlankIsGood ==
    ASSUME NEW r \in [Sets -> Seq(Revisions)]
    PROVE  Blank.draft <= Len(r[Blank.set])
<1>1. Blank.set \in Sets
    BY BlankIsCall DEF Calls
<1>2. Len(r[Blank.set]) \in Nat
    BY <1>1, LenProperties
<1>3. QED
    BY <1>2, BlankIsCall

-----------------------------------------------------------------------------
(* Revisions are never removed, and a published one keeps its body.        *)
Grows ==
    \A s \in Sets :
        /\ Len(rev[s]) <= Len(rev'[s])
        /\ \A n \in 1..Len(rev[s]) : rev[s][n].published =>
              rev'[s][n].published /\ rev'[s][n].body = rev[s][n].body

LEMMA GrowsKeepsRuns ==
    ASSUME TablesOK, TablesOK', RunsOK, Grows, UNCHANGED ran
    PROVE  RunsOK'
<1> SUFFICES ASSUME NEW x \in ran
             PROVE  /\ x[2] <= Len(rev'[x[1]])
                    /\ rev'[x[1]][x[2]].published /\ rev'[x[1]][x[2]].body = x[3]
    BY DEF RunsOK, RunsArePublished
<1>1. x[1] \in Sets /\ x[2] \in 1..MaxRevisions /\ x[2] <= Len(rev[x[1]])
    BY DEF RunsOK
<1>2. Len(rev[x[1]]) \in Nat /\ Len(rev'[x[1]]) \in Nat
    BY <1>1, LenProperties DEF TablesOK
<1>3. x[2] \in 1..Len(rev[x[1]])
    BY <1>1, <1>2, PromptAssumption
<1>4. rev[x[1]][x[2]].published /\ rev[x[1]][x[2]].body = x[3]
    BY DEF RunsOK, RunsArePublished
<1>5. QED
    BY <1>1, <1>2, <1>3, <1>4, PromptAssumption DEF Grows

(* The request of one client goes on, or ends.                             *)
Leads(c) ==
    \E q \in Calls :
        call' = [call EXCEPT ![c] = q] /\ Shape(q) /\ q.draft <= Len(rev'[q.set])

LEMMA GrowsKeepsCalls ==
    ASSUME TablesOK, TablesOK', CallsOK, Grows, NEW c \in Clients, Leads(c)
    PROVE  CallsOK'
<1>1. PICK q \in Calls :
            call' = [call EXCEPT ![c] = q] /\ Shape(q) /\ q.draft <= Len(rev'[q.set])
    BY DEF Leads
<1>2. call' \in [Clients -> Calls]
    BY <1>1 DEF CallsOK
<1>3. ASSUME NEW d \in Clients, d # c PROVE Good(call[d])'
    <2>1. call'[d] = call[d] /\ Good(call[d]) /\ call[d] \in Calls
        BY <1>1, <1>3 DEF CallsOK
    <2>2. call[d].set \in Sets /\ call[d].draft \in Nat
        BY <2>1, PromptAssumption DEF Calls
    <2>3. Len(rev[call[d].set]) \in Nat /\ Len(rev'[call[d].set]) \in Nat
        BY <2>2, LenProperties DEF TablesOK
    <2>4. call[d].draft <= Len(rev'[call[d].set])
        BY <2>1, <2>2, <2>3 DEF Grows, Good
    <2>5. QED
        BY <2>1, <2>4 DEF Good, Shape
<1>4. Good(call[c])'
    <2>1. call'[c] = q
        BY <1>1 DEF CallsOK
    <2>2. QED
        BY <1>1, <2>1 DEF Good, Shape
<1>5. QED
    BY <1>2, <1>3, <1>4 DEF CallsOK

(* A step of a client preserves the invariant if the tables grow.          *)
LEMMA StepPreserves ==
    ASSUME PublishedInv, TablesOK', Grows, NEW c \in Clients, Leads(c), UNCHANGED ran,
           left' \in [Clients -> Nat], overtaken' \subseteq Clients
    PROVE  PublishedInv'
BY GrowsKeepsCalls, GrowsKeepsRuns DEF PublishedInv

-----------------------------------------------------------------------------
(* The writes of the store.                                                *)
LEMMA UntouchedTables ==
    ASSUME TablesOK, UNCHANGED <<row, rev>>
    PROVE  TablesOK' /\ Grows
<1>1. \A s \in Sets : Len(rev[s]) \in Nat
    BY LenProperties DEF TablesOK
<1>2. QED
    BY <1>1 DEF TablesOK, MirrorsCurrent, Grows

LEMMA RowsOnly ==
    ASSUME TablesOK, NEW s \in Sets, NEW r \in Rows, row' = [row EXCEPT ![s] = r],
           UNCHANGED rev, r.current = 0 \/ (r.current = row[s].current /\ r.slug = row[s].slug)
    PROVE  TablesOK' /\ Grows
<1>1. \A z \in Sets : Len(rev[z]) \in Nat
    BY LenProperties DEF TablesOK
<1>2. row' \in [Sets -> Rows] /\ \A z \in Sets : row'[z] = IF z = s THEN r ELSE row[z]
    BY DEF TablesOK
<1>3. MirrorsCurrent'
    BY <1>2 DEF TablesOK, MirrorsCurrent
<1>4. \A z \in Sets : row'[z].current <= Len(rev[z])
    BY <1>1, <1>2 DEF TablesOK
<1>5. QED
    BY <1>1, <1>2, <1>3, <1>4 DEF TablesOK, Grows

LEMMA SyncedRow ==
    ASSUME NEW s \in Sets, row \in [Sets -> Rows], NEW n \in 0..MaxRevisions, NEW body \in Bodies
    PROVE  /\ Synced(s, n, body) \in [Sets -> Rows]
           /\ Synced(s, n, body)[s].current = n
           /\ body.slug \in {NoSlug, Synced(s, n, body)[s].slug}
           /\ \A z \in Sets \ {s} : Synced(s, n, body)[z] = row[z]
<1>1. row[s] \in Rows /\ body.slug \in Slugs \cup {NoSlug}
    BY DEF Bodies
<1> DEFINE new == [row[s] EXCEPT !.current = n, !.active = TRUE,
                                 !.slug = IF body.slug = NoSlug THEN row[s].slug ELSE body.slug]
<1>2. new \in Rows
    BY <1>1 DEF Rows
<1>3. new.current = n /\ body.slug \in {NoSlug, new.slug}
    BY <1>1 DEF Rows
<1>4. Synced(s, n, body) = [row EXCEPT ![s] = new]
    BY DEF Synced
<1> HIDE DEF new
<1>5. QED
    BY <1>2, <1>3, <1>4

LEMMA AddsRevision ==
    ASSUME TablesOK, NEW s \in Sets, NEW body \in Bodies, NEW published \in BOOLEAN,
           NEW app \in BOOLEAN, AddRevision(s, body, published, app)
    PROVE  TablesOK' /\ Grows
<1> DEFINE new == [body |-> body, published |-> published, app |-> app]
           n == Len(rev[s]) + 1
<1>1. new \in Revisions /\ new.body = body /\ new.published = published
    BY DEF Revisions
<1>2. rev[s] \in Seq(Revisions) /\ Len(rev[s]) \in Nat /\ \A z \in Sets : Len(rev[z]) \in Nat
    BY LenProperties DEF TablesOK
<1>3. rev' = [rev EXCEPT ![s] = Append(rev[s], new)] /\ Len(rev[s]) < MaxRevisions
    BY DEF AddRevision
<1> HIDE DEF new
<1>4. /\ Append(rev[s], new) \in Seq(Revisions) /\ Len(Append(rev[s], new)) = n
      /\ \A m \in 1..Len(rev[s]) : Append(rev[s], new)[m] = rev[s][m]
      /\ Append(rev[s], new)[n] = new
    BY <1>1, <1>2, AppendProperties
<1>5. /\ rev' \in [Sets -> Seq(Revisions)]
      /\ rev'[s] = Append(rev[s], new) /\ \A z \in Sets \ {s} : rev'[z] = rev[z]
    BY <1>3, <1>4 DEF TablesOK
<1>6. Grows
    BY <1>2, <1>4, <1>5 DEF Grows
<1>7. n \in 0..MaxRevisions /\ n \in Nat
    BY <1>2, <1>3, PromptAssumption
<1>11. \A z \in Sets : Len(rev'[z]) \in Nat
    BY <1>5, LenProperties
<1>12. \A z \in Sets : Len(rev'[z]) <= MaxRevisions
    <2>1. Len(rev'[s]) = n /\ n <= MaxRevisions
        BY <1>2, <1>3, <1>4, <1>5, PromptAssumption
    <2>2. \A z \in Sets : Len(rev[z]) <= MaxRevisions
        BY DEF TablesOK
    <2> HIDE DEF n
    <2>3. QED
        BY <1>5, <2>1, <2>2
<1>13. published => row' = Synced(s, n, body)
    BY DEF AddRevision
<1> HIDE DEF n
<1>8. CASE ~published
    <2>1. row' = row
        BY <1>8 DEF AddRevision
    <2>2. \A z \in Sets : row[z].current \in Nat
        BY PromptAssumption DEF TablesOK, Rows
    <2>3. \A z \in Sets : row'[z].current <= Len(rev'[z])
        <3>1. \A z \in Sets : row[z].current <= Len(rev[z])
            BY DEF TablesOK
        <3>2. QED
            BY <1>2, <1>6, <2>1, <2>2, <3>1, <1>11 DEF Grows
    <2>4. \A z \in Sets : row[z].current # 0 =>
             rev'[z][row[z].current] = rev[z][row[z].current]
        <3> SUFFICES ASSUME NEW z \in Sets, row[z].current # 0
                     PROVE  rev'[z][row[z].current] = rev[z][row[z].current]
            OBVIOUS
        <3>1. row[z].current \in 1..Len(rev[z])
            BY <1>2, <2>2 DEF TablesOK
        <3>2. QED
            BY <1>4, <1>5, <3>1
    <2>5. MirrorsCurrent'
        BY <2>1, <2>4 DEF TablesOK, MirrorsCurrent
    <2>6. QED
        BY <1>5, <1>6, <1>12, <2>1, <2>3, <2>5 DEF TablesOK
<1>9. CASE published
    <2>1. row' = Synced(s, n, body)
        BY <1>9, <1>13
    <2>2. /\ row' \in [Sets -> Rows] /\ row'[s].current = n
          /\ body.slug \in {NoSlug, row'[s].slug} /\ \A z \in Sets \ {s} : row'[z] = row[z]
        <3>1. row \in [Sets -> Rows] /\ n \in 0..MaxRevisions
            BY <1>7 DEF TablesOK
        <3>2. QED
            BY <2>1, <3>1, SyncedRow
    <2>3. \A z \in Sets : row'[z].current <= Len(rev'[z])
        <3>1. row'[s].current <= Len(rev'[s])
            BY <1>4, <1>5, <1>7, <2>2
        <3>2. \A z \in Sets : row[z].current <= Len(rev[z])
            BY DEF TablesOK
        <3>3. QED
            BY <1>5, <2>2, <3>1, <3>2
    <2>4. \A z \in Sets : row'[z].current # 0 =>
             /\ rev'[z][row'[z].current].published
             /\ rev'[z][row'[z].current].body.slug \in {NoSlug, row'[z].slug}
        <3>1. \A z \in Sets \ {s} : rev'[z] = rev[z] /\ row'[z] = row[z]
            BY <1>5, <2>2
        <3>2. rev'[s][row'[s].current] = new
            BY <1>4, <1>5, <2>2
        <3>3. QED
            BY <1>1, <1>9, <2>2, <3>1, <3>2 DEF TablesOK, MirrorsCurrent
    <2>5. QED
        BY <1>5, <1>6, <1>12, <2>2, <2>3, <2>4 DEF TablesOK, MirrorsCurrent
<1>10. QED
    BY <1>8, <1>9

(* A draft gets another body, or becomes published.                        *)
LEMMA ChangesDraft ==
    ASSUME TablesOK, NEW s \in Sets, NEW n \in 1..Len(rev[s]), NEW r \in Revisions,
           ~rev[s][n].published, rev' = [rev EXCEPT ![s][n] = r],
           \/ UNCHANGED row
           \/ r.published /\ row' = Synced(s, n, r.body)
    PROVE  TablesOK' /\ Grows
<1>1. rev[s] \in Seq(Revisions) /\ \A z \in Sets : Len(rev[z]) \in Nat
    BY LenProperties DEF TablesOK
<1> DEFINE new == [rev[s] EXCEPT ![n] = r]
<1>2. /\ new \in Seq(Revisions) /\ Len(new) = Len(rev[s]) /\ new[n] = r
      /\ \A m \in 1..Len(rev[s]) : m # n => new[m] = rev[s][m]
    BY <1>1, ExceptSeq
<1>3. rev' = [rev EXCEPT ![s] = new]
    OBVIOUS
<1> HIDE DEF new
<1>4. /\ rev' \in [Sets -> Seq(Revisions)]
      /\ rev'[s] = new /\ \A z \in Sets \ {s} : rev'[z] = rev[z]
    BY <1>2, <1>3 DEF TablesOK
<1>5. Grows
    BY <1>1, <1>2, <1>4 DEF Grows
<1>6. \A z \in Sets : row[z].current \in Nat
    BY PromptAssumption DEF TablesOK, Rows
<1>7. n \in 0..MaxRevisions /\ n \in Nat /\ r.body \in Bodies
    BY <1>1, PromptAssumption DEF TablesOK, Revisions
<1>8. CASE UNCHANGED row
    <2>1. \A z \in Sets : row[z].current # 0 =>
             rev'[z][row[z].current] = rev[z][row[z].current]
        <3> SUFFICES ASSUME NEW z \in Sets, row[z].current # 0
                     PROVE  rev'[z][row[z].current] = rev[z][row[z].current]
            OBVIOUS
        <3>1. rev[z][row[z].current].published
            BY DEF TablesOK, MirrorsCurrent
        <3>2. row[z].current \in 1..Len(rev[z])
            BY <1>1, <1>6 DEF TablesOK
        <3>3. z = s => row[z].current # n
            BY <3>1
        <3>4. QED
            BY <1>2, <1>4, <3>2, <3>3
    <2>2. MirrorsCurrent'
        BY <1>8, <2>1 DEF TablesOK, MirrorsCurrent
    <2>3. QED
        BY <1>2, <1>4, <1>5, <1>8, <2>2 DEF TablesOK
<1>9. CASE r.published /\ row' = Synced(s, n, r.body)
    <2>1. /\ row' \in [Sets -> Rows] /\ row'[s].current = n
          /\ r.body.slug \in {NoSlug, row'[s].slug} /\ \A z \in Sets \ {s} : row'[z] = row[z]
        BY <1>7, <1>9, SyncedRow DEF TablesOK
    <2>2. MirrorsCurrent'
        BY <1>2, <1>4, <1>9, <2>1 DEF TablesOK, MirrorsCurrent
    <2>3. \A z \in Sets : Len(rev'[z]) <= MaxRevisions /\ row'[z].current <= Len(rev'[z])
        BY <1>1, <1>2, <1>4, <1>7, <2>1 DEF TablesOK
    <2>4. QED
        BY <1>4, <1>5, <2>1, <2>2, <2>3 DEF TablesOK
<1>10. QED
    BY <1>8, <1>9

-----------------------------------------------------------------------------
(* Steps that write no table.                                              *)
LEMMA ReadPreserves ==
    ASSUME PublishedInv, NEW c \in Clients, UNCHANGED <<row, rev, ran>>, Leads(c),
           left' \in [Clients -> Nat], overtaken' \subseteq Clients
    PROVE  PublishedInv'
BY UntouchedTables, StepPreserves DEF PublishedInv

LEMMA EndLeads ==
    ASSUME TablesOK', NEW c \in Clients, Ends(c)
    PROVE  Leads(c)
<1>1. Blank.draft <= Len(rev'[Blank.set])
    BY BlankIsGood DEF TablesOK
<1>2. Shape(Blank)
    BY BlankIsCall DEF Shape
<1>3. QED
    BY <1>1, <1>2, BlankIsCall DEF Ends, Leads

LEMMA DraftlessLeads ==
    ASSUME TablesOK', NEW c \in Clients, NEW q \in Calls, call' = [call EXCEPT ![c] = q],
           q.draft = 0, q.op # "publish"
    PROVE  Leads(c)
<1>1. Len(rev'[q.set]) \in Nat
    BY LenProperties DEF TablesOK, Calls
<1>2. Shape(q) /\ q.draft <= Len(rev'[q.set])
    BY <1>1 DEF Shape
<1>3. QED
    BY <1>2 DEF Leads

LEMMA OverPreserves ==
    ASSUME PublishedInv, NEW c \in Clients, Over(c), UNCHANGED <<left, ran>>
    PROVE  PublishedInv'
<1>1. UNCHANGED <<row, rev>> /\ Ends(c) /\ overtaken' \subseteq Clients
    BY DEF Over, PublishedInv
<1>2. TablesOK'
    BY <1>1, UntouchedTables DEF PublishedInv
<1>3. QED
    BY <1>1, <1>2, EndLeads, ReadPreserves DEF PublishedInv

LEMMA AdvancePreserves ==
    ASSUME PublishedInv, NEW c \in Clients, NEW stage \in Stages, Advance(c, stage), Reads,
           UNCHANGED <<left, ran>>,
           \/ call[c].draft = 0 /\ call[c].op # "publish"
           \/ call[c].at = "slug" /\ stage = "write"
    PROVE  PublishedInv'
<1> DEFINE q == [call[c] EXCEPT !.at = stage]
<1>1. Good(call[c]) /\ call[c] \in Calls
    BY DEF PublishedInv, CallsOK
<1>2. /\ q \in Calls /\ q.at = stage
      /\ q.draft = call[c].draft /\ q.op = call[c].op /\ q.set = call[c].set
    BY <1>1 DEF Calls
<1>3. call' = [call EXCEPT ![c] = q]
    BY DEF Advance
<1> HIDE DEF q
<1>4. call[c].draft \in Nat /\ Len(rev[call[c].set]) \in Nat
    BY <1>1, PromptAssumption, LenProperties DEF Calls, PublishedInv, TablesOK
<1>5. Shape(q) /\ q.draft <= Len(rev'[q.set])
    BY <1>1, <1>2, <1>4 DEF Good, Shape, Reads
<1>6. Leads(c)
    BY <1>2, <1>3, <1>5 DEF Leads
<1>7. QED
    BY <1>6, ReadPreserves DEF Reads, PublishedInv

(* What a request in hand is, from the invariant.                          *)
LEMMA InHand ==
    ASSUME PublishedInv, NEW c \in Clients
    PROVE  /\ call[c] \in Calls /\ Shape(call[c]) /\ call[c].set \in Sets
           /\ call[c].body \in Bodies
           /\ call[c].draft \in 0..Len(rev[call[c].set])
           /\ rev[call[c].set] \in Seq(Revisions) /\ row[call[c].set] \in Rows
           /\ Len(rev[call[c].set]) \in 0..MaxRevisions
<1>1. Good(call[c]) /\ call[c] \in Calls /\ call[c].set \in Sets /\ call[c].body \in Bodies
      /\ call[c].draft \in Nat
    BY PromptAssumption DEF PublishedInv, CallsOK, Calls
<1>2. rev[call[c].set] \in Seq(Revisions) /\ row[call[c].set] \in Rows
      /\ Len(rev[call[c].set]) <= MaxRevisions
    BY <1>1 DEF PublishedInv, TablesOK
<1>3. Len(rev[call[c].set]) \in Nat
    BY <1>2, LenProperties
<1>4. QED
    BY <1>1, <1>2, <1>3, PromptAssumption DEF Good

LEMMA DraftProperties ==
    ASSUME NEW s \in Sets, rev[s] \in Seq(Revisions)
    PROVE  /\ Draft(s) \in 0..Len(rev[s])
           /\ Draft(s) # 0 => rev[s][Draft(s)] \in Revisions
<1>1. Len(rev[s]) \in Nat /\ (rev[s] # <<>> => Len(rev[s]) \in 1..Len(rev[s]))
    BY LenProperties, EmptySeq
<1>2. \A n \in 1..Len(rev[s]) : rev[s][n] \in Revisions
    BY ElementOfSeq
<1>3. QED
    BY <1>1, <1>2 DEF Draft

-----------------------------------------------------------------------------
(* One lemma for each kind of step: those that read.                       *)
LEMMA RequestPreserves ==
    ASSUME PublishedInv, NEW c \in Clients, Request(c)
    PROVE  PublishedInv'
<1>0. PICK op \in Ops : \E s \in SetsOf(op), b \in BodiesOf(op), base \in BasesOf(op) :
            call' = [call EXCEPT ![c] = [Blank EXCEPT !.op = op, !.at = Entry(op), !.set = s,
                                                      !.body = b, !.base = base]]
    BY DEF Request, Ops
<1>1. PICK s \in SetsOf(op), b \in BodiesOf(op), base \in BasesOf(op) :
            call' = [call EXCEPT ![c] = [Blank EXCEPT !.op = op, !.at = Entry(op), !.set = s,
                                                      !.body = b, !.base = base]]
    BY <1>0
<1>2. s \in Sets /\ b \in Bodies /\ base \in SUBSET (0..MaxRevisions)
    BY Arbitrary, PromptAssumption DEF SetsOf, BodiesOf, BasesOf
<1>3. Entry(op) \in Stages /\ (op = "publish" => Entry(op) = "draft")
    BY DEF Entry, Stages, AppOps
<1> DEFINE q == [Blank EXCEPT !.op = op, !.at = Entry(op), !.set = s, !.body = b, !.base = base]
<1>4. /\ q \in Calls /\ q.draft = 0 /\ q.op = op /\ q.at = Entry(op) /\ q.set = s
    BY <1>2, <1>3, BlankIsCall DEF Calls
<1>5. call' = [call EXCEPT ![c] = q]
    BY <1>1
<1> HIDE DEF q
<1>6. Len(rev[s]) \in Nat /\ UNCHANGED <<row, rev, overtaken, ran>>
    BY <1>2, LenProperties DEF PublishedInv, TablesOK, Request, Reads
<1>7. Leads(c)
    <2>1. Shape(q)
        BY <1>3, <1>4 DEF Shape
    <2>2. q.draft <= Len(rev'[q.set])
        BY <1>4, <1>6
    <2>3. QED
        BY <1>4, <1>5, <2>1, <2>2 DEF Leads
<1>8. left' \in [Clients -> Nat]
    BY DEF Request, PublishedInv
<1>9. QED
    BY <1>6, <1>7, <1>8, ReadPreserves DEF PublishedInv

LEMMA GetSetPreserves ==
    ASSUME PublishedInv, NEW c \in Clients, GetSet(c)
    PROVE  PublishedInv'
<1>1. call[c].at = "look" /\ call[c].draft = 0 /\ call[c].op # "publish"
    BY InHand DEF GetSet, Shape
<1>2. CASE Over(c)
    BY <1>2, OverPreserves DEF GetSet
<1>3. CASE ~Over(c)
    <2>1. Reads /\ UNCHANGED <<left, ran>>
          /\ (Advance(c, "write") \/ Advance(c, "draft") \/ Advance(c, "slug"))
        BY <1>3 DEF GetSet
    <2>2. QED
        BY <1>1, <2>1, AdvancePreserves DEF Stages
<1>4. QED
    BY <1>2, <1>3

LEMMA CheckSlugPreserves ==
    ASSUME PublishedInv, NEW c \in Clients, CheckSlug(c)
    PROVE  PublishedInv'
<1>1. CASE Over(c)
    BY <1>1, OverPreserves DEF CheckSlug
<1>2. CASE ~Over(c)
    <2>1. /\ call[c].at = "slug" /\ Reads /\ UNCHANGED <<left, ran>>
          /\ (call[c].op = "save" /\ Advance(c, "draft")) \/ Advance(c, "write")
        BY <1>2 DEF CheckSlug
    <2>2. call[c].op = "save" => call[c].draft = 0
        BY <2>1, InHand DEF Shape
    <2>3. QED
        BY <2>1, <2>2, AdvancePreserves DEF Stages
<1>3. QED
    BY <1>1, <1>2

LEMMA FindDraftPreserves ==
    ASSUME PublishedInv, NEW c \in Clients, FindDraft(c)
    PROVE  PublishedInv'
<1> DEFINE n == Draft(call[c].set)
           body == rev[call[c].set][n].body
           next == IF body.slug = NoSlug THEN "write" ELSE "slug"
           save == [call[c] EXCEPT !.draft = n, !.at = "write"]
           publish == [call[c] EXCEPT !.draft = n, !.body = body, !.at = next]
<1>1. /\ n \in 0..Len(rev[call[c].set]) /\ n \in 0..MaxRevisions
      /\ n # 0 => body \in Bodies
    <2>1. n \in 0..Len(rev[call[c].set]) /\ (n # 0 => rev[call[c].set][n] \in Revisions)
        BY InHand, DraftProperties
    <2>2. QED
        BY <2>1, InHand, PromptAssumption DEF Revisions
<1>2. call[c] \in Calls
    BY InHand
<1>3. CASE call[c].op # "publish"
    <2>1. /\ save \in Calls /\ save.draft = n /\ save.at = "write" /\ save.set = call[c].set
          /\ save.op = call[c].op
        BY <1>1, <1>2 DEF Calls, Stages
    <2>2. call' = [call EXCEPT ![c] = save] /\ Reads /\ UNCHANGED <<left, ran>>
        BY <1>3 DEF FindDraft
    <2> HIDE DEF save, n
    <2>3. Shape(save)
        BY <1>3, <2>1 DEF Shape
    <2>4. save.draft <= Len(rev'[save.set])
        BY <1>1, <2>1, <2>2 DEF Reads
    <2>5. Leads(c)
        BY <2>1, <2>2, <2>3, <2>4 DEF Leads
    <2>6. QED
        BY <2>2, <2>5, ReadPreserves DEF Reads, PublishedInv
<1>4. CASE call[c].op = "publish" /\ n # 0
    <2>1. /\ publish \in Calls /\ publish.draft = n /\ publish.at \in {"write", "slug"}
          /\ publish.set = call[c].set /\ publish.op = "publish"
        BY <1>1, <1>2, <1>4 DEF Calls, Stages
    <2>2. call' = [call EXCEPT ![c] = publish] /\ Reads /\ UNCHANGED <<left, ran>>
        BY <1>4 DEF FindDraft
    <2> HIDE DEF publish, n
    <2>3. Shape(publish)
        BY <1>4, <2>1 DEF Shape
    <2>4. publish.draft <= Len(rev'[publish.set])
        BY <1>1, <2>1, <2>2 DEF Reads
    <2>5. Leads(c)
        BY <2>1, <2>2, <2>3, <2>4 DEF Leads
    <2>6. QED
        BY <2>2, <2>5, ReadPreserves DEF Reads, PublishedInv
<1>5. CASE call[c].op = "publish" /\ n = 0
    BY <1>5, OverPreserves DEF FindDraft
<1>6. QED
    BY <1>3, <1>4, <1>5

LEMMA ImportPreserves ==
    ASSUME PublishedInv, NEW c \in Clients, Import(c)
    PROVE  PublishedInv'
<1>1. /\ call[c].at = "find" /\ call[c].op = "import" /\ Reads /\ UNCHANGED <<left, ran>>
      /\ call[c] \in Calls /\ call[c].draft = 0
    BY InHand DEF Import, Shape
<1>2. PICK q : /\ call' = [call EXCEPT ![c] = q] /\ q \in Calls
               /\ q.draft = 0 /\ q.op = "import"
    <2>1. CASE \E s \in Sets : call' = [call EXCEPT ![c].set = s, ![c].at = "draft"]
        <3>1. PICK s \in Sets : call' = [call EXCEPT ![c].set = s, ![c].at = "draft"]
            BY <2>1
        <3> DEFINE q == [call[c] EXCEPT !.set = s, !.at = "draft"]
        <3>2. q \in Calls /\ q.draft = 0 /\ q.op = "import"
            BY <1>1 DEF Calls, Stages
        <3>3. call' = [call EXCEPT ![c] = q]
            BY <3>1
        <3>4. QED
            BY <3>2, <3>3
    <2>2. CASE \E slug \in {call[c].body.slug, NoSlug} :
                 call' = [call EXCEPT ![c].at = "make", ![c].body.slug = slug]
        <3>1. PICK slug \in {call[c].body.slug, NoSlug} :
                    call' = [call EXCEPT ![c].at = "make", ![c].body.slug = slug]
            BY <2>2
        <3> DEFINE q == [call[c] EXCEPT !.at = "make", !.body.slug = slug]
        <3>2. [call[c].body EXCEPT !.slug = slug] \in Bodies
            BY <1>1 DEF Calls, Bodies
        <3>3. q \in Calls /\ q.draft = 0 /\ q.op = "import"
            BY <1>1, <3>2 DEF Calls, Stages
        <3>4. call' = [call EXCEPT ![c] = q]
            BY <3>1
        <3>5. QED
            BY <3>3, <3>4
    <2>3. QED
        BY <2>1, <2>2 DEF Import, BySlug
<1>3. TablesOK'
    BY <1>1, UntouchedTables DEF Reads, PublishedInv
<1>4. Leads(c)
    BY <1>2, <1>3, DraftlessLeads
<1>5. QED
    BY <1>1, <1>4, ReadPreserves DEF Reads, PublishedInv

LEMMA FindSlugPreserves ==
    ASSUME PublishedInv, NEW c \in Clients, FindSlug(c)
    PROVE  PublishedInv'
<1>1. /\ call[c].at \in {"find", "again"} /\ call[c].op \in AppOps /\ UNCHANGED <<left, ran>>
      /\ call[c] \in Calls /\ call[c].draft = 0
    BY InHand DEF FindSlug, Shape
<1>2. CASE \E s \in BySlug(call[c].body.slug) :
             /\ call' = [call EXCEPT ![c].set = s, ![c].seen = row[s], ![c].at = "check"]
             /\ overtaken' = overtaken \ {c} /\ UNCHANGED <<row, rev>>
    <2>1. PICK s \in Sets :
             /\ call' = [call EXCEPT ![c].set = s, ![c].seen = row[s], ![c].at = "check"]
             /\ overtaken' = overtaken \ {c} /\ UNCHANGED <<row, rev>>
        BY <1>2 DEF BySlug
    <2> DEFINE q == [call[c] EXCEPT !.set = s, !.seen = row[s], !.at = "check"]
    <2>2. row[s] \in Rows /\ Len(rev[s]) \in Nat
        BY LenProperties DEF PublishedInv, TablesOK
    <2>3. /\ q \in Calls /\ q.draft = 0 /\ q.op = call[c].op /\ q.at = "check" /\ q.set = s
        BY <1>1, <2>2 DEF Calls, Stages
    <2>4. call' = [call EXCEPT ![c] = q]
        BY <2>1
    <2> HIDE DEF q
    <2>5. TablesOK'
        BY <2>1, UntouchedTables DEF PublishedInv
    <2>6. Leads(c)
        BY <1>1, <2>3, <2>4, <2>5, DraftlessLeads DEF AppOps
    <2>7. QED
        BY <1>1, <2>1, <2>6, ReadPreserves DEF PublishedInv
<1>3. CASE Over(c)
    BY <1>1, <1>3, OverPreserves
<1>4. CASE Advance(c, "count") /\ Reads
    BY <1>1, <1>4, AdvancePreserves DEF Stages, AppOps
<1>5. QED
    BY <1>2, <1>3, <1>4 DEF FindSlug

LEMMA LimitsPreserve ==
    ASSUME PublishedInv, NEW c \in Clients, CountSets(c) \/ CheckApp(c) \/ CheckDay(c)
    PROVE  PublishedInv'
<1>1. /\ call[c].at \in {"count", "check", "day"} /\ UNCHANGED <<left, ran>>
      /\ \/ Over(c)
         \/ \E stage \in {"make", "look", "day", "write", "draft"} : Advance(c, stage) /\ Reads
    BY DEF CountSets, CheckApp, CheckDay
<1>2. call[c].draft = 0 /\ call[c].op # "publish"
    BY <1>1, InHand DEF Shape
<1>3. QED
    BY <1>1, <1>2, OverPreserves, AdvancePreserves DEF Stages

LEMMA GetRunSetPreserves ==
    ASSUME PublishedInv, NEW c \in Clients, GetRunSet(c)
    PROVE  PublishedInv'
<1> DEFINE q == [call[c] EXCEPT !.seen = row[call[c].set], !.at = "pick"]
<1>1. UNCHANGED <<left, ran>> /\ (Over(c) \/ (call' = [call EXCEPT ![c] = q] /\ Reads))
    BY DEF GetRunSet
<1>2. call[c].at = "look" /\ call[c].op = "run" /\ call[c].draft = 0 /\ call[c] \in Calls
      /\ row[call[c].set] \in Rows /\ Len(rev[call[c].set]) \in Nat
    BY InHand DEF GetRunSet, Shape
<1>3. q \in Calls /\ q.draft = 0 /\ q.op = "run" /\ q.set = call[c].set
    BY <1>2 DEF Calls, Stages
<1> HIDE DEF q
<1>4. CASE call' = [call EXCEPT ![c] = q] /\ Reads
    <2>1. Leads(c)
        BY <1>3, <1>4, UntouchedTables, DraftlessLeads DEF Reads, PublishedInv
    <2>2. QED
        BY <1>1, <1>4, <2>1, ReadPreserves DEF Reads, PublishedInv
<1>5. QED
    BY <1>1, <1>4, OverPreserves

(* A run is given what is published now.                                   *)
LEMMA GetRunRevisionPreserves ==
    ASSUME PublishedInv, NEW c \in Clients, GetRunRevision(c)
    PROVE  PublishedInv'
<1> DEFINE s == call[c].set
           wanted == {m \in Wanted(call[c]) \cap (1..Len(rev[s])) : rev[s][m].published}
<1>1. ran' = ran \cup {<<s, n, rev[s][n].body>> : n \in wanted}
    BY DEF GetRunRevision
<1>2. UNCHANGED <<row, rev, left>> /\ Ends(c) /\ overtaken' \subseteq Clients
    BY DEF GetRunRevision, Over, PublishedInv
<1>3. s \in Sets /\ rev[s] \in Seq(Revisions) /\ Len(rev[s]) \in 0..MaxRevisions
    BY InHand
<1>4. \A n \in wanted : /\ n \in 1..Len(rev[s]) /\ n \in 1..MaxRevisions
                       /\ rev[s][n].published /\ rev[s][n].body \in Bodies
    <2>1. \A n \in 1..Len(rev[s]) : rev[s][n] \in Revisions
        BY <1>3, ElementOfSeq
    <2>2. QED
        BY <1>3, <2>1, PromptAssumption DEF Revisions
<1> HIDE DEF s, wanted
<1>5. RunsOK'
    <2>1. \A x \in ran' : /\ x \in Sets \X (1..MaxRevisions) \X Bodies
                          /\ x[2] <= Len(rev[x[1]])
                          /\ rev[x[1]][x[2]].published /\ rev[x[1]][x[2]].body = x[3]
        <3>1. \A x \in ran : /\ x \in Sets \X (1..MaxRevisions) \X Bodies
                             /\ x[2] <= Len(rev[x[1]])
                             /\ rev[x[1]][x[2]].published /\ rev[x[1]][x[2]].body = x[3]
            BY DEF PublishedInv, RunsOK, RunsArePublished
        <3>2. \A n \in wanted : n <= Len(rev[s])
            BY <1>3, <1>4
        <3>3. \A x \in {<<s, n, rev[s][n].body>> : n \in wanted} :
                          /\ x \in Sets \X (1..MaxRevisions) \X Bodies
                          /\ x[2] <= Len(rev[x[1]])
                          /\ rev[x[1]][x[2]].published /\ rev[x[1]][x[2]].body = x[3]
            BY <1>3, <1>4, <3>2
        <3>4. QED
            BY <1>1, <3>1, <3>3
    <2>2. QED
        BY <1>2, <2>1 DEF RunsOK, RunsArePublished
<1>6. TablesOK' /\ Grows
    BY <1>2, UntouchedTables DEF PublishedInv
<1>7. CallsOK'
    BY <1>2, <1>6, EndLeads, GrowsKeepsCalls DEF PublishedInv
<1>8. QED
    BY <1>2, <1>5, <1>6, <1>7 DEF PublishedInv

-----------------------------------------------------------------------------
(* The steps that write.                                                   *)
LEMMA CreateSetPreserves ==
    ASSUME PublishedInv, NEW c \in Clients, CreateSet(c)
    PROVE  PublishedInv'
<1>1. /\ call[c].at = "make" /\ UNCHANGED <<left, ran>> /\ call[c].body \in Bodies
      /\ call[c] \in Calls /\ call[c].draft = 0 /\ call[c].op # "publish"
    BY InHand DEF CreateSet, Shape
<1>2. CASE Over(c)
    BY <1>1, <1>2, OverPreserves
<1>3. CASE Advance(c, "again") /\ Reads
    BY <1>1, <1>3, AdvancePreserves DEF Stages
<1>4. CASE \E s \in Sets, stage \in {"draft", "write"}, managed \in {"builder", "application"} :
             /\ InsertSet(s, call[c].body.slug, managed)
             /\ call' = [call EXCEPT ![c].set = s, ![c].draft = 0, ![c].at = stage]
             /\ overtaken' = overtaken \ {c} /\ UNCHANGED rev
    <2>1. PICK s \in Sets, stage \in {"draft", "write"}, managed \in {"builder", "application"} :
             /\ InsertSet(s, call[c].body.slug, managed)
             /\ call' = [call EXCEPT ![c].set = s, ![c].draft = 0, ![c].at = stage]
             /\ overtaken' = overtaken \ {c} /\ UNCHANGED rev
        BY <1>4
    <2> DEFINE q == [call[c] EXCEPT !.set = s, !.draft = 0, !.at = stage]
               r == [Absent EXCEPT !.there = TRUE, !.slug = call[c].body.slug,
                                   !.managed = managed]
    <2>2. q \in Calls /\ q.draft = 0 /\ q.op = call[c].op /\ q.set = s
        BY <1>1, PromptAssumption DEF Calls, Stages
    <2>3. call' = [call EXCEPT ![c] = q]
        BY <2>1
    <2>4. r \in Rows /\ r.current = 0
        BY <1>1, AbsentIsRow DEF Rows, Absent, Bodies
    <2>5. row' = [row EXCEPT ![s] = r]
        BY <2>1 DEF InsertSet
    <2> HIDE DEF q, r
    <2>6. TablesOK' /\ Grows
        BY <2>1, <2>4, <2>5, RowsOnly DEF PublishedInv
    <2>7. Leads(c)
        BY <1>1, <2>2, <2>3, <2>6, DraftlessLeads
    <2>8. QED
        BY <1>1, <2>1, <2>6, <2>7, StepPreserves DEF PublishedInv
<1>5. QED
    <2>1. CASE BySlug(call[c].body.slug) # {}
        BY <1>2, <1>3, <2>1 DEF CreateSet
    <2>2. CASE BySlug(call[c].body.slug) = {}
        <3> DEFINE free == {s \in Sets : ~row[s].there}
                   t == CHOOSE r \in free : TRUE
        <3>1. t \in Sets
            BY <2>2 DEF CreateSet
        <3>2. QED
            BY <1>4, <2>2, <3>1 DEF CreateSet
    <2>3. QED
        BY <2>1, <2>2

(* A write and the end of its request.                                     *)
LEMMA WritePreserves ==
    ASSUME PublishedInv, TablesOK', Grows, NEW c \in Clients, WritesTo(c, call[c].set),
           UNCHANGED <<left, ran>>
    PROVE  PublishedInv'
<1>1. Ends(c) /\ overtaken' \subseteq Clients
    BY DEF WritesTo, PublishedInv
<1>2. QED
    BY <1>1, EndLeads, StepPreserves DEF PublishedInv

LEMMA WriteDraftPreserves ==
    ASSUME PublishedInv, NEW c \in Clients, WriteDraft(c)
    PROVE  PublishedInv'
<1> DEFINE s == call[c].set
           n == call[c].draft
           r == [rev[s][n] EXCEPT !.body = call[c].body]
<1>1. /\ s \in Sets /\ call[c].body \in Bodies /\ n \in 0..Len(rev[s])
      /\ rev[s] \in Seq(Revisions) /\ Len(rev[s]) \in Nat
    BY InHand
<1>2. CASE n = 0
    <2>1. AddRevision(s, call[c].body, FALSE, call[c].op = "appdraft")
        BY <1>2 DEF WriteDraft
    <2>2. (call[c].op = "appdraft") \in BOOLEAN
        OBVIOUS
    <2>3. TablesOK' /\ Grows
        BY <1>1, <2>1, <2>2, AddsRevision DEF PublishedInv
    <2>4. QED
        BY <2>3, WritePreserves DEF WriteDraft
<1>3. CASE n # 0 /\ rev[s][n].published
    <2>1. UNCHANGED <<row, rev>>
        BY <1>3 DEF WriteDraft, UpdateDraft
    <2>2. QED
        BY <2>1, UntouchedTables, WritePreserves DEF WriteDraft, PublishedInv
<1>4. CASE n # 0 /\ ~rev[s][n].published
    <2>1. n \in 1..Len(rev[s])
        BY <1>1, <1>4
    <2>2. r \in Revisions
        <3>1. rev[s][n] \in Revisions
            BY <1>1, <2>1, ElementOfSeq
        <3>2. QED
            BY <1>1, <3>1 DEF Revisions
    <2>3. rev' = [rev EXCEPT ![s][n] = r] /\ UNCHANGED row
        BY <1>4 DEF WriteDraft, UpdateDraft
    <2> HIDE DEF r
    <2>4. TablesOK' /\ Grows
        BY <1>1, <1>4, <2>1, <2>2, <2>3, ChangesDraft DEF PublishedInv
    <2>5. QED
        BY <2>4, WritePreserves DEF WriteDraft
<1>5. QED
    BY <1>2, <1>3, <1>4

LEMMA PublishPreserves ==
    ASSUME PublishedInv, NEW c \in Clients, Publish(c)
    PROVE  PublishedInv'
<1> DEFINE s == call[c].set
           n == call[c].draft
           r == [rev[s][n] EXCEPT !.published = TRUE]
<1>1. /\ s \in Sets /\ n \in 1..Len(rev[s]) /\ rev[s] \in Seq(Revisions)
    BY InHand DEF Publish, Shape
<1>2. CASE Over(c)
    BY <1>2, OverPreserves DEF Publish
<1>3. CASE PublishRevision(s, n, call[c].body) /\ WritesTo(c, s)
    <2>1. CASE rev[s][n].published
        BY <1>3, <2>1, UntouchedTables, WritePreserves DEF Publish, PublishRevision, PublishedInv
    <2>2. CASE ~rev[s][n].published
        <3>1. r \in Revisions /\ r.published /\ r.body = rev[s][n].body
            <4>1. rev[s][n] \in Revisions
                BY <1>1, ElementOfSeq
            <4>2. QED
                BY <4>1 DEF Revisions
        <3>2. rev' = [rev EXCEPT ![s][n] = r] /\ row' = Synced(s, n, r.body)
            BY <1>3, <2>2, <3>1 DEF PublishRevision
        <3> HIDE DEF r
        <3>3. TablesOK' /\ Grows
            BY <1>1, <2>2, <3>1, <3>2, ChangesDraft DEF PublishedInv
        <3>4. QED
            BY <1>3, <3>3, WritePreserves DEF Publish
    <2>3. QED
        BY <2>1, <2>2
<1>4. QED
    BY <1>2, <1>3 DEF Publish

LEMMA AppPublishPreserves ==
    ASSUME PublishedInv, NEW c \in Clients, AppPublish(c)
    PROVE  PublishedInv'
<1>1. CASE Over(c)
    BY <1>1, OverPreserves DEF AppPublish
<1>2. CASE AddRevision(call[c].set, call[c].body, TRUE, TRUE) /\ WritesTo(c, call[c].set)
    <2>1. TablesOK' /\ Grows
        BY <1>2, InHand, AddsRevision DEF PublishedInv
    <2>2. QED
        BY <1>2, <2>1, WritePreserves DEF AppPublish
<1>3. QED
    BY <1>1, <1>2 DEF AppPublish

LEMMA UpdatePreserves ==
    ASSUME PublishedInv, NEW c \in Clients, Retire(c) \/ SetControl(c)
    PROVE  PublishedInv'
<1> DEFINE s == call[c].set
<1>1. s \in Sets /\ row[s] \in Rows
    BY InHand
<1>2. PICK r : /\ row' = [row EXCEPT ![s] = r] /\ r \in Rows
               /\ r.current = row[s].current /\ r.slug = row[s].slug
    <2>1. CASE Retire(c)
        <3> DEFINE r == [row[s] EXCEPT !.active = FALSE]
        <3>1. row' = [row EXCEPT ![s] = r]
            BY <2>1 DEF Retire, UpdateSet
        <3>2. r \in Rows /\ r.current = row[s].current /\ r.slug = row[s].slug
            BY <1>1 DEF Rows
        <3>3. QED
            BY <3>1, <3>2
    <2>2. CASE SetControl(c)
        <3>1. PICK managed \in {"builder", "application"}, locked \in BOOLEAN :
                row' = [row EXCEPT ![s] = [row[s] EXCEPT !.managed = managed, !.locked = locked]]
            BY <2>2 DEF SetControl, UpdateSet
        <3> DEFINE r == [row[s] EXCEPT !.managed = managed, !.locked = locked]
        <3>2. r \in Rows /\ r.current = row[s].current /\ r.slug = row[s].slug
            BY <1>1 DEF Rows
        <3>3. QED
            BY <3>1, <3>2
    <2>3. QED
        BY <2>1, <2>2
<1>3. UNCHANGED rev /\ WritesTo(c, s) /\ UNCHANGED <<left, ran>>
    BY DEF Retire, SetControl, UpdateSet
<1>4. TablesOK' /\ Grows
    BY <1>1, <1>2, <1>3, RowsOnly DEF PublishedInv
<1>5. QED
    BY <1>3, <1>4, WritePreserves

-----------------------------------------------------------------------------
LEMMA PublishedInit == PromptInit => PublishedInv
<1> SUFFICES ASSUME PromptInit PROVE PublishedInv
    OBVIOUS
<1>1. /\ row \in [Sets -> Rows] /\ rev \in [Sets -> Seq(Revisions)]
      /\ \A s \in Sets : \/ row[s].current = 0 /\ rev[s] = <<>>
                         \/ /\ row[s].current = 1 /\ Len(rev[s]) = 1
                            /\ rev[s][1].published /\ rev[s][1].body.slug = row[s].slug
    <2>1. CASE row = [s \in Sets |-> Absent] /\ rev = [s \in Sets |-> <<>>]
        <3>1. Absent.current = 0 /\ <<>> \in Seq(Revisions)
            BY EmptySeq DEF Absent
        <3>2. QED
            BY <2>1, <3>1, AbsentIsRow
    <2>2. CASE \E managed \in {"builder", "application"} : First(managed)
        <3>1. PICK managed \in {"builder", "application"} : First(managed)
            BY <2>2
        <3> DEFINE r == [Absent EXCEPT !.there = TRUE, !.slug = AnyBody.slug,
                                       !.managed = managed, !.current = 1]
                   v == [body |-> AnyBody, published |-> TRUE, app |-> managed = "application"]
        <3>2. r \in Rows /\ r.current = 1 /\ r.slug = AnyBody.slug
            <4>1. AnyBody.slug \in Slugs \cup {NoSlug} /\ 1 \in 0..MaxRevisions
                BY Arbitrary, PromptAssumption DEF Bodies
            <4>2. QED
                BY <4>1 DEF Rows, Absent
        <3>3. v \in Revisions /\ v.published /\ v.body = AnyBody
            BY Arbitrary DEF Revisions
        <3>4. /\ row = [z \in Sets |-> IF z # AnySet THEN Absent ELSE r]
              /\ rev = [z \in Sets |-> IF z # AnySet THEN <<>> ELSE <<v>>]
            BY <3>1 DEF First
        <3> HIDE DEF r, v
        <3>5. <<v>> \in Seq(Revisions) /\ Len(<<v>>) = 1 /\ <<v>>[1] = v
            BY <3>3
        <3>6. Absent.current = 0 /\ <<>> \in Seq(Revisions)
            BY EmptySeq DEF Absent
        <3>7. QED
            BY <3>2, <3>3, <3>4, <3>5, <3>6, AbsentIsRow
    <2>3. QED
        BY <2>1, <2>2 DEF PromptInit
<1>2. TablesOK
    <2>1. \A s \in Sets : Len(rev[s]) <= MaxRevisions /\ row[s].current <= Len(rev[s])
        <3> SUFFICES ASSUME NEW s \in Sets
                     PROVE  Len(rev[s]) <= MaxRevisions /\ row[s].current <= Len(rev[s])
            OBVIOUS
        <3>1. CASE rev[s] = <<>> /\ row[s].current = 0
            BY <3>1, PromptAssumption
        <3>2. CASE Len(rev[s]) = 1 /\ row[s].current = 1
            BY <3>2, PromptAssumption
        <3>3. QED
            BY <1>1, <3>1, <3>2
    <2>2. MirrorsCurrent
        BY <1>1 DEF MirrorsCurrent
    <2>3. QED
        BY <1>1, <2>1, <2>2 DEF TablesOK
<1>3. CallsOK
    <2>1. Shape(Blank)
        BY BlankIsCall DEF Shape
    <2>2. QED
        BY <1>1, <2>1, BlankIsCall, BlankIsGood DEF PromptInit, CallsOK, Good
<1>4. RunsOK
    BY DEF PromptInit, RunsOK, RunsArePublished
<1>5. left \in [Clients -> Nat] /\ overtaken \subseteq Clients
    BY PromptAssumption DEF PromptInit, Mix
<1>6. QED
    BY <1>2, <1>3, <1>4, <1>5 DEF PublishedInv

LEMMA PublishedNext == PublishedInv /\ [PromptNext]_promptVars => PublishedInv'
<1> SUFFICES ASSUME PublishedInv, [PromptNext]_promptVars PROVE PublishedInv'
    OBVIOUS
<1>1. ASSUME NEW c \in Clients, Serve(c) PROVE PublishedInv'
    <2>1. CASE Request(c)
        BY <2>1, RequestPreserves
    <2>2. CASE GetSet(c) \/ CheckSlug(c) \/ FindDraft(c)
        BY <2>2, GetSetPreserves, CheckSlugPreserves, FindDraftPreserves
    <2>3. CASE CreateSet(c) \/ Import(c) \/ FindSlug(c)
        BY <2>3, CreateSetPreserves, ImportPreserves, FindSlugPreserves
    <2>4. CASE CountSets(c) \/ CheckApp(c) \/ CheckDay(c)
        BY <2>4, LimitsPreserve
    <2>5. CASE WriteDraft(c) \/ Publish(c) \/ AppPublish(c) \/ Retire(c) \/ SetControl(c)
        BY <2>5, WriteDraftPreserves, PublishPreserves, AppPublishPreserves, UpdatePreserves
    <2>6. CASE GetRunSet(c) \/ GetRunRevision(c)
        BY <2>6, GetRunSetPreserves, GetRunRevisionPreserves
    <2>7. QED
        BY <1>1, <2>1, <2>2, <2>3, <2>4, <2>5, <2>6 DEF Serve
<1>2. CASE UNCHANGED promptVars
    BY <1>2 DEF promptVars, PublishedInv, TablesOK, CallsOK, RunsOK, Good, Shape,
                MirrorsCurrent, RunsArePublished
<1>3. QED
    BY <1>1, <1>2 DEF PromptNext

(* Publication is for good: what a run was given is published and has the  *)
(* same words ever after, and a set's row mirrors a published revision,    *)
(* however requests interleave between their transactions                  *)
(* (headless/promptset_service.py, PromptSetStore).                        *)
THEOREM PublicationIsForGood == PromptSpec => []PublishedStays
<1>1. PublishedInv => PublishedStays
    BY DEF PublishedInv, TablesOK, RunsOK, PublishedStays
<1>2. QED
    BY <1>1, PublishedInit, PublishedNext, PTL DEF PromptSpec

-----------------------------------------------------------------------------
(* PromptSets: what applications may do.                                   *)
AppRevs(s) == {n \in 1..Len(rev[s]) : rev[s][n].app}

(* The applications let in, that may still add a revision to the set.      *)
Admitted(s) ==
    {c \in Apps : call[c].op \in {"app", "appdraft"} /\ call[c].at \in {"draft", "write"}
                      /\ call[c].set = s}

(* A request that adds revisions has a set to add to; an application's     *)
(* request, while nobody wrote to the set since, has read it as it is and  *)
(* is let on to a publication only if it is open.                          *)
Justified(c) ==
    LET q == call[c] IN
    /\ q.op \in {"create", "save", "import", "app", "appdraft"}
           /\ q.at \in {"slug", "draft", "write", "check", "day"} => row[q.set].there
    /\ q.op \in AppOps => c \in Apps
    /\ q.op \in {"app", "appdraft"} =>
           /\ q.at \notin {"look", "slug"}
           /\ q.at \in {"find", "count", "make"} => ~q.seen.there
    /\ q.op = "app" =>
           /\ q.at # "draft"
           /\ c \notin overtaken => /\ q.at = "check" => q.seen = row[q.set]
                                    /\ q.at \in {"day", "write"} => OpenTo(q)

RevisionsHaveSets == \A s \in Sets : rev[s] # <<>> => row[s].there

RoomForAdmitted(s) ==
    Cardinality(AppRevs(s)) + Cardinality(Admitted(s)) < PerDay + Cardinality(Apps)

AppsInv ==
    /\ RevisionsHaveSets /\ (\A c \in Clients : Justified(c)) /\ (\A s \in Sets : RoomForAdmitted(s))

LEMMA CountTypes ==
    ASSUME PublishedInv, NEW s \in Sets
    PROVE  /\ IsFiniteSet(AppRevs(s)) /\ Cardinality(AppRevs(s)) \in Nat
           /\ Cardinality(AppRevs(s)) <= Len(rev[s])
           /\ IsFiniteSet(Admitted(s)) /\ Cardinality(Admitted(s)) \in Nat
           /\ Cardinality(Admitted(s)) <= Cardinality(Apps) /\ Cardinality(Apps) \in Nat
<1>1. Len(rev[s]) \in Nat
    BY LenProperties DEF PublishedInv, TablesOK
<1>2. IsFiniteSet(1..Len(rev[s])) /\ Cardinality(1..Len(rev[s])) = Len(rev[s])
    BY <1>1, FS_Interval
<1>3. /\ IsFiniteSet(AppRevs(s)) /\ Cardinality(AppRevs(s)) \in Nat
      /\ Cardinality(AppRevs(s)) <= Len(rev[s])
    BY <1>2, FS_Subset, FS_CardinalityType DEF AppRevs
<1>4. /\ IsFiniteSet(Admitted(s)) /\ Cardinality(Admitted(s)) \in Nat
      /\ Cardinality(Admitted(s)) <= Cardinality(Apps) /\ Cardinality(Apps) \in Nat
    BY PromptAssumption, FS_Subset, FS_CardinalityType DEF Admitted
<1>5. QED
    BY <1>3, <1>4

(* Few revisions leave room for every application.                         *)
LEMMA FewRevisions ==
    ASSUME PublishedInv', NEW s \in Sets, Len(rev'[s]) < PerDay
    PROVE  RoomForAdmitted(s)'
<1>1. /\ Cardinality(AppRevs(s))' \in Nat /\ Cardinality(AppRevs(s))' <= Len(rev'[s])
      /\ Cardinality(Admitted(s))' \in Nat /\ Cardinality(Admitted(s))' <= Cardinality(Apps)
      /\ Cardinality(Apps) \in Nat /\ Len(rev'[s]) \in Nat /\ PerDay \in Nat
    <2>1. Len(rev'[s]) \in Nat
        BY LenProperties DEF PublishedInv, TablesOK
    <2>2. IsFiniteSet(1..Len(rev'[s])) /\ Cardinality(1..Len(rev'[s])) = Len(rev'[s])
        BY <2>1, FS_Interval
    <2>3. AppRevs(s)' \subseteq 1..Len(rev'[s])
        BY DEF AppRevs
    <2>4. Cardinality(AppRevs(s)') \in Nat /\ Cardinality(AppRevs(s)') <= Len(rev'[s])
        BY <2>2, <2>3, FS_Subset, FS_CardinalityType
    <2>5. Admitted(s)' \subseteq Apps
        BY DEF Admitted
    <2>6. /\ Cardinality(Admitted(s)') \in Nat /\ Cardinality(Admitted(s)') <= Cardinality(Apps)
          /\ Cardinality(Apps) \in Nat
        BY <2>5, PromptAssumption, FS_Subset, FS_CardinalityType
    <2>7. QED
        BY <2>1, <2>4, <2>6, PromptAssumption
<1>2. QED
    BY <1>1 DEF RoomForAdmitted

LEMMA NoMoreAdmitted ==
    ASSUME PublishedInv, NEW s \in Sets, RoomForAdmitted(s), AppRevs(s)' = AppRevs(s),
           Admitted(s)' \subseteq Admitted(s)
    PROVE  RoomForAdmitted(s)'
<1>1. /\ Cardinality(Admitted(s)') \in Nat /\ Cardinality(Admitted(s)') <= Cardinality(Admitted(s))
      /\ Cardinality(Admitted(s)) \in Nat /\ Cardinality(AppRevs(s)) \in Nat
    BY CountTypes, FS_Subset, FS_CardinalityType
<1>2. Cardinality(Apps) \in Nat /\ PerDay \in Nat
    BY CountTypes, PromptAssumption
<1>3. QED
    BY <1>1, <1>2 DEF RoomForAdmitted

(* One that was let in adds its revision.                                  *)
LEMMA AdmittedAdds ==
    ASSUME PublishedInv, NEW s \in Sets, RoomForAdmitted(s), NEW n, AppRevs(s)' \subseteq AppRevs(s) \cup {n},
           NEW c \in Admitted(s), Admitted(s)' \subseteq Admitted(s) \ {c}
    PROVE  RoomForAdmitted(s)'
<1>1. /\ IsFiniteSet(AppRevs(s)) /\ Cardinality(AppRevs(s)) \in Nat
      /\ IsFiniteSet(Admitted(s)) /\ Cardinality(Admitted(s)) \in Nat
      /\ Cardinality(Apps) \in Nat /\ PerDay \in Nat
    BY CountTypes, PromptAssumption
<1>2. /\ IsFiniteSet(Admitted(s) \ {c})
      /\ Cardinality(Admitted(s) \ {c}) = Cardinality(Admitted(s)) - 1
    BY <1>1, FS_RemoveElement
<1>3. Cardinality(Admitted(s)') \in Nat /\ Cardinality(Admitted(s)') <= Cardinality(Admitted(s)) - 1
    BY <1>2, FS_Subset, FS_CardinalityType
<1>4. /\ IsFiniteSet(AppRevs(s) \cup {n})
      /\ Cardinality(AppRevs(s) \cup {n}) <= Cardinality(AppRevs(s)) + 1
      /\ Cardinality(AppRevs(s) \cup {n}) \in Nat
    <2>1. CASE n \in AppRevs(s)
        <3>1. AppRevs(s) \cup {n} = AppRevs(s)
            BY <2>1
        <3>2. /\ Cardinality(AppRevs(s) \cup {n}) = Cardinality(AppRevs(s))
              /\ IsFiniteSet(AppRevs(s) \cup {n})
            BY <1>1, <3>1
        <3>3. QED
            BY <1>1, <3>2
    <2>2. CASE n \notin AppRevs(s)
        <3>1. /\ IsFiniteSet(AppRevs(s) \cup {n})
              /\ Cardinality(AppRevs(s) \cup {n}) = Cardinality(AppRevs(s)) + 1
            BY <1>1, <2>2, FS_AddElement
        <3>2. QED
            BY <1>1, <3>1
    <2>3. QED
        BY <2>1, <2>2
<1>5. Cardinality(AppRevs(s)') \in Nat /\ Cardinality(AppRevs(s)') <= Cardinality(AppRevs(s)) + 1
    BY <1>4, <1>1, FS_Subset, FS_CardinalityType
<1>6. QED
    BY <1>1, <1>3, <1>5 DEF RoomForAdmitted

(* The others' requests, when one client moves.                            *)
LEMMA OthersJustified ==
    ASSUME PublishedInv, AppsInv, NEW c \in Clients, Justified(c)',
           \A d \in Clients : d # c => call'[d] = call[d],
           \A s \in Sets : row[s].there => row'[s].there,
           \A d \in Clients : d # c /\ d \notin overtaken' =>
               /\ d \notin overtaken
               /\ call[d].at \in {"check", "day", "write"} /\ call[d].op = "app" =>
                      row'[call[d].set] = row[call[d].set]
    PROVE  \A d \in Clients : Justified(d)'
<1> SUFFICES ASSUME NEW d \in Clients, d # c PROVE Justified(d)'
    OBVIOUS
<1>1. call[d].set \in Sets /\ call'[d] = call[d] /\ Justified(d)
    BY InHand DEF AppsInv
<1>2. ASSUME call[d].op = "app", d \notin overtaken'
      PROVE  /\ call[d].at = "check" => call[d].seen = row'[call[d].set]
             /\ call[d].at \in {"day", "write"} => OpenTo(call[d])'
    BY <1>1, <1>2 DEF Justified, OpenTo
<1>3. QED
    BY <1>1, <1>2 DEF Justified

(* A step that writes no table, and lets nobody in.                        *)
LEMMA ReadingOn ==
    ASSUME PublishedInv, PublishedInv', AppsInv, NEW c \in Clients, UNCHANGED <<row, rev>>,
           \A d \in Clients : d # c => call'[d] = call[d], overtaken \subseteq overtaken' \cup {c},
           Justified(c)', \A s \in Sets : c \in Admitted(s)' => c \in Admitted(s) \/ Len(rev[s]) < PerDay
    PROVE  AppsInv'
<1>1. \A d \in Clients : Justified(d)'
    BY OthersJustified
<1>2. RevisionsHaveSets'
    BY DEF AppsInv, RevisionsHaveSets
<1>3. ASSUME NEW s \in Sets PROVE RoomForAdmitted(s)'
    <2>1. CASE c \in Admitted(s)' /\ c \notin Admitted(s)
        BY <2>1, FewRevisions
    <2>2. CASE ~(c \in Admitted(s)' /\ c \notin Admitted(s))
        <3>1. Admitted(s)' \subseteq Admitted(s)
            <4>1. \A d \in Apps : d # c /\ d \in Admitted(s)' => d \in Admitted(s)
                BY DEF Admitted, Clients
            <4>2. Admitted(s)' \subseteq Apps
                BY DEF Admitted
            <4>3. QED
                BY <2>2, <4>1, <4>2
        <3>2. AppRevs(s)' = AppRevs(s)
            BY DEF AppRevs
        <3>3. QED
            BY <3>1, <3>2, NoMoreAdmitted DEF AppsInv
    <2>3. QED
        BY <2>1, <2>2
<1>4. QED
    BY <1>1, <1>2, <1>3 DEF AppsInv

LEMMA EndIsJustified ==
    ASSUME PublishedInv, NEW c \in Clients, Ends(c)
    PROVE  /\ Justified(c)' /\ \A d \in Clients : d # c => call'[d] = call[d]
           /\ \A s \in Sets : c \notin Admitted(s)'
<1>1. call'[c] = Blank /\ \A d \in Clients : d # c => call'[d] = call[d]
    BY DEF Ends, PublishedInv, CallsOK
<1>2. QED
    BY <1>1, BlankIsCall DEF Justified, Admitted, AppOps

LEMMA OverIsJustified ==
    ASSUME PublishedInv, PublishedInv', AppsInv, NEW c \in Clients, Over(c)
    PROVE  AppsInv'
BY EndIsJustified, ReadingOn DEF Over

(* A request goes on to another stage, with what it has.                   *)
LEMMA AdvanceIsJustified ==
    ASSUME PublishedInv, PublishedInv', AppsInv, NEW c \in Clients, NEW stage \in Stages,
           Advance(c, stage), Reads,
           call[c].op \in {"create", "save", "import", "app", "appdraft"}
               /\ stage \in {"slug", "draft", "write", "check", "day"} => row[call[c].set].there,
           call[c].op \in {"app", "appdraft"} =>
               /\ stage \notin {"look", "slug", "find", "check"}
               /\ stage \in {"count", "make"} => ~call[c].seen.there
               /\ stage \in {"draft", "write"} => Len(rev[call[c].set]) < PerDay,
           call[c].op = "app" =>
               stage # "draft" /\ (stage \in {"day", "write"} /\ c \notin overtaken => OpenTo(call[c]))
    PROVE  AppsInv'
<1>1. call[c] \in Calls /\ call[c].set \in Sets /\ Justified(c)
    BY InHand DEF AppsInv
<1>2. /\ call'[c].at = stage /\ call'[c].op = call[c].op /\ call'[c].set = call[c].set
      /\ call'[c].seen = call[c].seen /\ call'[c].base = call[c].base
      /\ \A d \in Clients : d # c => call'[d] = call[d]
    BY <1>1 DEF Advance, PublishedInv, CallsOK, Calls
<1>3. UNCHANGED <<row, rev, overtaken>>
    BY DEF Reads
<1>4. Justified(c)'
    BY <1>1, <1>2, <1>3 DEF Justified, OpenTo
<1>5. \A s \in Sets : c \in Admitted(s)' => Len(rev[s]) < PerDay
    BY <1>2 DEF Admitted
<1>6. QED
    BY <1>2, <1>3, <1>4, <1>5, ReadingOn

(* The steps that read.                                                    *)
LEMMA RequestIsJustified ==
    ASSUME PublishedInv, PublishedInv', AppsInv, NEW c \in Clients, Request(c)
    PROVE  AppsInv'
<1>1. PICK op \in IF c \in Editors THEN EditorOps ELSE IF c \in Apps THEN AppOps ELSE {"run"} :
          \E s \in SetsOf(op), b \in BodiesOf(op), base \in BasesOf(op) :
            call' = [call EXCEPT ![c] = [Blank EXCEPT !.op = op, !.at = Entry(op), !.set = s,
                                                      !.body = b, !.base = base]]
    BY DEF Request
<1>2. PICK s \in SetsOf(op), b \in BodiesOf(op), base \in BasesOf(op) :
            call' = [call EXCEPT ![c] = [Blank EXCEPT !.op = op, !.at = Entry(op), !.set = s,
                                                      !.body = b, !.base = base]]
    BY <1>1
<1> DEFINE q == [Blank EXCEPT !.op = op, !.at = Entry(op), !.set = s, !.body = b, !.base = base]
<1>3. q.op = op /\ q.at = Entry(op) /\ q.seen = Absent
    BY DEF Blank
<1>4. call' = [call EXCEPT ![c] = q]
    BY <1>2
<1> HIDE DEF q
<1>5. call'[c] = q /\ (\A d \in Clients : d # c => call'[d] = call[d]) /\ Reads
    BY <1>4 DEF PublishedInv, CallsOK, Request
<1>6. /\ op \in AppOps => c \in Apps
      /\ op \in {"app", "appdraft"} => Entry(op) = "find"
      /\ op \in {"create", "save", "import"} => Entry(op) \in {"make", "look", "find"}
    BY <1>1 DEF EditorOps, AppOps, Entry
<1>7. Justified(c)'
    BY <1>3, <1>5, <1>6 DEF Justified, Absent, AppOps
<1>8. \A s0 \in Sets : c \notin Admitted(s0)'
    BY <1>3, <1>5, <1>6 DEF Admitted
<1>9. QED
    BY <1>5, <1>7, <1>8, ReadingOn DEF Reads

LEMMA LooksAreJustified ==
    ASSUME PublishedInv, PublishedInv', AppsInv, NEW c \in Clients, GetSet(c) \/ CheckSlug(c)
    PROVE  AppsInv'
<1>1. CASE Over(c)
    BY <1>1, OverIsJustified
<1>2. CASE ~Over(c)
    <2>1. Justified(c) /\ call[c].op \notin {"app", "appdraft"}
        BY DEF AppsInv, Justified, GetSet, CheckSlug
    <2>2. PICK stage \in {"write", "draft", "slug"} :
            /\ Advance(c, stage) /\ Reads
            /\ call[c].op \in {"create", "save", "import"} => row[call[c].set].there
        <3>1. CASE GetSet(c)
            <4>1. row[call[c].set].there /\ Reads
                BY <1>2, <3>1 DEF GetSet
            <4>2. Advance(c, "write") \/ Advance(c, "draft") \/ Advance(c, "slug")
                BY <1>2, <3>1 DEF GetSet
            <4>3. QED
                BY <4>1, <4>2
        <3>2. CASE CheckSlug(c)
            <4>1. Reads /\ (Advance(c, "draft") \/ Advance(c, "write"))
                BY <1>2, <3>2 DEF CheckSlug
            <4>2. call[c].op \in {"create", "save", "import"} => row[call[c].set].there
                BY <2>1, <3>2 DEF CheckSlug, Justified
            <4>3. QED
                BY <4>1, <4>2
        <3>3. QED
            BY <3>1, <3>2
    <2>3. stage \in Stages
        BY DEF Stages
    <2>4. QED
        BY <2>1, <2>2, <2>3, AdvanceIsJustified
<1>3. QED
    BY <1>1, <1>2

LEMMA DraftIsJustified ==
    ASSUME PublishedInv, PublishedInv', AppsInv, NEW c \in Clients, FindDraft(c)
    PROVE  AppsInv'
<1>1. CASE Over(c)
    BY <1>1, OverIsJustified
<1>2. CASE ~Over(c)
    <2>1. call[c] \in Calls /\ Justified(c) /\ call[c].at = "draft" /\ call[c].op # "app"
        BY InHand DEF AppsInv, Justified, FindDraft
    <2>2. PICK q : /\ call' = [call EXCEPT ![c] = q] /\ q.op = call[c].op /\ q.set = call[c].set
                   /\ q.seen = call[c].seen /\ q.at \in {"write", "slug"}
                   /\ q.op # "publish" => q.at = "write"
        <3> DEFINE n == Draft(call[c].set)
                   body == rev[call[c].set][n].body
                   next == IF body.slug = NoSlug THEN "write" ELSE "slug"
                   save == [call[c] EXCEPT !.draft = n, !.at = "write"]
                   publish == [call[c] EXCEPT !.draft = n, !.body = body, !.at = next]
        <3>1. CASE call[c].op # "publish"
            <4>1. call' = [call EXCEPT ![c] = save]
                BY <3>1 DEF FindDraft
            <4>2. /\ save.op = call[c].op /\ save.set = call[c].set /\ save.seen = call[c].seen
                  /\ save.at = "write"
                BY <2>1 DEF Calls
            <4> HIDE DEF save
            <4>3. QED
                BY <3>1, <4>1, <4>2
        <3>2. CASE call[c].op = "publish"
            <4>1. call' = [call EXCEPT ![c] = publish]
                BY <1>2, <3>2 DEF FindDraft
            <4>2. /\ publish.op = call[c].op /\ publish.set = call[c].set
                  /\ publish.seen = call[c].seen /\ publish.at \in {"write", "slug"}
                BY <2>1 DEF Calls
            <4> HIDE DEF publish
            <4>3. QED
                BY <3>2, <4>1, <4>2
        <3>3. QED
            BY <3>1, <3>2
    <2>3. call'[c] = q /\ (\A d \in Clients : d # c => call'[d] = call[d]) /\ Reads
        BY <1>2, <2>2 DEF PublishedInv, CallsOK, FindDraft
    <2>4. Justified(c)'
        BY <2>1, <2>2, <2>3 DEF Justified, Reads, AppOps
    <2>5. \A s \in Sets : c \in Admitted(s)' => c \in Admitted(s)
        BY <2>1, <2>2, <2>3 DEF Admitted
    <2>6. QED
        BY <2>3, <2>4, <2>5, ReadingOn DEF Reads
<1>3. QED
    BY <1>1, <1>2

LEMMA ImportIsJustified ==
    ASSUME PublishedInv, PublishedInv', AppsInv, NEW c \in Clients, Import(c)
    PROVE  AppsInv'
<1>1. call[c] \in Calls /\ Justified(c) /\ call[c].op = "import" /\ Reads
    BY InHand DEF AppsInv, Import
<1>2. PICK q : /\ call' = [call EXCEPT ![c] = q] /\ q.op = "import"
               /\ q.at = "make" \/ (q.at = "draft" /\ row[q.set].there)
    <2>1. CASE \E s \in Sets : row[s].there /\ call' = [call EXCEPT ![c].set = s, ![c].at = "draft"]
        <3>1. PICK s \in Sets : row[s].there /\ call' = [call EXCEPT ![c].set = s, ![c].at = "draft"]
            BY <2>1
        <3> DEFINE q == [call[c] EXCEPT !.set = s, !.at = "draft"]
        <3>2. q.op = "import" /\ q.at = "draft" /\ q.set = s
            BY <1>1 DEF Calls
        <3>3. call' = [call EXCEPT ![c] = q]
            BY <3>1
        <3> HIDE DEF q
        <3>4. QED
            BY <3>1, <3>2, <3>3
    <2>2. CASE \E slug \in {call[c].body.slug, NoSlug} :
                 call' = [call EXCEPT ![c].at = "make", ![c].body.slug = slug]
        <3>1. PICK slug \in {call[c].body.slug, NoSlug} :
                    call' = [call EXCEPT ![c].at = "make", ![c].body.slug = slug]
            BY <2>2
        <3> DEFINE q == [call[c] EXCEPT !.at = "make", !.body.slug = slug]
        <3>2. q.op = "import" /\ q.at = "make"
            BY <1>1 DEF Calls
        <3>3. call' = [call EXCEPT ![c] = q]
            BY <3>1
        <3> HIDE DEF q
        <3>4. QED
            BY <3>2, <3>3
    <2>3. QED
        BY <2>1, <2>2 DEF Import, BySlug, Slugged
<1>3. call'[c] = q /\ \A d \in Clients : d # c => call'[d] = call[d]
    BY <1>2 DEF PublishedInv, CallsOK
<1>4. Justified(c)'
    BY <1>1, <1>2, <1>3 DEF Justified, AppOps, Reads
<1>5. \A s \in Sets : c \notin Admitted(s)'
    BY <1>2, <1>3 DEF Admitted
<1>6. QED
    BY <1>1, <1>3, <1>4, <1>5, ReadingOn DEF Reads

(* An application reads the set it names: from here on it is justified by  *)
(* what it read.                                                           *)
LEMMA FindSlugIsJustified ==
    ASSUME PublishedInv, PublishedInv', AppsInv, NEW c \in Clients, FindSlug(c)
    PROVE  AppsInv'
<1>1. call[c] \in Calls /\ Justified(c) /\ call[c].op \in AppOps /\ call[c].at \in {"find", "again"}
    BY InHand DEF AppsInv, FindSlug
<1>2. CASE Over(c)
    BY <1>2, OverIsJustified
<1>3. CASE Advance(c, "count") /\ Reads /\ call[c].at = "find"
    <2>1. call[c].op \in {"app", "appdraft"} => ~call[c].seen.there
        BY <1>1, <1>3 DEF Justified
    <2>2. QED
        BY <1>3, <2>1, AdvanceIsJustified DEF Stages
<1>4. CASE \E s \in BySlug(call[c].body.slug) :
             /\ call' = [call EXCEPT ![c].set = s, ![c].seen = row[s], ![c].at = "check"]
             /\ overtaken' = overtaken \ {c} /\ UNCHANGED <<row, rev>>
    <2>1. PICK s \in Sets :
             /\ call' = [call EXCEPT ![c].set = s, ![c].seen = row[s], ![c].at = "check"]
             /\ overtaken' = overtaken \ {c} /\ UNCHANGED <<row, rev>> /\ row[s].there
        BY <1>4 DEF BySlug, Slugged
    <2> DEFINE q == [call[c] EXCEPT !.set = s, !.seen = row[s], !.at = "check"]
    <2>2. q.op = call[c].op /\ q.at = "check" /\ q.set = s /\ q.seen = row[s]
        BY <1>1 DEF Calls
    <2>3. call' = [call EXCEPT ![c] = q]
        BY <2>1
    <2> HIDE DEF q
    <2>4. call'[c] = q /\ \A d \in Clients : d # c => call'[d] = call[d]
        BY <2>3 DEF PublishedInv, CallsOK
    <2>5. Justified(c)'
        BY <1>1, <2>1, <2>2, <2>4 DEF Justified
    <2>6. \A z \in Sets : c \notin Admitted(z)'
        BY <2>2, <2>4 DEF Admitted
    <2>7. QED
        BY <2>1, <2>4, <2>5, <2>6, ReadingOn
<1>5. QED
    BY <1>1, <1>2, <1>3, <1>4 DEF FindSlug

LEMMA LimitsAreJustified ==
    ASSUME PublishedInv, PublishedInv', AppsInv, NEW c \in Clients,
           CountSets(c) \/ CheckApp(c) \/ CheckDay(c)
    PROVE  AppsInv'
<1>1. call[c] \in Calls /\ Justified(c) /\ row[call[c].set] \in Rows
    BY InHand DEF AppsInv
<1>2. CASE Over(c)
    BY <1>2, OverIsJustified
<1>3. CASE ~Over(c) /\ CountSets(c)
    <2>1. call[c].at = "count" /\ Advance(c, "make") /\ Reads
        BY <1>3 DEF CountSets
    <2>2. QED
        BY <1>1, <2>1, AdvanceIsJustified DEF Stages, Justified
<1>4. CASE ~Over(c) /\ CheckApp(c) /\ call[c].op = "appretire"
    <2>1. Advance(c, "look") /\ Reads
        BY <1>4 DEF CheckApp
    <2>2. QED
        BY <1>4, <2>1, AdvanceIsJustified DEF Stages
<1>5. CASE ~Over(c) /\ CheckApp(c) /\ call[c].op # "appretire"
    <2>1. /\ call[c].at = "check" /\ Advance(c, "day") /\ Reads
          /\ call[c].seen.active /\ ~Forbidden(call[c].seen) /\ ~Stale(call[c])
        BY <1>5 DEF CheckApp
    <2>2. call[c].op = "app" /\ c \notin overtaken => OpenTo(call[c])
        <3>1. CASE call[c].seen = row[call[c].set]
            BY <1>1, <2>1, <3>1 DEF OpenTo, Forbidden, Stale, Rows
        <3>2. QED
            BY <1>1, <2>1, <3>1 DEF Justified
    <2>3. call[c].op \in {"create", "save", "import", "app", "appdraft"} => row[call[c].set].there
        BY <1>1, <2>1 DEF Justified
    <2>4. QED
        BY <2>1, <2>2, <2>3, AdvanceIsJustified DEF Stages
<1>6. CASE ~Over(c) /\ CheckDay(c)
    <2>1. call[c].at = "day" /\ Reads
        BY <1>6 DEF CheckDay
    <2>2. Len(rev[call[c].set]) < PerDay
        BY <1>6, InHand, PromptAssumption DEF CheckDay
    <2>3. PICK stage \in {"write", "draft"} :
            Advance(c, stage) /\ (call[c].op = "app" => stage = "write")
        BY <1>6 DEF CheckDay
    <2>4. /\ call[c].op \in {"create", "save", "import", "app", "appdraft"} => row[call[c].set].there
          /\ call[c].op = "app" /\ c \notin overtaken => OpenTo(call[c])
        BY <1>1, <2>1 DEF Justified
    <2>5. stage \in Stages
        BY DEF Stages
    <2>6. QED
        BY <2>1, <2>2, <2>3, <2>4, <2>5, AdvanceIsJustified
<1>7. QED
    BY <1>2, <1>3, <1>4, <1>5, <1>6

LEMMA RunsAreJustified ==
    ASSUME PublishedInv, PublishedInv', AppsInv, NEW c \in Clients, GetRunSet(c) \/ GetRunRevision(c)
    PROVE  AppsInv'
<1>1. CASE Over(c)
    BY <1>1, OverIsJustified
<1>2. CASE ~Over(c)
    <2> DEFINE q == [call[c] EXCEPT !.seen = row[call[c].set], !.at = "pick"]
    <2>1. call[c] \in Calls /\ call[c].op = "run" /\ call' = [call EXCEPT ![c] = q] /\ Reads
        BY <1>2, InHand DEF GetRunSet, GetRunRevision
    <2>2. q.op = "run"
        BY <2>1 DEF Calls
    <2> HIDE DEF q
    <2>3. call'[c] = q /\ \A d \in Clients : d # c => call'[d] = call[d]
        BY <2>1 DEF PublishedInv, CallsOK
    <2>4. Justified(c)' /\ \A s \in Sets : c \notin Admitted(s)'
        BY <2>2, <2>3 DEF Justified, Admitted, AppOps
    <2>5. QED
        BY <2>1, <2>3, <2>4, ReadingOn DEF Reads
<1>3. QED
    BY <1>1, <1>2

-----------------------------------------------------------------------------
(* The steps that write.                                                   *)

(* A set comes into being: nobody else's request can have been justified   *)
(* by it, and it has no revision yet.                                      *)
LEMMA CreateIsJustified ==
    ASSUME PublishedInv, PublishedInv', AppsInv, NEW c \in Clients, CreateSet(c)
    PROVE  AppsInv'
<1>1. call[c] \in Calls /\ Justified(c) /\ call[c].at = "make"
    BY InHand DEF AppsInv, CreateSet
<1>2. CASE Over(c)
    BY <1>2, OverIsJustified
<1>3. CASE Advance(c, "again") /\ Reads
    BY <1>3, AdvanceIsJustified DEF Stages
<1>4. CASE \E s \in Sets, stage \in {"draft", "write"}, managed \in {"builder", "application"} :
             /\ ~row[s].there /\ InsertSet(s, call[c].body.slug, managed)
             /\ call' = [call EXCEPT ![c].set = s, ![c].draft = 0, ![c].at = stage]
             /\ overtaken' = overtaken \ {c} /\ UNCHANGED rev
             /\ call[c].op = "app" => stage = "write"
             /\ call[c].op \in AppOps => managed = "application"
    <2>1. PICK s \in Sets, stage \in {"draft", "write"}, managed \in {"builder", "application"} :
             /\ ~row[s].there /\ InsertSet(s, call[c].body.slug, managed)
             /\ call' = [call EXCEPT ![c].set = s, ![c].draft = 0, ![c].at = stage]
             /\ overtaken' = overtaken \ {c} /\ UNCHANGED rev
             /\ call[c].op = "app" => stage = "write"
             /\ call[c].op \in AppOps => managed = "application"
        BY <1>4
    <2> DEFINE r == [Absent EXCEPT !.there = TRUE, !.slug = call[c].body.slug,
                                   !.managed = managed]
    <2>2. PICK q : /\ call' = [call EXCEPT ![c] = q]
                   /\ q.op = call[c].op /\ q.set = s /\ q.at = stage
                   /\ q.seen = call[c].seen /\ q.base = call[c].base
        <3> DEFINE q == [call[c] EXCEPT !.set = s, !.draft = 0, !.at = stage]
        <3>1. /\ q.op = call[c].op /\ q.set = s /\ q.at = stage
              /\ q.seen = call[c].seen /\ q.base = call[c].base
            BY <1>1 DEF Calls
        <3>2. call' = [call EXCEPT ![c] = q]
            BY <2>1
        <3> HIDE DEF q
        <3>3. QED
            BY <3>1, <3>2
    <2>4. r.there /\ r.active /\ r.managed = managed /\ ~r.locked
        BY DEF Absent
    <2>5. row' = [row EXCEPT ![s] = r]
        BY <2>1 DEF InsertSet
    <2> HIDE DEF r
    <2>6. /\ call'[c] = q /\ (\A d \in Clients : d # c => call'[d] = call[d])
          /\ row'[s] = r /\ (\A z \in Sets : z # s => row'[z] = row[z])
        BY <2>2, <2>5 DEF PublishedInv, TablesOK, CallsOK
    <2>7. Justified(c)'
        <3>1. call[c].op \in {"app", "appdraft"} => ~call[c].seen.there
            BY <1>1 DEF Justified
        <3>2. call[c].op = "app" => OpenTo(q)'
            BY <2>1, <2>2, <2>4, <2>6, <3>1 DEF OpenTo, AppOps
        <3>3. QED
            BY <1>1, <2>1, <2>2, <2>4, <2>6, <3>1, <3>2 DEF Justified, OpenTo
    <2>8. ASSUME NEW d \in Clients, d # c,
                 call[d].at \in {"check", "day", "write"}, call[d].op = "app"
          PROVE  row'[call[d].set] = row[call[d].set]
        <3>1. row[call[d].set].there /\ call[d].set \in Sets
            BY <2>8, InHand DEF AppsInv, Justified
        <3>2. QED
            BY <2>1, <2>6, <3>1
    <2>9. \A d \in Clients : Justified(d)'
        <3>1. \A z \in Sets : row[z].there => row'[z].there
            BY <2>4, <2>6
        <3>2. QED
            BY <2>1, <2>6, <2>7, <2>8, <3>1, OthersJustified
    <2>10. RevisionsHaveSets'
        BY <2>1, <2>4, <2>6 DEF AppsInv, RevisionsHaveSets
    <2>11. ASSUME NEW z \in Sets PROVE RoomForAdmitted(z)'
        <3>1. CASE z = s
            <4>1. rev'[s] = <<>>
                BY <2>1 DEF AppsInv, RevisionsHaveSets
            <4>2. Len(rev'[s]) < PerDay
                BY <4>1, PromptAssumption
            <4>3. QED
                BY <3>1, <4>2, FewRevisions
        <3>2. CASE z # s
            <4>1. Admitted(z)' \subseteq Admitted(z)
                BY <2>2, <2>6, <3>2 DEF Admitted, Clients
            <4>2. AppRevs(z)' = AppRevs(z)
                BY <2>1 DEF AppRevs
            <4>3. QED
                BY <4>1, <4>2, NoMoreAdmitted DEF AppsInv
        <3>3. QED
            BY <3>1, <3>2
    <2>12. QED
        BY <2>9, <2>10, <2>11 DEF AppsInv
<1>5. QED
    <2>1. CASE BySlug(call[c].body.slug) # {}
        BY <1>2, <1>3, <2>1 DEF CreateSet
    <2>2. CASE BySlug(call[c].body.slug) = {}
        <3> DEFINE free == {s \in Sets : ~row[s].there}
                   t == CHOOSE r \in free : TRUE
        <3>1. t \in Sets /\ ~row[t].there
            BY <2>2 DEF CreateSet
        <3>2. QED
            BY <1>4, <2>2, <3>1 DEF CreateSet, AppOps
    <2>3. QED
        BY <2>1, <2>2

(* The last write of a request to its set.                                 *)
LEMMA WriteIsJustified ==
    ASSUME PublishedInv, PublishedInv', AppsInv, NEW c \in Clients, NEW s \in Sets,
           s = call[c].set, WritesTo(c, s),
           \A z \in Sets \ {s} : row'[z] = row[z] /\ rev'[z] = rev[z],
           row[s].there => row'[s].there, rev'[s] # <<>> => row[s].there,
           \/ AppRevs(s)' = AppRevs(s)
           \/ c \in Admitted(s) /\ \E n \in Nat : AppRevs(s)' \subseteq AppRevs(s) \cup {n}
    PROVE  AppsInv'
<1>1. /\ Justified(c)' /\ (\A d \in Clients : d # c => call'[d] = call[d])
      /\ \A z \in Sets : c \notin Admitted(z)'
    BY EndIsJustified DEF WritesTo
<1>2. ASSUME NEW d \in Clients, d # c, d \notin overtaken'
      PROVE  /\ d \notin overtaken
             /\ call[d].at \in {"check", "day", "write"} => row'[call[d].set] = row[call[d].set]
    <2>1. d \notin overtaken /\ ~(call[d].at # "idle" /\ call[d].set = s) /\ call[d].set \in Sets
        BY <1>2, InHand DEF WritesTo
    <2>2. QED
        BY <2>1
<1>3. \A d \in Clients : Justified(d)'
    <2>1. \A z \in Sets : row[z].there => row'[z].there
        OBVIOUS
    <2>2. QED
        BY <1>1, <1>2, <2>1, OthersJustified
<1>4. RevisionsHaveSets'
    BY DEF AppsInv, RevisionsHaveSets
<1>5. \A z \in Sets : Admitted(z)' \subseteq Admitted(z) \ {c}
    BY <1>1 DEF Admitted, Clients
<1>6. ASSUME NEW z \in Sets PROVE RoomForAdmitted(z)'
    <2>1. CASE AppRevs(z)' = AppRevs(z)
        BY <1>5, <2>1, NoMoreAdmitted DEF AppsInv
    <2>2. CASE z # s
        <3>1. AppRevs(z)' = AppRevs(z)
            BY <2>2 DEF AppRevs
        <3>2. QED
            BY <2>1, <3>1
    <2>3. CASE z = s /\ c \in Admitted(s) /\ \E n \in Nat : AppRevs(s)' \subseteq AppRevs(s) \cup {n}
        <3>1. PICK n \in Nat : AppRevs(s)' \subseteq AppRevs(s) \cup {n}
            BY <2>3
        <3>2. QED
            BY <1>5, <2>3, <3>1, AdmittedAdds DEF AppsInv
    <2>4. QED
        BY <2>1, <2>2, <2>3
<1>7. QED
    BY <1>3, <1>4, <1>6 DEF AppsInv

(* Where the row of a set points to a revision, the set stays there, and   *)
(* the other sets stay as they are.                                        *)
LEMMA SyncedStays ==
    ASSUME row \in [Sets -> Rows], NEW s \in Sets, NEW n, NEW body, row' = Synced(s, n, body)
    PROVE  /\ \A z \in Sets \ {s} : row'[z] = row[z]
           /\ row[s].there => row'[s].there
<1> DEFINE g == [row[s] EXCEPT !.current = n, !.active = TRUE,
                               !.slug = IF body.slug = NoSlug THEN @ ELSE body.slug]
<1>1. row' = [row EXCEPT ![s] = g]
    BY DEF Synced
<1>2. g.there = row[s].there
    BY DEF Rows
<1> HIDE DEF g
<1>3. QED
    BY <1>1, <1>2

(* What a new revision does to those of applications.                      *)
LEMMA AddedAppRevs ==
    ASSUME PublishedInv, NEW s \in Sets, NEW body \in Bodies, NEW published \in BOOLEAN,
           NEW app \in BOOLEAN, AddRevision(s, body, published, app)
    PROVE  /\ \A z \in Sets \ {s} : row'[z] = row[z] /\ rev'[z] = rev[z]
           /\ row[s].there => row'[s].there
           /\ ~app => AppRevs(s)' = AppRevs(s)
           /\ \E n \in Nat : AppRevs(s)' \subseteq AppRevs(s) \cup {n}
<1> DEFINE new == [body |-> body, published |-> published, app |-> app]
           n == Len(rev[s]) + 1
<1>1. new \in Revisions /\ new.app = app
    BY DEF Revisions
<1>2. rev[s] \in Seq(Revisions) /\ Len(rev[s]) \in Nat /\ rev \in [Sets -> Seq(Revisions)]
    BY LenProperties DEF PublishedInv, TablesOK
<1>3. rev' = [rev EXCEPT ![s] = Append(rev[s], new)]
    BY DEF AddRevision
<1> HIDE DEF new
<1>4. /\ Append(rev[s], new) \in Seq(Revisions) /\ Len(Append(rev[s], new)) = n
      /\ \A m \in 1..Len(rev[s]) : Append(rev[s], new)[m] = rev[s][m]
      /\ Append(rev[s], new)[n] = new
    BY <1>1, <1>2, AppendProperties
<1>5. rev'[s] = Append(rev[s], new) /\ \A z \in Sets \ {s} : rev'[z] = rev[z]
    BY <1>2, <1>3
<1>6. \A m \in 1..n : m \in 1..Len(rev[s]) \/ m = n
    BY <1>2
<1>7. AppRevs(s)' \subseteq AppRevs(s) \cup {n}
    BY <1>4, <1>5, <1>6 DEF AppRevs
<1>8. ~app => AppRevs(s)' = AppRevs(s)
    <2>1. ASSUME ~app, NEW m \in AppRevs(s)' PROVE m \in AppRevs(s)
        <3>1. m \in 1..n /\ rev'[s][m].app
            BY <1>4, <1>5 DEF AppRevs
        <3>2. m # n
            BY <1>1, <1>4, <1>5, <2>1, <3>1
        <3>3. QED
            BY <1>4, <1>5, <1>6, <3>1, <3>2 DEF AppRevs
    <2>2. ASSUME NEW m \in AppRevs(s) PROVE m \in AppRevs(s)'
        <3>1. m \in 1..Len(rev[s]) /\ rev[s][m].app
            BY DEF AppRevs
        <3>2. m \in 1..n
            BY <1>2, <3>1
        <3>3. QED
            BY <1>4, <1>5, <3>1, <3>2 DEF AppRevs
    <2>3. QED
        BY <2>1, <2>2
<1>9. /\ \A z \in Sets \ {s} : row'[z] = row[z]
      /\ row[s].there => row'[s].there
    BY SyncedStays DEF AddRevision, PublishedInv, TablesOK
<1>10. n \in Nat
    BY <1>2
<1> HIDE DEF n
<1>11. QED
    BY <1>5, <1>7, <1>8, <1>9, <1>10

(* A draft that changes, or is published, stays whose it is.               *)
LEMMA ChangedAppRevs ==
    ASSUME PublishedInv, NEW s \in Sets, NEW n \in 1..Len(rev[s]), NEW r \in Revisions,
           r.app = rev[s][n].app, rev' = [rev EXCEPT ![s][n] = r],
           UNCHANGED row \/ \E body \in Bodies : row' = Synced(s, n, body)
    PROVE  /\ \A z \in Sets \ {s} : row'[z] = row[z] /\ rev'[z] = rev[z]
           /\ row[s].there => row'[s].there
           /\ AppRevs(s)' = AppRevs(s) /\ rev[s] # <<>>
<1>1. rev[s] \in Seq(Revisions) /\ Len(rev[s]) \in Nat /\ rev \in [Sets -> Seq(Revisions)]
    BY LenProperties DEF PublishedInv, TablesOK
<1> DEFINE new == [rev[s] EXCEPT ![n] = r]
<1>2. /\ Len(new) = Len(rev[s]) /\ new[n] = r
      /\ \A m \in 1..Len(rev[s]) : m # n => new[m] = rev[s][m]
    BY <1>1, ExceptSeq
<1>3. rev' = [rev EXCEPT ![s] = new]
    OBVIOUS
<1> HIDE DEF new
<1>4. rev'[s] = new /\ \A z \in Sets \ {s} : rev'[z] = rev[z]
    BY <1>1, <1>3
<1>5. AppRevs(s)' = AppRevs(s)
    BY <1>2, <1>4 DEF AppRevs
<1>6. /\ \A z \in Sets \ {s} : row'[z] = row[z]
      /\ row[s].there => row'[s].there
    BY SyncedStays DEF PublishedInv, TablesOK
<1>7. rev[s] # <<>>
    BY <1>1, EmptySeq
<1>8. QED
    BY <1>4, <1>5, <1>6, <1>7

LEMMA WriteDraftIsJustified ==
    ASSUME PublishedInv, PublishedInv', AppsInv, NEW c \in Clients, WriteDraft(c),
           NEW s \in Sets, s = call[c].set
    PROVE  AppsInv'
<1> DEFINE n == call[c].draft
           r == [rev[s][n] EXCEPT !.body = call[c].body]
<1>1. /\ s \in Sets /\ call[c].body \in Bodies /\ n \in 0..Len(rev[s])
      /\ rev[s] \in Seq(Revisions) /\ Len(rev[s]) \in Nat
    BY InHand
<1>2. WritesTo(c, s) /\ row[s].there /\ (call[c].op = "appdraft" => c \in Admitted(s))
    BY DEF WriteDraft, AppsInv, Justified, Admitted, AppOps
<1>3. CASE n = 0
    <2>1. AddRevision(s, call[c].body, FALSE, call[c].op = "appdraft")
        BY <1>3 DEF WriteDraft
    <2>2. (call[c].op = "appdraft") \in BOOLEAN
        OBVIOUS
    <2>3. /\ \A z \in Sets \ {s} : row'[z] = row[z] /\ rev'[z] = rev[z]
          /\ row[s].there => row'[s].there
          /\ call[c].op # "appdraft" => AppRevs(s)' = AppRevs(s)
          /\ \E m \in Nat : AppRevs(s)' \subseteq AppRevs(s) \cup {m}
        BY <1>1, <2>1, <2>2, AddedAppRevs
    <2>4. QED
        BY <1>1, <1>2, <2>3, WriteIsJustified
<1>4. CASE n # 0 /\ rev[s][n].published
    <2>1. UNCHANGED <<row, rev>>
        BY <1>4 DEF WriteDraft, UpdateDraft
    <2>2. AppRevs(s)' = AppRevs(s)
        BY <2>1 DEF AppRevs
    <2>3. QED
        BY <1>1, <1>2, <2>1, <2>2, WriteIsJustified
<1>5. CASE n # 0 /\ ~rev[s][n].published
    <2>1. n \in 1..Len(rev[s])
        BY <1>1, <1>5
    <2>2. r \in Revisions /\ r.app = rev[s][n].app
        <3>1. rev[s][n] \in Revisions
            BY <1>1, <2>1, ElementOfSeq
        <3>2. QED
            BY <1>1, <3>1 DEF Revisions
    <2>3. rev' = [rev EXCEPT ![s][n] = r] /\ UNCHANGED row
        BY <1>5 DEF WriteDraft, UpdateDraft
    <2> HIDE DEF r
    <2>4. /\ \A z \in Sets \ {s} : row'[z] = row[z] /\ rev'[z] = rev[z]
          /\ AppRevs(s)' = AppRevs(s)
        BY <1>1, <2>1, <2>2, <2>3, ChangedAppRevs
    <2>5. QED
        BY <1>1, <1>2, <2>3, <2>4, WriteIsJustified
<1>6. QED
    BY <1>3, <1>4, <1>5

LEMMA PublishIsJustified ==
    ASSUME PublishedInv, PublishedInv', AppsInv, NEW c \in Clients, Publish(c),
           NEW s \in Sets, s = call[c].set
    PROVE  AppsInv'
<1> DEFINE n == call[c].draft
           r == [rev[s][n] EXCEPT !.published = TRUE]
<1>1. /\ s \in Sets /\ n \in 1..Len(rev[s]) /\ rev[s] \in Seq(Revisions)
    BY InHand DEF Publish, Shape
<1>2. CASE Over(c)
    BY <1>2, OverIsJustified
<1>3. CASE PublishRevision(s, n, call[c].body) /\ WritesTo(c, s)
    <2>1. CASE rev[s][n].published
        <3>1. UNCHANGED <<row, rev>>
            BY <1>3, <2>1 DEF PublishRevision
        <3>2. AppRevs(s)' = AppRevs(s) /\ (rev'[s] # <<>> => row[s].there)
            BY <1>1, <3>1 DEF AppRevs, AppsInv, RevisionsHaveSets
        <3>3. QED
            BY <1>1, <1>3, <3>1, <3>2, WriteIsJustified
    <2>2. CASE ~rev[s][n].published
        <3>1. r \in Revisions /\ r.app = rev[s][n].app /\ r.body = rev[s][n].body /\ r.body \in Bodies
            <4>1. rev[s][n] \in Revisions
                BY <1>1, ElementOfSeq
            <4>2. QED
                BY <4>1 DEF Revisions
        <3>2. rev' = [rev EXCEPT ![s][n] = r] /\ row' = Synced(s, n, r.body)
            BY <1>3, <2>2, <3>1 DEF PublishRevision
        <3> HIDE DEF r
        <3>3. /\ \A z \in Sets \ {s} : row'[z] = row[z] /\ rev'[z] = rev[z]
              /\ row[s].there => row'[s].there
              /\ AppRevs(s)' = AppRevs(s) /\ rev[s] # <<>>
            BY <1>1, <3>1, <3>2, ChangedAppRevs
        <3>4. row[s].there
            BY <1>1, <3>3 DEF AppsInv, RevisionsHaveSets
        <3>5. QED
            BY <1>1, <1>3, <3>3, <3>4, WriteIsJustified
    <2>3. QED
        BY <2>1, <2>2
<1>4. QED
    BY <1>2, <1>3 DEF Publish

LEMMA AppPublishIsJustified ==
    ASSUME PublishedInv, PublishedInv', AppsInv, NEW c \in Clients, AppPublish(c),
           NEW s \in Sets, s = call[c].set
    PROVE  AppsInv'
<1>1. s \in Sets /\ call[c].body \in Bodies /\ row[s].there /\ c \in Admitted(s)
    BY InHand DEF AppPublish, AppsInv, Justified, Admitted, AppOps
<1>2. CASE Over(c)
    BY <1>2, OverIsJustified
<1>3. CASE AddRevision(s, call[c].body, TRUE, TRUE) /\ WritesTo(c, s)
    <2>1. /\ \A z \in Sets \ {s} : row'[z] = row[z] /\ rev'[z] = rev[z]
          /\ row[s].there => row'[s].there
          /\ \E m \in Nat : AppRevs(s)' \subseteq AppRevs(s) \cup {m}
        BY <1>1, <1>3, AddedAppRevs
    <2>2. QED
        BY <1>1, <1>3, <2>1, WriteIsJustified
<1>4. QED
    BY <1>2, <1>3 DEF AppPublish

LEMMA UpdateIsJustified ==
    ASSUME PublishedInv, PublishedInv', AppsInv, NEW c \in Clients, Retire(c) \/ SetControl(c),
           NEW s \in Sets, s = call[c].set
    PROVE  AppsInv'
<1>1. s \in Sets /\ row[s] \in Rows
    BY InHand
<1>2. /\ UNCHANGED rev /\ WritesTo(c, s)
      /\ (\A z \in Sets \ {s} : row'[z] = row[z]) /\ row'[s].there = row[s].there
    <2>1. UNCHANGED rev /\ WritesTo(c, s)
        BY DEF Retire, SetControl, UpdateSet
    <2>2. PICK r : row' = [row EXCEPT ![s] = r] /\ r.there = row[s].there
        <3>1. CASE Retire(c)
            <4>1. row' = [row EXCEPT ![s] = [row[s] EXCEPT !.active = FALSE]]
                BY <3>1 DEF Retire, UpdateSet
            <4>2. [row[s] EXCEPT !.active = FALSE].there = row[s].there
                BY <1>1 DEF Rows
            <4>3. QED
                BY <4>1, <4>2
        <3>2. CASE SetControl(c)
            <4>1. PICK managed \in {"builder", "application"}, locked \in BOOLEAN :
                    row' = [row EXCEPT ![s] = [row[s] EXCEPT !.managed = managed, !.locked = locked]]
                BY <3>2 DEF SetControl, UpdateSet
            <4>2. [row[s] EXCEPT !.managed = managed, !.locked = locked].there = row[s].there
                BY <1>1 DEF Rows
            <4>3. QED
                BY <4>1, <4>2
        <3>3. QED
            BY <3>1, <3>2
    <2>3. QED
        BY <1>1, <2>1, <2>2 DEF PublishedInv, TablesOK
<1>3. AppRevs(s)' = AppRevs(s) /\ (rev'[s] # <<>> => row[s].there)
    BY <1>1, <1>2 DEF AppRevs, AppsInv, RevisionsHaveSets
<1>4. QED
    BY <1>1, <1>2, <1>3, WriteIsJustified

-----------------------------------------------------------------------------
LEMMA AppsInit == PromptInit => AppsInv
<1> SUFFICES ASSUME PromptInit PROVE AppsInv
    OBVIOUS
<1>1. PublishedInv /\ call = [c \in Clients |-> Blank]
    BY PublishedInit DEF PromptInit
<1>2. \A c \in Clients : Justified(c)
    BY <1>1, BlankIsCall DEF Justified, AppOps
<1>3. RevisionsHaveSets
    <2>1. CASE row = [s \in Sets |-> Absent] /\ rev = [s \in Sets |-> <<>>]
        BY <2>1 DEF RevisionsHaveSets
    <2>2. CASE \E managed \in {"builder", "application"} : First(managed)
        BY <2>2 DEF First, RevisionsHaveSets, Absent
    <2>3. QED
        BY <2>1, <2>2 DEF PromptInit
<1>4. ASSUME NEW s \in Sets PROVE RoomForAdmitted(s)
    <2>1. Admitted(s) = {}
        BY <1>1, BlankIsCall DEF Admitted, Clients
    <2>2. Cardinality(Admitted(s)) = 0
        BY <2>1, FS_EmptySet
    <2>3. Len(rev[s]) \in Nat /\ Len(rev[s]) <= 1
        <3>1. CASE rev = [r \in Sets |-> <<>>]
            BY <3>1
        <3>2. CASE \E managed \in {"builder", "application"} : First(managed)
            BY <3>2 DEF First
        <3>3. QED
            BY <3>1, <3>2 DEF PromptInit
    <2>4. Cardinality(AppRevs(s)) \in Nat /\ Cardinality(AppRevs(s)) <= Len(rev[s])
        BY <1>1, CountTypes
    <2>5. /\ Cardinality(Apps) \in Nat /\ Cardinality(Apps) # 0 /\ PerDay \in Nat /\ PerDay # 0
        BY PromptAssumption, FS_CardinalityType, FS_EmptySet
    <2>6. Cardinality(AppRevs(s)) < PerDay + Cardinality(Apps)
        <3>1. Cardinality(AppRevs(s)) <= 1
            BY <2>3, <2>4
        <3>2. 1 < PerDay + Cardinality(Apps)
            BY <2>5
        <3>3. QED
            BY <2>4, <2>5, <3>1, <3>2
    <2>7. QED
        BY <2>2, <2>4, <2>5, <2>6 DEF RoomForAdmitted
<1>5. QED
    BY <1>2, <1>3, <1>4 DEF AppsInv

LEMMA AppsNext == PublishedInv /\ PublishedInv' /\ AppsInv /\ [PromptNext]_promptVars => AppsInv'
<1> SUFFICES ASSUME PublishedInv, PublishedInv', AppsInv, [PromptNext]_promptVars PROVE AppsInv'
    OBVIOUS
<1>1. ASSUME NEW c \in Clients, Serve(c) PROVE AppsInv'
    <2>1. CASE Request(c)
        BY <2>1, RequestIsJustified
    <2>2. CASE GetSet(c) \/ CheckSlug(c) \/ FindDraft(c)
        BY <2>2, LooksAreJustified, DraftIsJustified
    <2>3. CASE CreateSet(c) \/ Import(c) \/ FindSlug(c)
        BY <2>3, CreateIsJustified, ImportIsJustified, FindSlugIsJustified
    <2>4. CASE CountSets(c) \/ CheckApp(c) \/ CheckDay(c)
        BY <2>4, LimitsAreJustified
    <2>5. CASE WriteDraft(c) \/ Publish(c) \/ AppPublish(c) \/ Retire(c) \/ SetControl(c)
        <3>1. PICK s \in Sets : s = call[c].set
            BY InHand
        <3>2. QED
            BY <2>5, <3>1, WriteDraftIsJustified, PublishIsJustified, AppPublishIsJustified,
               UpdateIsJustified
    <2>6. CASE GetRunSet(c) \/ GetRunRevision(c)
        BY <2>6, RunsAreJustified
    <2>7. QED
        BY <1>1, <2>1, <2>2, <2>3, <2>4, <2>5, <2>6 DEF Serve
<1>2. CASE UNCHANGED promptVars
    BY <1>2 DEF promptVars, AppsInv, RevisionsHaveSets, Justified, OpenTo, RoomForAdmitted,
                AppRevs, Admitted
<1>3. QED
    BY <1>1, <1>2 DEF PromptNext

(* Applications add no more revisions to a set in a day than their limit   *)
(* and one for each that was let in together with others: an admitted      *)
(* request keeps its place while the limit is checked by others            *)
(* (headless/promptset_service.py, _check_app_write).                      *)
THEOREM AppsKeepToTheDay == PromptSpec => []AppsStayInTheDay
<1>1. PublishedInv /\ AppsInv => AppsStayInTheDay
    <2> SUFFICES ASSUME PublishedInv, AppsInv, NEW s \in Sets
                 PROVE  Cardinality(AppRevs(s)) < PerDay + Cardinality(Apps)
        BY DEF AppsStayInTheDay, AppRevs
    <2>1. /\ Cardinality(AppRevs(s)) \in Nat /\ Cardinality(Admitted(s)) \in Nat
          /\ Cardinality(Apps) \in Nat /\ PerDay \in Nat
        BY CountTypes, PromptAssumption
    <2>2. QED
        BY <2>1 DEF AppsInv, RoomForAdmitted
<1>2. PromptInit => PublishedInv /\ AppsInv
    BY PublishedInit, AppsInit
<1>3. PublishedInv /\ AppsInv /\ [PromptNext]_promptVars => (PublishedInv /\ AppsInv)'
    BY PublishedNext, AppsNext
<1>4. QED
    BY <1>1, <1>2, <1>3, PTL DEF PromptSpec

(* A publication of an application goes against neither an editor's        *)
(* decision nor the revision it builds on, unless its set was changed      *)
(* while it was under way (headless/promptset_service.py, _check_app_write *)
(* before add_revision).                                                   *)
THEOREM QuietDecisionsAreKept == PromptSpec => QuietDecisionsStand
<1> DEFINE Quiet ==
        \A c \in Apps \ overtaken :
            call[c].at = "write" /\ call[c].op = "app" /\ rev' # rev /\ call'[c].at = "idle"
                => OpenTo(call[c])
<1>1. PublishedInv /\ AppsInv => Quiet
    BY DEF AppsInv, Justified, Clients
<1>2. PromptInit => PublishedInv /\ AppsInv
    BY PublishedInit, AppsInit
<1>3. PublishedInv /\ AppsInv /\ [PromptNext]_promptVars => (PublishedInv /\ AppsInv)'
    BY PublishedNext, AppsNext
<1>4. QED
    BY <1>1, <1>2, <1>3, PTL DEF PromptSpec, QuietDecisionsStand
=============================================================================
