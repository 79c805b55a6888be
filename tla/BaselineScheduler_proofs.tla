----------------------- MODULE BaselineScheduler_proofs -----------------------
(***************************************************************************)
(* Theorems about the baseline scheduler: for every workflow and every list *)
(* of machine types the machines fit their queues, the queues hold each     *)
(* task placed, a finished plan has the makespan that was calculated while  *)
(* it was made, and no upgrade makes a machine slower or the plan longer,   *)
(* although the upgrade goes through two different indices.                 *)
(* First, facts about choices among numbered things by a number, which the  *)
(* scans of all schedulers make: there is a least, a greatest, and among    *)
(* equals a first and a last.                                               *)
(***************************************************************************)
EXTENDS BaselineScheduler, FiniteSetTheorems, WellFoundedInduction, TLAPS

\* Every set of naturals has a least element.
LEMMA LeastExists ==
    ASSUME NEW S, S \subseteq Nat, S # {}
    PROVE  \E x \in S : \A y \in S : x <= y
<1> DEFINE R == OpToRel(<, Nat)
<1>1. IsWellFoundedOn(R, Nat)
  BY NatLessThanWellFounded
<1>2. \A x, y \in Nat : <<y, x>> \in R <=> y < x
  BY DEF OpToRel
<1> HIDE DEF R
<1>3. PICK x \in S : \A y \in S : ~ (<<y, x>> \in R)
  BY <1>1, WFMin
<1>4. \A y \in S : ~(y < x)
  BY <1>2, <1>3
<1> QED BY <1>4

\* A scan that replaces what it has by what is strictly less.
LEMMA FirstLeast ==
    ASSUME NEW S, S \subseteq Nat, S # {}, NEW f, \A x \in S : f[x] \in Nat
    PROVE  \E x \in S : \A y \in S : f[x] <= f[y] /\ (y < x => f[x] < f[y])
<1> DEFINE values == {f[x] : x \in S}
           least(m) == {x \in S : f[x] = m}
<1>1. PICK m \in values : \A v \in values : m <= v
  <2>1. values \subseteq Nat /\ values # {}
    OBVIOUS
  <2> HIDE DEF values
  <2> QED BY <2>1, LeastExists
<1>2. PICK x \in least(m) : \A y \in least(m) : x <= y
  <2>1. least(m) \subseteq Nat /\ least(m) # {}
    OBVIOUS
  <2> HIDE DEF least
  <2> QED BY <2>1, LeastExists
<1>3. \A y \in S : f[x] <= f[y] /\ (y < x => f[x] < f[y])
  <2> SUFFICES ASSUME NEW y \in S PROVE f[x] <= f[y] /\ (y < x => f[x] < f[y])
    OBVIOUS
  <2>1. f[x] = m /\ m <= f[y] /\ f[y] \in Nat /\ m \in Nat /\ x \in Nat /\ y \in Nat
    BY <1>1
  <2>2. f[y] = m => x <= y
    BY <1>2
  <2> QED BY <2>1, <2>2
<1> QED BY <1>3

\* A scan that replaces what it has by what is less or equal.
LEMMA LastLeast ==
    ASSUME NEW n \in Nat, NEW S, S \subseteq 0..n, S # {}, NEW f, \A x \in S : f[x] \in Nat
    PROVE  \E x \in S : \A y \in S : f[x] <= f[y] /\ (y > x => f[x] < f[y])
<1> DEFINE mirrored == {n - x : x \in S}
           g == [z \in mirrored |-> f[n - z]]
<1>0. \A x \in S : x \in 0..n /\ n - x \in Nat /\ n - (n - x) = x
  OBVIOUS
<1>1. mirrored \subseteq Nat /\ mirrored # {}
  BY <1>0
<1>2. \A z \in mirrored : n - z \in S
  BY <1>0
<1>3. \A z \in mirrored : g[z] \in Nat
  BY <1>2
<1>4. PICK z \in mirrored : \A w \in mirrored : g[z] <= g[w] /\ (w < z => g[z] < g[w])
  <2> HIDE DEF mirrored, g
  <2> QED BY <1>1, <1>3, FirstLeast
<1>5. \A y \in S : f[n - z] <= f[y] /\ (y > n - z => f[n - z] < f[y])
  <2> SUFFICES ASSUME NEW y \in S PROVE f[n - z] <= f[y] /\ (y > n - z => f[n - z] < f[y])
    OBVIOUS
  <2>1. n - y \in mirrored /\ n - (n - y) = y /\ y \in 0..n /\ z \in 0..n
    BY <1>0
  <2>2. g[n - y] = f[y] /\ g[z] = f[n - z]
    BY <2>1
  <2>3. g[z] <= g[n - y] /\ (n - y < z => g[z] < g[n - y])
    BY <1>4, <2>1
  <2> HIDE DEF g, mirrored
  <2>4. y > n - z => n - y < z
    BY <2>1
  <2> QED BY <2>2, <2>3, <2>4
<1> QED BY <1>2, <1>5

\* A finite sequence of naturals has a greatest member.
LEMMA GreatestExists ==
    ASSUME NEW N \in Nat \ {0}, NEW f \in [1..N -> Nat]
    PROVE  \E m \in 1..N : \A i \in 1..N : f[i] <= f[m]
<1> DEFINE Has(k) == \E m \in 1..k : \A i \in 1..k : f[i] <= f[m]
           Failures == {k \in 1..N : ~Has(k)}
<1>1. Has(1)
  BY f[1] <= f[1]
<1>2. ASSUME NEW k \in 1..N, k + 1 \in 1..N, Has(k)
      PROVE  Has(k + 1)
  <2>1. PICK m \in 1..k : \A i \in 1..k : f[i] <= f[m]
    BY <1>2
  <2>2. CASE f[k + 1] <= f[m]
    <3>1. \A i \in 1..(k + 1) : f[i] <= f[m]
      BY <2>1, <2>2
    <3> QED BY <3>1
  <2>3. CASE ~(f[k + 1] <= f[m])
    <3>1. \A i \in 1..(k + 1) : f[i] <= f[k + 1]
      <4> SUFFICES ASSUME NEW i \in 1..(k + 1) PROVE f[i] <= f[k + 1]
        OBVIOUS
      <4>1. i \in 1..N /\ m \in 1..N
        BY <1>2
      <4>2. CASE i = k + 1
        BY <4>1, <4>2
      <4>3. CASE i \in 1..k
        BY <2>1, <2>3, <4>1, <4>3, <1>2
      <4> QED BY <4>2, <4>3
    <3> QED BY <3>1
  <2> QED BY <2>2, <2>3
<1>3. Failures = {}
  <2> SUFFICES ASSUME Failures # {} PROVE FALSE
    OBVIOUS
  <2> HIDE DEF Has
  <2>1. Failures \subseteq Nat
    OBVIOUS
  <2>2. PICK k \in Failures : \A l \in Failures : k <= l
    <3> HIDE DEF Failures
    <3> QED BY <2>1, LeastExists
  <2>3. k \in 1..N /\ ~Has(k)
    OBVIOUS
  <2>4. k # 1
    BY <2>3, <1>1
  <2>5. k - 1 \in 1..N /\ k - 1 \notin Failures /\ (k - 1) + 1 = k
    BY <2>2, <2>3, <2>4
  <2>6. Has(k - 1)
    BY <2>5
  <2>7. Has((k - 1) + 1)
    BY <1>2, <2>3, <2>5, <2>6
  <2> QED BY <2>3, <2>5, <2>7
<1>4. N \in 1..N
  OBVIOUS
<1>5. Has(N)
  <2> HIDE DEF Has
  <2> QED BY <1>3, <1>4
<1> QED BY <1>5

\* The values of the types (or of anything numbered like them) are bounded.
LEMMA Bounded ==
    ASSUME NEW f \in [Types -> Nat]
    PROVE  \E m \in Types : \A x \in Types : f[x] <= f[m]
<1> DEFINE g == [i \in 1..VMTypes |-> f[i - 1]]
<1>1. VMTypes \in Nat \ {0} /\ Types = 0..(VMTypes - 1)
  BY ViewAssumption DEF Types
<1>2. g \in [1..VMTypes -> Nat]
  BY <1>1
<1>3. PICK m \in 1..VMTypes : \A i \in 1..VMTypes : g[i] <= g[m]
  <2> HIDE DEF g
  <2> QED BY <1>1, <1>2, GreatestExists
<1>4. \A x \in Types : f[x] <= f[m - 1]
  <2> SUFFICES ASSUME NEW x \in Types PROVE f[x] <= f[m - 1]
    OBVIOUS
  <2>1. x + 1 \in 1..VMTypes /\ (x + 1) - 1 = x
    BY <1>1
  <2>2. g[x + 1] = f[x] /\ g[m] = f[m - 1]
    BY <2>1
  <2> HIDE DEF g
  <2> QED BY <1>3, <2>1, <2>2
<1>5. m - 1 \in Types
  BY <1>1
<1> QED BY <1>4, <1>5

\* A scan that replaces what it has by what is strictly greater.
LEMMA FirstGreatest ==
    ASSUME NEW S, S \subseteq Types, S # {}, NEW f \in [Types -> Nat]
    PROVE  \E x \in S : \A y \in S : f[y] <= f[x] /\ (y < x => f[y] < f[x])
<1>1. PICK m \in Types : \A x \in Types : f[x] <= f[m]
  BY Bounded
<1> DEFINE g == [x \in Types |-> f[m] - f[x]]
<1>2. S \subseteq Nat /\ \A x \in S : g[x] \in Nat
  <2>1. Types \subseteq Nat
    BY ViewAssumption DEF Types
  <2>2. \A x \in Types : f[x] \in Nat /\ f[m] \in Nat /\ f[x] <= f[m]
    BY <1>1
  <2> QED BY <2>1, <2>2
<1>3. PICK x \in S : \A y \in S : g[x] <= g[y] /\ (y < x => g[x] < g[y])
  <2> HIDE DEF g
  <2> QED BY <1>2, FirstLeast
<1>4. \A y \in S : f[y] <= f[x] /\ (y < x => f[y] < f[x])
  <2> SUFFICES ASSUME NEW y \in S PROVE f[y] <= f[x] /\ (y < x => f[y] < f[x])
    OBVIOUS
  <2>1. g[x] = f[m] - f[x] /\ g[y] = f[m] - f[y]
    OBVIOUS
  <2>2. f[m] \in Nat /\ f[x] \in Nat /\ f[y] \in Nat
    OBVIOUS
  <2> HIDE DEF g
  <2> QED BY <1>3, <2>1, <2>2
<1> QED BY <1>4

-----------------------------------------------------------------------------
(*                       The scheduler and its machines.                    *)

LEMMA ViewTypes ==
    /\ Size \in Nat \ {0} /\ Tasks = 0..(Size - 1)
    /\ VMTypes \in Nat \ {0} /\ Types = 0..(VMTypes - 1) /\ Types \subseteq Nat
    /\ \A i \in Tasks : Order[i] \in Tasks
    /\ \A t \in Tasks : \E i \in Tasks : Order[i] = t
    /\ \A x \in Types : VMList[x].flops \in Nat
    /\ \A t \in Tasks : \E type \in Types : CanBeExecuted(t, type)
<1>1. Size \in Nat \ {0} /\ VMTypes \in Nat \ {0}
  BY ViewAssumption
<1>2. Types = 0..(VMTypes - 1) /\ Types \subseteq Nat /\ Tasks = 0..(Size - 1)
  BY <1>1 DEF Types, Tasks
<1>3. Order \in Strings /\ \A x \in Types : VMList[x].flops \in Nat
  BY ViewAssumption
<1> QED BY <1>1, <1>2, <1>3, ViewAssumption DEF Strings

(* ------------------------------ choices -------------------------------- *)

LEMMA FirstSlowestIsMember ==
    ASSUME NEW S, S \subseteq Nat, S # {}, NEW type, \A x \in S : type[x] \in Types
    PROVE  FirstSlowest(S, type) \in S
<1> DEFINE f == [x \in S |-> VMList[type[x]].flops]
<1>1. \A x \in S : f[x] \in Nat /\ f[x] = VMList[type[x]].flops
  BY ViewTypes
<1> HIDE DEF f
<1>2. PICK x \in S : \A y \in S : f[x] <= f[y] /\ (y < x => f[x] < f[y])
  BY <1>1, FirstLeast
<1>3. \A y \in S : ~Faster(type[x], type[y]) /\ (y < x => Faster(type[y], type[x]))
  <2> SUFFICES ASSUME NEW y \in S
               PROVE  ~Faster(type[x], type[y]) /\ (y < x => Faster(type[y], type[x]))
    OBVIOUS
  <2>1. f[x] \in Nat /\ f[y] \in Nat /\ f[x] <= f[y] /\ (y < x => f[x] < f[y])
    BY <1>1, <1>2
  <2> QED BY <1>1, <2>1 DEF Faster
<1> QED BY <1>3 DEF FirstSlowest

LEMMA BestTypeFits ==
    ASSUME NEW t \in Tasks
    PROVE  GetBestVM(t) \in Types /\ CanBeExecuted(t, GetBestVM(t))
<1> DEFINE S == {type \in Types : CanBeExecuted(t, type)}
           id == [type \in Types |-> type]
<1>1. S \subseteq Nat /\ S # {} /\ \A x \in S : id[x] \in Types
  BY ViewTypes
<1> HIDE DEF S, id
<1>2. FirstSlowest(S, id) \in S
  BY <1>1, FirstSlowestIsMember
<1> QED BY <1>2 DEF GetBestVM, S, id

\* The type given to machine r is one that fits it, the fastest of them.
LEMMA NewTypeFits ==
    ASSUME NEW r, NewTypes(r) # {}
    PROVE  /\ NewVMType(r) \in NewTypes(r)
           /\ \A y \in NewTypes(r) : ~Faster(y, NewVMType(r))
<1> DEFINE S == NewTypes(r)
           f == [x \in Types |-> VMList[x].flops]
<1>1. S \subseteq Types /\ S # {} /\ f \in [Types -> Nat] /\ \A x \in Types : f[x] = VMList[x].flops
  BY ViewTypes DEF NewTypes
<1> HIDE DEF S, f
<1>2. PICK x \in S : \A y \in S : f[y] <= f[x] /\ (y < x => f[y] < f[x])
  BY <1>1, FirstGreatest
<1>3. \A y \in S : ~Faster(y, x) /\ (y < x => Faster(x, y))
  <2> SUFFICES ASSUME NEW y \in S PROVE ~Faster(y, x) /\ (y < x => Faster(x, y))
    OBVIOUS
  <2>1. f[x] \in Nat /\ f[y] \in Nat /\ f[y] <= f[x] /\ (y < x => f[y] < f[x])
    BY <1>1, <1>2
  <2>2. f[x] = VMList[x].flops /\ f[y] = VMList[y].flops
    BY <1>1
  <2> QED BY <2>1, <2>2 DEF Faster
<1> QED BY <1>3 DEF NewVMType, S

\* A set of numbers has an r-th member.
LEMMA RankExists ==
    ASSUME NEW n \in Nat, NEW U, U \subseteq 1..n, NEW r \in 1..Cardinality(U)
    PROVE  \E v \in U : Cardinality({u \in U : u <= v}) = r
<1> DEFINE UpTo(k) == {u \in U : u <= k}
           c == [k \in 0..n |-> Cardinality(UpTo(k))]
           Enough == {k \in 0..n : r <= c[k]}
<1>1. IsFiniteSet(U)
  <2>1. IsFiniteSet(1..n)
    BY FS_Interval
  <2> QED BY <2>1, FS_Subset
<1>2. \A k \in 0..n : IsFiniteSet(UpTo(k)) /\ c[k] \in Nat
  <2> SUFFICES ASSUME NEW k \in 0..n PROVE IsFiniteSet(UpTo(k)) /\ Cardinality(UpTo(k)) \in Nat
    OBVIOUS
  <2>1. UpTo(k) \in SUBSET U
    OBVIOUS
  <2> HIDE DEF UpTo
  <2>2. IsFiniteSet(UpTo(k))
    BY <1>1, <2>1, FS_Subset
  <2> QED BY <2>2, FS_CardinalityType
<1>3. UpTo(n) = U /\ UpTo(0) = {}
  <2>1. \A u \in U : u <= n /\ ~(u <= 0)
    OBVIOUS
  <2> QED BY <2>1
<1>4. c[n] = Cardinality(U) /\ c[0] = 0
  <2> HIDE DEF UpTo
  <2> QED BY <1>3, FS_EmptySet
<1>5. n \in Enough
  <2>1. Cardinality(U) \in Nat
    BY <1>1, FS_CardinalityType
  <2> HIDE DEF c
  <2> QED BY <1>4, <2>1
<1>6. PICK k \in Enough : \A m \in Enough : k <= m
  <2>1. Enough \subseteq Nat
    OBVIOUS
  <2> HIDE DEF Enough
  <2> QED BY <1>5, <2>1, LeastExists
<1>7. k \in 1..n /\ k - 1 \in 0..n /\ r <= c[k] /\ ~(r <= c[k - 1])
  <2> HIDE DEF c
  <2>1. k \in 0..n /\ r <= c[k]
    OBVIOUS
  <2>2. k # 0
    BY <1>4, <2>1
  <2>3. k \in 1..n /\ k - 1 \in 0..n /\ ~(k <= k - 1)
    BY <2>1, <2>2
  <2>4. k - 1 \notin Enough
    BY <1>6, <2>3
  <2> QED BY <2>1, <2>3, <2>4
<1>8. c[k] = Cardinality(UpTo(k)) /\ c[k - 1] = Cardinality(UpTo(k - 1))
  BY <1>7
<1>9. c[k] \in Nat /\ c[k - 1] \in Nat /\ IsFiniteSet(UpTo(k - 1))
  <2> HIDE DEF c, UpTo
  <2> QED BY <1>2, <1>7
<1> HIDE DEF c, Enough
<1>12. k \in Nat /\ ~(k <= k - 1) /\ \A u \in U : u <= k <=> u <= k - 1 \/ u = k
  <2>1. \A u \in U : u \in 1..n
    OBVIOUS
  <2> QED BY <1>7, <2>1
<1>10. CASE k \in U
  <2>1. UpTo(k) = UpTo(k - 1) \cup {k} /\ k \notin UpTo(k - 1)
    BY <1>10, <1>12
  <2>2. c[k] = c[k - 1] + 1
    <3> HIDE DEF UpTo
    <3> QED BY <1>8, <1>9, <2>1, FS_AddElement
  <2>3. c[k] = r
    BY <1>7, <1>9, <2>2
  <2> QED BY <1>8, <1>10, <2>3
<1>11. CASE k \notin U
  <2>1. UpTo(k) = UpTo(k - 1)
    BY <1>11, <1>12
  <2> QED BY <1>7, <1>8, <2>1
<1> QED BY <1>10, <1>11

Machine == [type : Types, queue : Seq(Tasks)]

LEMMA MachineTypes ==
    ASSUME vms \in Seq(Machine)
    PROVE  /\ Len(vms) \in Nat /\ DOMAIN vms = 1..Len(vms)
           /\ \A v \in DOMAIN vms : vms[v] \in Machine
           /\ \A v \in DOMAIN vms : vms[v].type \in Types /\ vms[v].queue \in Seq(Tasks)
<1>1. /\ Len(vms) \in Nat /\ DOMAIN vms = 1..Len(vms)
      /\ \A v \in DOMAIN vms : vms[v] \in Machine
  OBVIOUS
<1> QED BY <1>1 DEF Machine

\* Of the machines that can be upgraded there is an r-th.
LEMMA UpgradableVMExists ==
    ASSUME vms \in Seq(Machine),
           NEW r \in 1..Cardinality(Upgradable)
    PROVE  UpgradableVM(r) \in Upgradable
<1>1. Upgradable \subseteq 1..Len(vms) /\ Len(vms) \in Nat
  BY MachineTypes DEF Upgradable
<1>2. \E v \in Upgradable : Cardinality({u \in Upgradable : u <= v}) = r
  BY <1>1, RankExists
<1> QED BY <1>2 DEF UpgradableVM

(* --------------------------- the invariant ------------------------------ *)

Phases == {"place", "check", "done", "can't upgrade VM type", "task order is inconsistent"}

BaselineTypeOK ==
    /\ next \in 0..Size
    /\ vms \in Seq(Machine)
    /\ Len(vms) <= next
    /\ phase \in Phases
    /\ phase # "place" => next = Size

\* Every task placed is in a queue.
PlacedAreQueued ==
    \A i \in 0..(next - 1) : \E v \in DOMAIN vms : Order[i] \in ToSet(vms[v].queue)

BaselineInv == BaselineTypeOK /\ MachinesFit /\ PlacedAreQueued

LEMMA BaselineInit_Inv == Init => BaselineInv
<1> SUFFICES ASSUME Init PROVE BaselineInv
  OBVIOUS
<1>1. BaselineTypeOK
  BY ViewTypes DEF Init, BaselineTypeOK, Phases
<1>2. MachinesFit /\ PlacedAreQueued
  BY ViewTypes DEF Init, MachinesFit, PlacedAreQueued
<1> QED BY <1>1, <1>2 DEF BaselineInv

LEMMA AppendedQueue ==
    ASSUME NEW q \in Seq(Tasks), NEW t \in Tasks
    PROVE  Append(q, t) \in Seq(Tasks) /\ ToSet(Append(q, t)) = ToSet(q) \cup {t}
<1>1. /\ Append(q, t) \in Seq(Tasks) /\ Len(Append(q, t)) = Len(q) + 1 /\ Len(q) \in Nat
      /\ \A i \in 1..Len(q) : Append(q, t)[i] = q[i]
      /\ Append(q, t)[Len(q) + 1] = t
  OBVIOUS
<1>2. DOMAIN q = 1..Len(q) /\ DOMAIN Append(q, t) = 1..(Len(q) + 1)
  BY <1>1
<1>3. \A x \in ToSet(q) : x \in ToSet(Append(q, t))
  BY <1>1, <1>2 DEF ToSet
<1>4. t \in ToSet(Append(q, t))
  BY <1>1, <1>2 DEF ToSet
<1>5. \A x \in ToSet(Append(q, t)) : x \in ToSet(q) \/ x = t
  <2> SUFFICES ASSUME NEW i \in 1..(Len(q) + 1)
               PROVE  Append(q, t)[i] \in ToSet(q) \/ Append(q, t)[i] = t
    BY <1>2 DEF ToSet
  <2>1. i \in 1..Len(q) \/ i = Len(q) + 1
    BY <1>1
  <2> QED BY <1>1, <1>2, <2>1 DEF ToSet
<1> QED BY <1>1, <1>3, <1>4, <1>5

LEMMA PlaceTaskStep ==
    ASSUME BaselineInv, PlaceTask
    PROVE  BaselineInv'
<1> DEFINE t == Order[next]
           begin == Max(Ends(t, taskEndTime))
           free == FreeVMs(t, begin)
           typeOf == [v \in free |-> vms[v].type]
           best == FirstSlowest(free, typeOf)
           new == [type |-> GetBestVM(t), queue |-> <<t>>]
<1>1. /\ vms' = IF free = {} THEN Append(vms, new)
                ELSE [vms EXCEPT ![best].queue = Append(@, t)]
      /\ next' = next + 1 /\ phase' = phase /\ phase = "place" /\ next < Size
  BY DEF PlaceTask
<1>2. /\ vms \in Seq(Machine) /\ next \in 0..Size /\ next' \in 0..Size /\ Len(vms) <= next
      /\ t \in Tasks /\ Len(vms) \in Nat /\ DOMAIN vms = 1..Len(vms)
  <2>1. vms \in Seq(Machine) /\ next \in 0..Size /\ Len(vms) <= next
    BY DEF BaselineInv, BaselineTypeOK
  <2>2. next < Size /\ next' = next + 1
    BY <1>1
  <2>3. next \in Tasks /\ next' \in 0..Size
    BY <2>1, <2>2, ViewTypes
  <2>4. t \in Tasks
    BY <2>3, ViewTypes
  <2> HIDE DEF t
  <2> QED BY <2>1, <2>3, <2>4
<1>3. \A v \in DOMAIN vms : vms[v].type \in Types /\ vms[v].queue \in Seq(Tasks) /\ Fits(v, vms[v].type)
  BY <1>2, MachineTypes DEF BaselineInv, MachinesFit
\* what holds of the machine that gets the task
<1>4. ASSUME NEW w, w \in DOMAIN vms', vms'[w].type \in Types, CanBeExecuted(t, vms'[w].type),
             vms'[w].queue \in Seq(Tasks),
             \/ ToSet(vms'[w].queue) = {t}
             \/ w \in DOMAIN vms /\ vms'[w].type = vms[w].type
                /\ ToSet(vms'[w].queue) = ToSet(vms[w].queue) \cup {t},
             \A v \in DOMAIN vms : v # w => v \in DOMAIN vms' /\ vms'[v] = vms[v],
             w \in DOMAIN vms => ToSet(vms[w].queue) \subseteq ToSet(vms'[w].queue),
             DOMAIN vms' = DOMAIN vms \cup {w}
      PROVE  MachinesFit' /\ PlacedAreQueued'
  <2>1. t \in ToSet(vms'[w].queue)
    BY <1>4
  <2>2. ASSUME NEW v \in DOMAIN vms', NEW u \in ToSet(vms'[v].queue)
        PROVE  CanBeExecuted(u, vms'[v].type)
    <3>1. CASE v = w
      BY <1>3, <1>4, <3>1, <2>2 DEF Fits
    <3>2. CASE v # w
      BY <1>3, <1>4, <3>2, <2>2 DEF Fits
    <3> QED BY <3>1, <3>2
  <2>3. MachinesFit'
    BY <2>2 DEF MachinesFit, Fits
  <2>4. ASSUME NEW i \in 0..(next' - 1)
        PROVE  \E v \in DOMAIN vms' : Order[i] \in ToSet(vms'[v].queue)
    <3>1. CASE i = next
      BY <1>4, <2>1, <3>1
    <3>2. CASE i # next
      <4>1. i \in 0..(next - 1)
        BY <1>1, <1>2, <3>2
      <4>2. PICK v \in DOMAIN vms : Order[i] \in ToSet(vms[v].queue)
        BY <4>1 DEF BaselineInv, PlacedAreQueued
      <4> QED BY <1>4, <4>2
    <3> QED BY <3>1, <3>2
  <2> QED BY <2>3, <2>4 DEF PlacedAreQueued
<1>5. CASE free = {}
  <2>1. new \in Machine
    BY <1>2, BestTypeFits DEF Machine
  <2> HIDE DEF new, free, best, t
  <2>2. /\ vms' \in Seq(Machine) /\ Len(vms') = Len(vms) + 1
        /\ DOMAIN vms' = DOMAIN vms \cup {Len(vms) + 1}
        /\ \A v \in DOMAIN vms : vms'[v] = vms[v] /\ v # Len(vms) + 1
        /\ vms'[Len(vms) + 1] = new
    BY <1>1, <1>2, <1>5, <2>1
  <2>3. new.type = GetBestVM(t) /\ ToSet(new.queue) = {t} /\ new.queue \in Seq(Tasks)
    BY <1>2 DEF new, ToSet
  <2>4. MachinesFit' /\ PlacedAreQueued'
    <3> DEFINE w == Len(vms) + 1
    <3>1. w \notin DOMAIN vms
      BY <1>2
    <3>2. vms'[w].type \in Types /\ CanBeExecuted(t, vms'[w].type)
      BY <1>2, <2>2, <2>3, BestTypeFits
    <3> HIDE DEF w
    <3> QED BY <1>4, <2>2, <2>3, <3>1, <3>2 DEF w
  <2>5. BaselineTypeOK'
    BY <1>1, <1>2, <2>2 DEF BaselineInv, BaselineTypeOK, Phases
  <2> QED BY <2>4, <2>5 DEF BaselineInv
<1>6. CASE free # {}
  <2>1. free \subseteq DOMAIN vms /\ free \subseteq Nat
    BY <1>2 DEF FreeVMs
  <2>2. best \in free
    <3>1. \A v \in free : typeOf[v] \in Types
      BY <1>3, <2>1
    <3> HIDE DEF free, typeOf
    <3> QED BY <1>6, <2>1, <3>1, FirstSlowestIsMember
  <2>3. best \in DOMAIN vms /\ CanBeExecuted(t, vms[best].type)
    BY <2>1, <2>2 DEF FreeVMs
  <2> HIDE DEF free, best, t
  <2>4. vms' = [vms EXCEPT ![best].queue = Append(@, t)]
    BY <1>1, <1>6
  <2>5. vms[best] \in Machine /\ Append(vms[best].queue, t) \in Seq(Tasks)
    BY <1>2, <1>3, <2>3, AppendedQueue
  <2> DEFINE changed == [vms[best] EXCEPT !.queue = Append(vms[best].queue, t)]
  <2>11. vms' = [vms EXCEPT ![best] = changed]
    BY <2>4
  <2>12. /\ changed \in Machine /\ changed.type = vms[best].type
         /\ changed.queue = Append(vms[best].queue, t)
    BY <2>5 DEF Machine
  <2> HIDE DEF changed
  <2>6. /\ DOMAIN vms' = DOMAIN vms /\ Len(vms') = Len(vms)
        /\ vms'[best].type = vms[best].type
        /\ vms'[best].queue = Append(vms[best].queue, t)
        /\ \A v \in DOMAIN vms : v # best => vms'[v] = vms[v]
    BY <1>2, <2>3, <2>11, <2>12
  <2>7. vms' \in Seq(Machine)
    BY <1>2, <2>3, <2>11, <2>12
  <2>8. ToSet(vms'[best].queue) = ToSet(vms[best].queue) \cup {t}
    BY <1>2, <1>3, <2>3, <2>6, AppendedQueue
  <2>9. MachinesFit' /\ PlacedAreQueued'
    <3>1. /\ best \in DOMAIN vms' /\ vms'[best].type \in Types
          /\ CanBeExecuted(t, vms'[best].type) /\ vms'[best].queue \in Seq(Tasks)
          /\ DOMAIN vms' = DOMAIN vms \cup {best}
      BY <1>3, <2>3, <2>5, <2>6
    <3>2. \A v \in DOMAIN vms : v # best => v \in DOMAIN vms' /\ vms'[v] = vms[v]
      BY <2>6
    <3>3. ToSet(vms[best].queue) \subseteq ToSet(vms'[best].queue)
      BY <2>8
    <3>4. \/ ToSet(vms'[best].queue) = {t}
          \/ best \in DOMAIN vms /\ vms'[best].type = vms[best].type
             /\ ToSet(vms'[best].queue) = ToSet(vms[best].queue) \cup {t}
      BY <2>3, <2>6, <2>8
    <3> QED BY <1>4, <3>1, <3>2, <3>3, <3>4
  <2>10. BaselineTypeOK'
    <3>1. Len(vms') <= next' /\ phase' \in Phases /\ (phase' # "place" => next' = Size)
      <4>1. Len(vms') = Len(vms) /\ next' = next + 1 /\ phase' = "place"
        BY <1>1, <2>6
      <4>2. Len(vms) \in Nat /\ next \in Nat /\ Len(vms) <= next
        BY <1>2, ViewTypes
      <4> QED BY <4>1, <4>2 DEF Phases
    <3> QED BY <1>2, <2>7, <3>1 DEF BaselineTypeOK
  <2> QED BY <2>9, <2>10 DEF BaselineInv
<1> QED BY <1>5, <1>6

\* The type is that of the machine that is changed, though the choice of it
\* looks at another one too.
LEMMA UpgradeStep ==
    ASSUME BaselineInv, NEW r \in 1..Cardinality(Upgradable), NewTypes(r) # {},
           vms' = [vms EXCEPT ![r].type = NewVMType(r)]
    PROVE  /\ vms' \in Seq(Machine) /\ Len(vms') = Len(vms)
           /\ \A v \in DOMAIN vms : /\ vms'[v].queue = vms[v].queue
                                    /\ Fits(v, vms'[v].type)
                                    /\ ~Faster(vms[v].type, vms'[v].type)
<1> DEFINE new == NewVMType(r)
<1>0. vms \in Seq(Machine) /\ \A v \in DOMAIN vms : Fits(v, vms[v].type)
  BY DEF BaselineInv, BaselineTypeOK, MachinesFit
<1>1. /\ vms \in Seq(Machine) /\ DOMAIN vms = 1..Len(vms) /\ Len(vms) \in Nat
      /\ \A v \in DOMAIN vms : /\ vms[v] \in Machine /\ vms[v].type \in Types
                               /\ Fits(v, vms[v].type)
  BY <1>0, MachineTypes
<1>2. new \in Types /\ Fits(r, new) /\ \A y \in NewTypes(r) : ~Faster(y, new)
  BY NewTypeFits DEF NewTypes
<1>3. Faster(new, vms[UpgradableVM(r)].type)
  BY NewTypeFits DEF NewTypes
<1> HIDE DEF new
<1> DEFINE changed == [vms[r] EXCEPT !.type = new]
<1>4. vms' = [vms EXCEPT ![r] = changed]
  BY DEF new
<1>5. \A v \in DOMAIN vms : v # r => vms'[v] = vms[v]
  BY <1>1, <1>4
<1>6. r \in DOMAIN vms => vms'[r] = changed
  BY <1>1, <1>4
<1>9. ASSUME r \in DOMAIN vms
      PROVE  changed \in Machine /\ changed.type = new /\ changed.queue = vms[r].queue
  <2>1. vms[r] \in Machine
    BY <1>1, <1>9
  <2> HIDE DEF new
  <2> QED BY <1>2, <2>1 DEF Machine
<1> HIDE DEF changed
<1>7. vms' \in Seq(Machine) /\ Len(vms') = Len(vms)
  <2>1. CASE r \in DOMAIN vms
    <3>1. changed \in Machine
      BY <1>9, <2>1
    <3> QED BY <1>1, <1>4, <2>1, <3>1
  <2>2. CASE r \notin DOMAIN vms
    <3>1. vms' = vms
      BY <1>1, <1>4, <2>2
    <3> QED BY <1>1, <3>1
  <2> QED BY <2>1, <2>2
<1>8. ASSUME NEW v \in DOMAIN vms
      PROVE  /\ vms'[v].queue = vms[v].queue /\ Fits(v, vms'[v].type)
             /\ ~Faster(vms[v].type, vms'[v].type)
  <2>1. CASE v # r
    <3>1. vms'[v] = vms[v] /\ VMList[vms[v].type].flops \in Nat /\ Fits(v, vms[v].type)
      BY <1>1, <1>5, <2>1, ViewTypes
    <3>2. ~Faster(vms[v].type, vms[v].type)
      BY <3>1 DEF Faster
    <3> QED BY <3>1, <3>2, Zenon
  <2>2. CASE v = r
    <3>1. vms'[v].queue = vms[v].queue /\ vms'[v].type = new
      BY <1>6, <1>9, <2>2
    <3>2. ~Faster(vms[v].type, new)
      <4> SUFFICES ASSUME Faster(vms[v].type, new) PROVE FALSE
        OBVIOUS
      <4>1. vms[v].type \notin NewTypes(r)
        BY <1>2
      <4>2. ~Faster(vms[v].type, vms[UpgradableVM(r)].type)
        BY <1>1, <2>2, <4>1 DEF NewTypes
      <4>3. vms[v].type \in Types /\ vms[UpgradableVM(r)].type \in Types
        BY <1>1, UpgradableVMExists DEF Upgradable
      <4> DEFINE other == vms[UpgradableVM(r)].type
      <4> HIDE DEF other
      <4>4. /\ VMList[vms[v].type].flops \in Nat /\ VMList[new].flops \in Nat
            /\ VMList[other].flops \in Nat
        BY <1>2, <4>3, ViewTypes DEF other
      <4>5. Faster(new, other) /\ ~Faster(vms[v].type, other)
        BY <1>3, <4>2 DEF other
      <4> QED BY <4>4, <4>5 DEF Faster
    <3> QED BY <1>2, <2>2, <3>1, <3>2
  <2> QED BY <2>1, <2>2
<1> QED BY <1>7, <1>8

LEMMA BaselineStep == BaselineInv /\ [Next]_vars => BaselineInv'
<1> SUFFICES ASSUME BaselineInv, [Next]_vars PROVE BaselineInv'
  OBVIOUS
<1>1. CASE PlaceTask
  BY <1>1, PlaceTaskStep
<1>2. CASE FirstMakespan
  <2>1. UNCHANGED <<next, vms>> /\ next = Size /\ phase' \in Phases
    BY <1>2 DEF FirstMakespan, Calculated, Phases
  <2> QED BY <2>1 DEF BaselineInv, BaselineTypeOK, MachinesFit, Fits, PlacedAreQueued
<1>3. CASE UpgradeRandomVM
  <2>1. phase = "check" /\ next' = next /\ next = Size /\ phase' \in Phases
    BY <1>3 DEF UpgradeRandomVM, Calculated, Phases, BaselineInv, BaselineTypeOK
  <2>2. CASE vms' = vms
    BY <2>1, <2>2 DEF BaselineInv, BaselineTypeOK, MachinesFit, Fits, PlacedAreQueued
  <2>3. CASE vms' # vms
    <3>1. PICK r \in 1..Cardinality(Upgradable) :
             NewTypes(r) # {} /\ vms' = [vms EXCEPT ![r].type = NewVMType(r)]
      BY <1>3, <2>3 DEF UpgradeRandomVM
    <3>2. /\ vms' \in Seq(Machine) /\ Len(vms') = Len(vms)
          /\ \A v \in DOMAIN vms : vms'[v].queue = vms[v].queue /\ Fits(v, vms'[v].type)
      BY <3>1, UpgradeStep
    <3>3. DOMAIN vms' = DOMAIN vms
      BY <3>2 DEF BaselineInv, BaselineTypeOK
    <3>4. BaselineTypeOK'
      BY <2>1, <3>2 DEF BaselineInv, BaselineTypeOK
    <3>5. MachinesFit' /\ PlacedAreQueued'
      BY <2>1, <3>2, <3>3 DEF BaselineInv, MachinesFit, Fits, PlacedAreQueued
    <3> QED BY <3>4, <3>5 DEF BaselineInv
  <2> QED BY <2>2, <2>3
<1>4. CASE MakeActions
  BY <1>4 DEF MakeActions, BaselineInv, BaselineTypeOK, Phases, MachinesFit, Fits, PlacedAreQueued
<1>5. CASE Ended \/ UNCHANGED vars
  BY <1>5 DEF Ended, vars, BaselineInv, BaselineTypeOK, MachinesFit, Fits, PlacedAreQueued
<1> QED BY <1>1, <1>2, <1>3, <1>4, <1>5 DEF Next

LEMMA BaselineInvariant == Spec => []BaselineInv
BY BaselineInit_Inv, BaselineStep, PTL DEF Spec

(* ------------------------------ recursion ------------------------------ *)

\* A function on 0..n that is defined step by step exists.
Stepwise(n, S, s0, step, f) ==
    f \in [0..n -> S] /\ f[0] = s0 /\ \A i \in 1..n : f[i] = step[<<f[i - 1], i>>]

LEMMA StepByStep ==
    ASSUME NEW n \in Nat, NEW S, NEW s0 \in S, NEW step \in [S \X (1..n) -> S]
    PROVE  \E f : Stepwise(n, S, s0, step, f)
<1> DEFINE UpTo(k, f) == f \in [0..k -> S]
                         /\ \A i \in 0..k : f[i] = IF i = 0 THEN s0 ELSE step[<<f[i - 1], i>>]
           Bad == {k \in 0..n : \A f \in [0..k -> S] : ~UpTo(k, f)}
<1>1. CASE Bad = {}
  <2>1. n \in 0..n /\ n \notin Bad
    BY <1>1
  <2>2. PICK f \in [0..n -> S] : UpTo(n, f)
    BY <2>1
  <2>3. f[0] = s0 /\ \A i \in 1..n : f[i] = step[<<f[i - 1], i>>]
    <3>1. 0 \in 0..n /\ \A i \in 1..n : i \in 0..n /\ i # 0
      OBVIOUS
    <3> QED BY <2>2, <3>1
  <2> QED BY <2>2, <2>3 DEF Stepwise
<1>2. CASE Bad # {}
  <2>1. PICK k \in Bad : \A j \in Bad : k <= j
    <3>1. Bad \subseteq Nat
      OBVIOUS
    <3> HIDE DEF Bad
    <3> QED BY <1>2, <3>1, LeastExists
  <2>2. k \in 0..n /\ \A f \in [0..k -> S] : ~UpTo(k, f)
    OBVIOUS
  <2>3. CASE k = 0
    <3> DEFINE f == [i \in 0..0 |-> s0]
    <3>1. UpTo(0, f) /\ f \in [0..0 -> S]
      OBVIOUS
    <3> QED BY <2>2, <2>3, <3>1
  <2>4. CASE k # 0
    <3>1. k - 1 \in 0..n /\ ~(k <= k - 1) /\ k \in 1..n
      BY <2>2, <2>4
    <3>2. k - 1 \notin Bad
      <4> HIDE DEF Bad
      <4> QED BY <2>1, <3>1
    <3>3. PICK g \in [0..(k - 1) -> S] : UpTo(k - 1, g)
      BY <3>1, <3>2
    <3> DEFINE f == [i \in 0..k |-> IF i = k THEN step[<<g[k - 1], k>>] ELSE g[i]]
    <3>4. g[k - 1] \in S /\ step[<<g[k - 1], k>>] \in S
      BY <3>1, <3>3
    <3>5. \A i \in 0..k : i # k => i \in 0..(k - 1) /\ f[i] = g[i] /\ g[i] \in S
      BY <3>1, <3>3
    <3>6. f[k] = step[<<g[k - 1], k>>] /\ k - 1 \in 0..k /\ k - 1 # k /\ k \in 0..k
      BY <3>1
    <3>7. f \in [0..k -> S]
      BY <3>4, <3>5
    <3>8. ASSUME NEW i \in 0..k PROVE f[i] = IF i = 0 THEN s0 ELSE step[<<f[i - 1], i>>]
      <4>1. CASE i = k
        <5>1. f[k - 1] = g[k - 1]
          BY <3>5, <3>6
        <5> HIDE DEF f
        <5> QED BY <2>4, <3>6, <4>1, <5>1
      <4>2. CASE i # k
        <5>1. i \in 0..(k - 1) /\ f[i] = g[i]
          BY <3>5, <4>2
        <5>2. g[i] = IF i = 0 THEN s0 ELSE step[<<g[i - 1], i>>]
          BY <3>3, <5>1
        <5>3. i # 0 => i - 1 \in 0..k /\ i - 1 # k
          BY <3>1, <5>1
        <5>4. i # 0 => f[i - 1] = g[i - 1]
          BY <3>5, <5>3
        <5> HIDE DEF f
        <5> QED BY <5>1, <5>2, <5>4
      <4> QED BY <4>1, <4>2
    <3> QED BY <2>2, <3>7, <3>8
  <2> QED BY <2>3, <2>4
<1> QED BY <1>1, <1>2

(* -------------------------------- times -------------------------------- *)

\* Of finitely many times and 0 there is a latest.
LatestEnd(D, f) == Max({0} \cup {f[d] : d \in D})

LEMMA LatestExists ==
    ASSUME NEW D, D \subseteq Tasks, NEW f, \A d \in D : f[d] \in Nat
    PROVE  /\ LatestEnd(D, f) \in Nat
           /\ \A d \in D : f[d] <= LatestEnd(D, f)
           /\ LatestEnd(D, f) = 0 \/ \E d \in D : LatestEnd(D, f) = f[d]
<1> USE DEF LatestEnd
<1> DEFINE S == {0} \cup {f[d] : d \in D}
           g == [i \in 1..Size |-> IF i - 1 \in D THEN f[i - 1] ELSE 0]
<1>1. Size \in Nat \ {0} /\ \A d \in D : d + 1 \in 1..Size /\ (d + 1) - 1 = d /\ d \in Nat
  BY ViewTypes
<1>2. g \in [1..Size -> Nat]
  OBVIOUS
<1>3. PICK m \in 1..Size : \A i \in 1..Size : g[i] <= g[m]
  <2> HIDE DEF g
  <2> QED BY <1>1, <1>2, GreatestExists
<1>4. g[m] \in S /\ g[m] \in Nat
  OBVIOUS
<1>5. \A d \in D : g[d + 1] = f[d]
  BY <1>1
<1>6. \A y \in S : y \in Nat /\ g[m] >= y
  <2> SUFFICES ASSUME NEW y \in S PROVE y \in Nat /\ g[m] >= y
    OBVIOUS
  <2>1. CASE y = 0
    <3> HIDE DEF g
    <3> QED BY <1>4, <2>1
  <2>2. CASE y # 0
    <3>1. PICK d \in D : y = f[d]
      BY <2>2
    <3>2. g[d + 1] = y /\ g[d + 1] <= g[m] /\ y \in Nat
      <4> HIDE DEF g
      <4> QED BY <1>1, <1>3, <1>5, <3>1
    <3> HIDE DEF g
    <3> QED BY <1>4, <3>2
  <2> QED BY <2>1, <2>2
<1> HIDE DEF g
<1>7. Max(S) \in S /\ \A y \in S : Max(S) >= y
  BY <1>4, <1>6 DEF Max
<1>8. \A d \in D : f[d] \in S
  OBVIOUS
<1>9. \A y \in S : y = 0 \/ \E d \in D : y = f[d]
  OBVIOUS
<1> HIDE DEF S
<1>10. /\ Max(S) \in Nat /\ \A d \in D : f[d] <= Max(S)
       /\ Max(S) = 0 \/ \E d \in D : Max(S) = f[d]
  BY <1>6, <1>7, <1>8, <1>9
<1> QED BY <1>10 DEF S

LEMMA ExecutionTakesTime ==
    ASSUME NEW t \in Tasks, NEW type \in Types PROVE GetExecutionTime(t, type) \in Nat
<1>1. Requirements[t].size \in Nat /\ VMList[type].flops \in Nat \ {0}
  BY ViewAssumption
<1> QED BY <1>1 DEF GetExecutionTime

\* Machines with queues that can be worked off in the order of the tasks.
WellQueued(machines) ==
    /\ machines \in Seq(Machine)
    /\ \A v, w \in DOMAIN machines : \A i \in DOMAIN machines[v].queue : \A j \in DOMAIN machines[w].queue :
          machines[v].queue[i] = machines[w].queue[j] => v = w /\ i = j
    /\ \A v \in DOMAIN machines : \A i, j \in DOMAIN machines[v].queue : \A a, b \in Tasks :
          i < j /\ machines[v].queue[i] = Order[a] /\ machines[v].queue[j] = Order[b] => a < b

AllQueued(machines) == \A t \in Tasks : \E v \in DOMAIN machines : t \in ToSet(machines[v].queue)

LEMMA MachineIs ==
    ASSUME NEW machines \in Seq(Machine), NEW v \in DOMAIN machines
    PROVE  /\ machines[v] \in Machine /\ machines[v].type \in Types
           /\ machines[v].queue \in Seq(Tasks) /\ Len(machines[v].queue) \in Nat
           /\ DOMAIN machines[v].queue = 1..Len(machines[v].queue)
           /\ \A i \in DOMAIN machines[v].queue : machines[v].queue[i] \in Tasks
<1>1. machines[v] \in Machine
  OBVIOUS
<1>2. machines[v].type \in Types /\ machines[v].queue \in Seq(Tasks)
  BY <1>1 DEF Machine
<1> QED BY <1>1, <1>2

LEMMA OrderRises ==
    \A i, j \in Tasks : Order[i] \in Dependencies[Order[j]] => i < j
BY ViewAssumption DEF InOrder

LEMMA OrderInjective ==
    \A i, j \in Tasks : Order[i] = Order[j] => i = j
BY ViewAssumption DEF Strings

LEMMA Earlier ==
    /\ \A i \in Tasks : \A j \in 0..(i - 1) : j \in Tasks /\ j < i
    /\ \A i, j \in Tasks : j < i => j \in 0..(i - 1)
<1>1. Tasks = 0..(Size - 1) /\ Size \in Nat
  BY ViewTypes
<1> QED BY <1>1

\* Where a task is, and what is before it.
LEMMA QueuedAt ==
    ASSUME NEW machines, WellQueued(machines), NEW v \in DOMAIN machines,
           NEW i \in DOMAIN machines[v].queue, NEW t, machines[v].queue[i] = t
    PROVE  /\ t \in Tasks /\ MachineOf(machines, t) = v
           /\ i = 1 => QueuedBefore(machines, t) = {}
           /\ i # 1 => /\ i - 1 \in DOMAIN machines[v].queue
                       /\ QueuedBefore(machines, t) = {machines[v].queue[i - 1]}
<1> DEFINE queue == machines[v].queue
<1>1. /\ machines[v] \in Machine /\ queue \in Seq(Tasks) /\ t \in Tasks
      /\ DOMAIN queue = 1..Len(queue) /\ Len(queue) \in Nat
  BY MachineIs DEF WellQueued
<1>2. t \in ToSet(queue)
  BY DEF ToSet
<1>3. \A w \in DOMAIN machines : t \in ToSet(machines[w].queue) => w = v
  BY DEF WellQueued, ToSet
<1>4. MachineOf(machines, t) = v
  BY <1>2, <1>3 DEF MachineOf
<1>5. \A j \in DOMAIN queue : queue[j] = t => j = i
  BY DEF WellQueued
<1>6. QueuedBefore(machines, t) = {queue[j - 1] : j \in {j \in DOMAIN queue \ {1} : queue[j] = t}}
  BY <1>4 DEF QueuedBefore
<1>7. i = 1 => {j \in DOMAIN queue \ {1} : queue[j] = t} = {}
  BY <1>5
<1>8. i # 1 => {j \in DOMAIN queue \ {1} : queue[j] = t} = {i} /\ i - 1 \in DOMAIN queue
  BY <1>1, <1>5
<1> HIDE DEF queue
<1>9. i = 1 => QueuedBefore(machines, t) = {}
  BY <1>6, <1>7
<1>10. i # 1 => QueuedBefore(machines, t) = {queue[i - 1]}
  BY <1>6, <1>8
<1> QED BY <1>1, <1>4, <1>8, <1>9, <1>10 DEF queue

\* The end time of the k-th task of a queue.
Before(queue, k) == IF k = 1 THEN {} ELSE {queue[k - 1]}

QueueEnd(queue, type, k, h) ==
    LatestEnd(Dependencies[queue[k]] \cup Before(queue, k), h)
    + (IF k = 1 THEN AvgLag ELSE 0) + GetExecutionTime(queue[k], type)

LEMMA EndTimeIs ==
    ASSUME NEW machines, WellQueued(machines), NEW v \in DOMAIN machines,
           NEW k \in DOMAIN machines[v].queue, NEW t, machines[v].queue[k] = t, NEW h
    PROVE  EndTime(machines, h, t) = QueueEnd(machines[v].queue, machines[v].type, k, h)
<1> DEFINE queue == machines[v].queue
           previous == QueuedBefore(machines, t)
<1>1. k = 1 => previous = {}
  BY QueuedAt
<1>2. k # 1 => previous = {queue[k - 1]}
  BY QueuedAt
<1>3. MachineOf(machines, t) = v
  BY QueuedAt
<1>4. previous = Before(queue, k)
  BY <1>1, <1>2 DEF Before
<1>5. (previous = {}) <=> k = 1
  BY <1>1, <1>2
<1>6. Max(Ends(t, h) \cup {h[p] : p \in previous}) = LatestEnd(Dependencies[t] \cup previous, h)
  <2>1. Ends(t, h) \cup {h[p] : p \in previous} = {0} \cup {h[d] : d \in Dependencies[t] \cup previous}
    BY DEF Ends
  <2> QED BY <2>1 DEF LatestEnd
<1>7. EndTime(machines, h, t) = LatestEnd(Dependencies[t] \cup previous, h)
                                + (IF previous = {} THEN AvgLag ELSE 0)
                                + GetExecutionTime(t, machines[v].type)
  <2> HIDE DEF previous
  <2> QED BY <1>3, <1>6 DEF EndTime, previous
<1> HIDE DEF previous
<1> QED BY <1>4, <1>5, <1>7 DEF QueueEnd

\* It depends on earlier tasks only.
LEMMA EarlierOnly ==
    ASSUME NEW machines, WellQueued(machines), NEW v \in DOMAIN machines,
           NEW k \in DOMAIN machines[v].queue, NEW i \in Tasks, machines[v].queue[k] = Order[i],
           NEW d \in Dependencies[Order[i]] \cup Before(machines[v].queue, k)
    PROVE  \E j \in 0..(i - 1) : d = Order[j]
<1>1. CASE d \in Dependencies[Order[i]]
  <2>1. d \in Tasks
    BY <1>1, ViewAssumption, ViewTypes
  <2>2. PICK j \in Tasks : Order[j] = d
    BY <2>1, ViewTypes
  <2>3. j < i
    BY <1>1, <2>2, OrderRises
  <2> QED BY <2>2, <2>3, Earlier
<1>2. CASE d \in Before(machines[v].queue, k)
  <2>1. k # 1 /\ d = machines[v].queue[k - 1]
    BY <1>2 DEF Before
  <2>2. k - 1 \in DOMAIN machines[v].queue
    BY <2>1, QueuedAt
  <2>3. d \in Tasks /\ k \in Nat
    BY <2>1, <2>2, MachineIs DEF WellQueued
  <2>4. PICK j \in Tasks : Order[j] = d
    BY <2>3, ViewTypes
  <2>5. k - 1 < k
    BY <2>3
  <2>6. j < i
    BY <2>1, <2>2, <2>4, <2>5 DEF WellQueued
  <2> QED BY <2>4, <2>6, Earlier
<1> QED BY <1>1, <1>2

LEMMA EndTimeLooksBack ==
    ASSUME NEW machines, WellQueued(machines), NEW i \in Tasks,
           NEW v \in DOMAIN machines, Order[i] \in ToSet(machines[v].queue),
           NEW f, NEW g, \A j \in 0..(i - 1) : f[Order[j]] = g[Order[j]] /\ f[Order[j]] \in Nat
    PROVE  /\ EndTime(machines, f, Order[i]) = EndTime(machines, g, Order[i])
           /\ EndTime(machines, f, Order[i]) \in Nat
<1>1. PICK k \in DOMAIN machines[v].queue : machines[v].queue[k] = Order[i]
  BY DEF ToSet
<1> DEFINE queue == machines[v].queue
           type == machines[v].type
           D == Dependencies[queue[k]] \cup Before(queue, k)
<1>2. \A d \in D : \E j \in 0..(i - 1) : d = Order[j]
  BY <1>1, EarlierOnly
<1>3. \A d \in D : d \in Tasks /\ f[d] = g[d] /\ f[d] \in Nat
  <2> SUFFICES ASSUME NEW d \in D PROVE d \in Tasks /\ f[d] = g[d] /\ f[d] \in Nat
    OBVIOUS
  <2>1. PICK j \in 0..(i - 1) : d = Order[j]
    BY <1>2
  <2>2. j \in Tasks
    BY Earlier
  <2> HIDE DEF D
  <2> QED BY <2>1, <2>2, ViewTypes
<1> HIDE DEF D
<1>4. LatestEnd(D, f) = LatestEnd(D, g) /\ D \subseteq Tasks /\ \A d \in D : f[d] \in Nat
  BY <1>3 DEF LatestEnd
<1>5. LatestEnd(D, f) \in Nat
  BY <1>4, LatestExists
<1>6. type \in Types
  BY MachineIs DEF WellQueued
<1>7. GetExecutionTime(Order[i], type) \in Nat /\ AvgLag \in Nat
  BY <1>6, ViewTypes, ExecutionTakesTime, ViewAssumption
<1>8. \A h : EndTime(machines, h, Order[i]) = QueueEnd(queue, type, k, h)
  BY <1>1, EndTimeIs
<1> HIDE DEF queue, type
<1>9. \A h : QueueEnd(queue, type, k, h)
             = LatestEnd(D, h) + (IF k = 1 THEN AvgLag ELSE 0) + GetExecutionTime(Order[i], type)
  BY <1>1 DEF QueueEnd, D, queue
<1> QED BY <1>4, <1>5, <1>7, <1>8, <1>9

\* The times that are calculated are those that the queues and the
\* dependencies demand.
LEMMA EndTimesAre ==
    ASSUME NEW machines, WellQueued(machines), AllQueued(machines)
    PROVE  /\ EndTimes(machines) \in [Tasks -> Nat]
           /\ \A i \in Tasks :
                 EndTimes(machines)[Order[i]] = EndTime(machines, EndTimes(machines), Order[i])
<1> DEFINE S == [Tasks -> Nat]
           s0 == [t \in Tasks |-> 0]
           Step(f, i) == [f EXCEPT ![Order[i - 1]] = EndTime(machines, f, Order[i - 1])]
           step == [p \in S \X (1..Size) |-> Step(p[1], p[2])]
           Body(After) == [i \in 0..Size |-> IF i = 0 THEN s0 ELSE Step(After[i - 1], i)]
           After == CHOOSE After : After = Body(After)
           e == After[Size]
<1>1. Size \in Nat \ {0} /\ s0 \in S /\ \A i \in 1..Size : i - 1 \in Tasks /\ Order[i - 1] \in Tasks
  <2>1. \A i \in 1..Size : i - 1 \in Tasks
    BY ViewTypes
  <2> QED BY <2>1, ViewTypes
<1>2. ASSUME NEW f \in S, NEW i \in Tasks PROVE EndTime(machines, f, Order[i]) \in Nat
  <2>1. Order[i] \in Tasks /\ \A j \in 0..(i - 1) : Order[j] \in Tasks
    BY Earlier, ViewTypes
  <2>2. PICK v \in DOMAIN machines : Order[i] \in ToSet(machines[v].queue)
    BY <2>1 DEF AllQueued
  <2>3. \A j \in 0..(i - 1) : f[Order[j]] = f[Order[j]] /\ f[Order[j]] \in Nat
    BY <2>1
  <2> QED BY <2>2, <2>3, EndTimeLooksBack
<1>3. \A f \in S : \A i \in 1..Size : Step(f, i) \in S /\ step[<<f, i>>] = Step(f, i)
  <2> SUFFICES ASSUME NEW f \in S, NEW i \in 1..Size PROVE Step(f, i) \in S
    OBVIOUS
  <2> QED BY <1>1, <1>2
<1>4. step \in [S \X (1..Size) -> S]
  <2> SUFFICES ASSUME NEW p \in S \X (1..Size) PROVE Step(p[1], p[2]) \in S
    OBVIOUS
  <2>1. p[1] \in S /\ p[2] \in 1..Size
    OBVIOUS
  <2> HIDE DEF S, Step
  <2> QED BY <1>3, <2>1
<1>5. PICK g : Stepwise(Size, S, s0, step, g)
  <2>1. Size \in Nat /\ s0 \in S
    BY <1>1
  <2> HIDE DEF S, s0, step
  <2> QED BY <1>4, <2>1, StepByStep
<1>6. g = Body(g)
  <2>1. \A i \in 0..Size : i # 0 => i - 1 \in 0..Size /\ i \in 1..Size
    BY <1>1
  <2> HIDE DEF S, s0, step, Step
  <2>2. \A i \in 0..Size : g[i] = IF i = 0 THEN s0 ELSE Step(g[i - 1], i)
    BY <1>3, <1>5, <2>1 DEF Stepwise
  <2> QED BY <1>5, <2>2 DEF Stepwise
<1>7. After = Body(After)
  BY <1>6
<1>8. EndTimes(machines) = e
  BY DEF EndTimes
<1> HIDE DEF After
<1>9. After[0] = s0 /\ \A k \in 1..Size : After[k] = Step(After[k - 1], k)
  <2>1. 0 \in 0..Size /\ \A k \in 1..Size : k \in 0..Size /\ k # 0
    BY <1>1
  <2> HIDE DEF s0, Step
  <2> QED BY <1>7, <2>1
<1> DEFINE Good(k) == /\ After[k] \in S
                      /\ \A i \in 0..(k - 1) : After[k][Order[i]] = EndTime(machines, After[k], Order[i])
           Bad == {k \in 0..Size : ~Good(k)}
<1>10. Good(0)
  BY <1>1, <1>9
<1>11. ASSUME NEW k \in 1..Size, Good(k - 1) PROVE Good(k)
  <2> DEFINE f == After[k - 1]
             h == After[k]
             n == k - 1
  <2>1. n \in Tasks /\ Order[n] \in Tasks /\ f \in S /\ h = Step(f, k) /\ n \in Nat /\ k \in Nat
    BY <1>1, <1>9, <1>11
  <2>2. h \in S /\ h[Order[n]] = EndTime(machines, f, Order[n])
        /\ \A t \in Tasks : t # Order[n] => h[t] = f[t]
    <3> HIDE DEF f, h
    <3>1. h = [f EXCEPT ![Order[n]] = EndTime(machines, f, Order[n])]
      BY <2>1
    <3>2. EndTime(machines, f, Order[n]) \in Nat
      BY <1>2, <2>1
    <3> HIDE DEF n
    <3> QED BY <2>1, <3>1, <3>2
  <2> HIDE DEF f, h
  <2>3. \A i \in 0..(n - 1) : i \in Tasks /\ h[Order[i]] = f[Order[i]]
    <3> SUFFICES ASSUME NEW i \in 0..(n - 1) PROVE i \in Tasks /\ h[Order[i]] = f[Order[i]]
      OBVIOUS
    <3> HIDE DEF n
    <3>1. i \in Tasks /\ i < n
      BY <2>1, Earlier
    <3>2. Order[i] # Order[n] /\ Order[i] \in Tasks
      <4>1. i # n
        BY <2>1, <3>1 DEF Tasks
      <4> QED BY <2>1, <3>1, <4>1, OrderInjective, ViewTypes
    <3> QED BY <2>2, <3>1, <3>2
  <2>4. ASSUME NEW i \in Tasks, i <= n
        PROVE  EndTime(machines, h, Order[i]) = EndTime(machines, f, Order[i])
    <3>1. \A j \in 0..(i - 1) : j \in 0..(n - 1)
      BY <2>1, <2>4, ViewTypes
    <3>2. \A j \in 0..(i - 1) : h[Order[j]] = f[Order[j]] /\ h[Order[j]] \in Nat
      <4>1. \A j \in 0..(i - 1) : Order[j] \in Tasks
        BY Earlier, ViewTypes
      <4> HIDE DEF n
      <4> QED BY <2>2, <2>3, <3>1, <4>1
    <3>3. PICK v \in DOMAIN machines : Order[i] \in ToSet(machines[v].queue)
      BY ViewTypes DEF AllQueued
    <3> QED BY <3>2, <3>3, EndTimeLooksBack
  <2>5. ASSUME NEW i \in 0..n PROVE h[Order[i]] = EndTime(machines, h, Order[i])
    <3>1. i \in Tasks /\ i <= n
      BY <2>1, ViewTypes
    <3>2. CASE i = n
      <4> HIDE DEF n
      <4> QED BY <2>1, <2>2, <2>4, <3>1, <3>2
    <3>3. CASE i # n
      <4>1. i \in 0..(n - 1)
        BY <2>1, <3>3
      <4>2. f[Order[i]] = EndTime(machines, f, Order[i])
        BY <1>11, <4>1 DEF f
      <4> HIDE DEF n
      <4> QED BY <2>3, <2>4, <3>1, <4>1, <4>2
    <3> QED BY <3>2, <3>3
  <2> QED BY <2>2, <2>5 DEF h
<1>12. Bad = {}
  <2> SUFFICES ASSUME Bad # {} PROVE FALSE
    OBVIOUS
  <2>1. PICK k \in Bad : \A j \in Bad : k <= j
    <3>1. Bad \subseteq Nat
      OBVIOUS
    <3> HIDE DEF Bad
    <3> QED BY <3>1, LeastExists
  <2> HIDE DEF Good
  <2>2. k # 0 /\ k \in 1..Size /\ k - 1 \in 0..Size /\ ~(k <= k - 1)
    BY <1>1, <1>10
  <2>3. k - 1 \notin Bad
    <3> HIDE DEF Bad
    <3> QED BY <2>1, <2>2
  <2> QED BY <1>11, <2>2, <2>3
<1>13. Good(Size)
  <2> HIDE DEF Good
  <2> QED BY <1>1, <1>12
<1>14. \A i \in Tasks : i \in 0..(Size - 1)
  BY DEF Tasks
<1> QED BY <1>8, <1>13, <1>14

LEMMA EndTimesUnique ==
    ASSUME NEW machines, WellQueued(machines), AllQueued(machines), NEW f \in [Tasks -> Nat],
           \A i \in Tasks : f[Order[i]] = EndTime(machines, f, Order[i])
    PROVE  EndTimes(machines) = f
<1> DEFINE e == EndTimes(machines)
           Bad == {i \in Tasks : e[Order[i]] # f[Order[i]]}
<1>1. e \in [Tasks -> Nat] /\ \A i \in Tasks : e[Order[i]] = EndTime(machines, e, Order[i])
  BY EndTimesAre
<1> HIDE DEF e
<1>2. Bad = {}
  <2> SUFFICES ASSUME Bad # {} PROVE FALSE
    OBVIOUS
  <2>1. PICK i \in Bad : \A j \in Bad : i <= j
    <3>1. Bad \subseteq Nat
      BY DEF Tasks
    <3> HIDE DEF Bad
    <3> QED BY <3>1, LeastExists
  <2>2. \A j \in 0..(i - 1) : e[Order[j]] = f[Order[j]] /\ e[Order[j]] \in Nat
    <3> SUFFICES ASSUME NEW j \in 0..(i - 1) PROVE e[Order[j]] = f[Order[j]] /\ e[Order[j]] \in Nat
      OBVIOUS
    <3>1. j \in Tasks /\ j < i /\ Order[j] \in Tasks
      BY Earlier, ViewTypes
    <3>2. ~(i <= j)
      BY <3>1 DEF Tasks
    <3> QED BY <1>1, <2>1, <3>1, <3>2
  <2>3. PICK v \in DOMAIN machines : Order[i] \in ToSet(machines[v].queue)
    BY ViewTypes DEF AllQueued
  <2> QED BY <1>1, <2>2, <2>3, EndTimeLooksBack
<1>3. ASSUME NEW t \in Tasks PROVE e[t] = f[t]
  <2>1. PICK i \in Tasks : Order[i] = t
    BY ViewTypes
  <2>2. i \notin Bad
    BY <1>2
  <2> QED BY <2>1, <2>2
<1> QED BY <1>1, <1>3 DEF e

(* The times the tasks are placed by.  While a task is placed, the times of  *)
(* those before it are those its queues give, and a machine is free from the *)
(* end of the last task in its queue.                                        *)

TimesTyped ==
    /\ vmEndTime \in Seq(Nat) /\ Len(vmEndTime) = Len(vms)
    /\ taskEndTime \in [Tasks -> Nat]

OnlyPlacedQueued ==
    \A v \in DOMAIN vms : \A i \in DOMAIN vms[v].queue :
        \E a \in 0..(next - 1) : vms[v].queue[i] = Order[a]

LastEnds ==
    \A v \in DOMAIN vms :
        /\ Len(vms[v].queue) # 0
        /\ vmEndTime[v] = taskEndTime[vms[v].queue[Len(vms[v].queue)]]

TimesAgree ==
    phase = "place" =>
        \A i \in 0..(next - 1) : taskEndTime[Order[i]] = EndTime(vms, taskEndTime, Order[i])

MakespanCalculated ==
    phase \in {"check", "done"} => makespan = Max({EndTimes(vms)[t] : t \in Tasks})

TimesInv ==
    /\ TimesTyped /\ WellQueued(vms) /\ OnlyPlacedQueued /\ LastEnds /\ TimesAgree
    /\ MakespanCalculated

LEMMA TimesInit == Init => TimesInv
<1> SUFFICES ASSUME Init PROVE TimesInv
  OBVIOUS
<1>1. next = 0 /\ vms = <<>> /\ vmEndTime = <<>> /\ taskEndTime = [t \in Tasks |-> 0] /\ phase = "place"
  BY DEF Init
<1>2. DOMAIN vms = {} /\ vms \in Seq(Machine) /\ 0..(next - 1) = {}
  BY <1>1
<1>3. TimesTyped /\ WellQueued(vms)
  BY <1>1, <1>2 DEF TimesTyped, WellQueued
<1>4. OnlyPlacedQueued /\ LastEnds /\ TimesAgree /\ MakespanCalculated
  BY <1>1, <1>2 DEF OnlyPlacedQueued, LastEnds, TimesAgree, MakespanCalculated
<1> QED BY <1>3, <1>4 DEF TimesInv

\* The next task goes to the end of a queue, which may be new.
Queues(t, w, old) ==
    /\ vms' \in Seq(Machine)
    /\ DOMAIN vms' = DOMAIN vms \cup {w}
    /\ \A v \in DOMAIN vms : v # w => vms'[v] = vms[v]
    /\ old \in Seq(Tasks)
    /\ IF w \in DOMAIN vms THEN vms[w].queue = old /\ vms'[w].type = vms[w].type ELSE old = <<>>
    /\ vms'[w].queue = Append(old, t)

LEMMA QueuedBehind ==
    ASSUME NEW t \in Tasks, NEW w, NEW old, Queues(t, w, old), vms \in Seq(Machine)
    PROVE  /\ \A v \in DOMAIN vms : \A k \in DOMAIN vms[v].queue :
                 /\ v \in DOMAIN vms' /\ k \in DOMAIN vms'[v].queue
                 /\ vms'[v].queue[k] = vms[v].queue[k] /\ vms'[v].type = vms[v].type
           /\ w \in DOMAIN vms' /\ Len(old) + 1 \in DOMAIN vms'[w].queue
           /\ vms'[w].queue[Len(old) + 1] = t /\ Len(vms'[w].queue) = Len(old) + 1
           /\ \A i \in 1..Len(old) : vms'[w].queue[i] = old[i]
           /\ \A v \in DOMAIN vms' : \A k \in DOMAIN vms'[v].queue :
                 \/ v = w /\ k = Len(old) + 1
                 \/ v \in DOMAIN vms /\ k \in DOMAIN vms[v].queue
<1>1. /\ old \in Seq(Tasks) /\ Len(old) \in Nat /\ DOMAIN old = 1..Len(old)
      /\ vms'[w].queue = Append(old, t) /\ w \in DOMAIN vms'
      /\ w \in DOMAIN vms => vms[w].queue = old /\ vms'[w].type = vms[w].type
      /\ w \notin DOMAIN vms => old = <<>>
  BY DEF Queues
<1>2. /\ Len(vms'[w].queue) = Len(old) + 1 /\ DOMAIN vms'[w].queue = 1..(Len(old) + 1)
      /\ vms'[w].queue[Len(old) + 1] = t
      /\ \A i \in 1..Len(old) : vms'[w].queue[i] = old[i]
  BY <1>1
<1>3. ASSUME NEW v \in DOMAIN vms, NEW k \in DOMAIN vms[v].queue
      PROVE  /\ v \in DOMAIN vms' /\ k \in DOMAIN vms'[v].queue
             /\ vms'[v].queue[k] = vms[v].queue[k] /\ vms'[v].type = vms[v].type
  <2>1. CASE v = w
    <3>1. k \in 1..Len(old)
      BY <1>1, <2>1
    <3> QED BY <1>1, <1>2, <2>1, <3>1
  <2>2. CASE v # w
    BY <2>2 DEF Queues
  <2> QED BY <2>1, <2>2
<1>4. ASSUME NEW v \in DOMAIN vms', NEW k \in DOMAIN vms'[v].queue, ~(v = w /\ k = Len(old) + 1)
      PROVE  v \in DOMAIN vms /\ k \in DOMAIN vms[v].queue
  <2>1. CASE v = w
    <3>1. k \in 1..Len(old)
      BY <1>1, <1>2, <1>4, <2>1
    <3>2. w \in DOMAIN vms
      BY <1>1, <3>1
    <3> QED BY <1>1, <2>1, <3>1, <3>2
  <2>2. CASE v # w
    BY <2>2 DEF Queues
  <2> QED BY <2>1, <2>2
<1> QED BY <1>1, <1>2, <1>3, <1>4

LEMMA QueuesWell ==
    ASSUME next \in Tasks, next' = next + 1, WellQueued(vms), OnlyPlacedQueued,
           NEW w, NEW old, Queues(Order[next], w, old)
    PROVE  WellQueued(vms') /\ OnlyPlacedQueued'
<1> DEFINE t == Order[next]
           Held(v, i) == v \in DOMAIN vms /\ i \in DOMAIN vms[v].queue
           Added(v, i) == v = w /\ i = Len(old) + 1
<1>1. vms \in Seq(Machine) /\ t \in Tasks
  BY ViewTypes DEF WellQueued
<1>2. \A v \in DOMAIN vms' : \A i \in DOMAIN vms'[v].queue : Held(v, i) \/ Added(v, i)
  BY <1>1, QueuedBehind
<1>3. \A v, i : Held(v, i) => vms'[v].queue[i] = vms[v].queue[i]
                             /\ \E a \in 0..(next - 1) : vms[v].queue[i] = Order[a]
  BY <1>1, QueuedBehind DEF OnlyPlacedQueued
<1>4. \A v, i : Added(v, i) => vms'[v].queue[i] = t
  BY <1>1, QueuedBehind
<1>5. \A a \in 0..(next - 1) : a \in Tasks /\ a < next /\ Order[a] # t
  <2> SUFFICES ASSUME NEW a \in 0..(next - 1) PROVE a \in Tasks /\ a < next /\ Order[a] # t
    OBVIOUS
  <2>1. a \in Tasks /\ a < next
    BY Earlier
  <2>2. a # next
    BY <2>1, ViewTypes
  <2> QED BY <2>1, <2>2, OrderInjective
<1>6. ASSUME NEW v \in DOMAIN vms', NEW u \in DOMAIN vms', NEW i \in DOMAIN vms'[v].queue,
             NEW j \in DOMAIN vms'[u].queue, vms'[v].queue[i] = vms'[u].queue[j]
      PROVE  v = u /\ i = j
  <2>1. CASE Held(v, i) /\ Held(u, j)
    BY <1>3, <1>6, <2>1 DEF WellQueued
  <2>2. CASE Held(v, i) /\ Added(u, j)
    BY <1>3, <1>4, <1>5, <1>6, <2>2
  <2>3. CASE Added(v, i) /\ Held(u, j)
    BY <1>3, <1>4, <1>5, <1>6, <2>3
  <2>4. CASE Added(v, i) /\ Added(u, j)
    BY <2>4
  <2> QED BY <1>2, <2>1, <2>2, <2>3, <2>4
<1>7. ASSUME NEW v \in DOMAIN vms', NEW i \in DOMAIN vms'[v].queue, NEW j \in DOMAIN vms'[v].queue,
             NEW a \in Tasks, NEW b \in Tasks,
             i < j, vms'[v].queue[i] = Order[a], vms'[v].queue[j] = Order[b]
      PROVE  a < b
  <2>1. CASE Held(v, i) /\ Held(v, j)
    <3>1. vms[v].queue[i] = Order[a] /\ vms[v].queue[j] = Order[b]
      BY <1>3, <1>7, <2>1
    <3> QED BY <1>7, <2>1, <3>1 DEF WellQueued
  <2>2. CASE Held(v, i) /\ Added(v, j)
    <3>1. PICK c \in 0..(next - 1) : vms[v].queue[i] = Order[c]
      BY <1>3, <2>2
    <3>2. c \in Tasks /\ c < next /\ Order[c] = Order[a] /\ Order[b] = Order[next]
      BY <1>3, <1>4, <1>5, <1>7, <2>2, <3>1
    <3>3. c = a /\ b = next
      BY <3>2, OrderInjective
    <3> QED BY <3>2, <3>3
  <2>3. CASE Added(v, i)
    <3>1. /\ i = Len(old) + 1 /\ Len(vms'[w].queue) = Len(old) + 1 /\ v = w
      BY <1>1, <2>3, QueuedBehind
    <3>2. vms'[v].queue \in Seq(Tasks) /\ DOMAIN vms'[v].queue = 1..Len(vms'[v].queue)
      BY MachineIs DEF Queues
    <3>3. Len(vms'[v].queue) \in Nat /\ j \in 1..i
      BY <3>1, <3>2
    <3> QED BY <1>7, <3>3
  <2> QED BY <1>2, <2>1, <2>2, <2>3
<1>8. WellQueued(vms')
  <2>1. vms' \in Seq(Machine)
    BY DEF Queues
  <2> QED BY <1>6, <1>7, <2>1 DEF WellQueued
<1>9. ASSUME NEW v \in DOMAIN vms', NEW i \in DOMAIN vms'[v].queue
      PROVE  \E a \in 0..(next' - 1) : vms'[v].queue[i] = Order[a]
  <2>1. next' - 1 = next /\ next \in 0..next /\ \A a \in 0..(next - 1) : a \in 0..next
    BY ViewTypes
  <2>2. CASE Held(v, i)
    BY <1>3, <2>1, <2>2
  <2>3. CASE Added(v, i)
    BY <1>4, <2>1, <2>3
  <2> QED BY <1>2, <2>2, <2>3
<1> QED BY <1>8, <1>9 DEF OnlyPlacedQueued

LEMMA LatestWithEarlier ==
    ASSUME NEW D, D \subseteq Tasks, NEW f \in [Tasks -> Nat], NEW p \in Tasks, f[p] <= LatestEnd(D, f)
    PROVE  LatestEnd(D \cup {p}, f) = LatestEnd(D, f)
<1> DEFINE E == D \cup {p}
           a == LatestEnd(D, f)
           b == LatestEnd(E, f)
<1>1. /\ a \in Nat /\ \A d \in D : f[d] <= a
      /\ a = 0 \/ \E d \in D : a = f[d]
  BY LatestExists
<1>2. E \subseteq Tasks /\ \A d \in E : f[d] \in Nat
  OBVIOUS
<1>3. /\ b \in Nat /\ \A d \in E : f[d] <= b
      /\ b = 0 \/ \E d \in E : b = f[d]
  <2> HIDE DEF E
  <2> QED BY <1>2, LatestExists
<1>4. a <= b
  <2> HIDE DEF a, b
  <2> QED BY <1>1, <1>3
<1>5. b <= a
  <2>1. \A d \in E : f[d] <= a
    BY <1>1
  <2> HIDE DEF a, b, E
  <2> QED BY <1>1, <1>3, <2>1
<1> QED BY <1>1, <1>3, <1>4, <1>5

LEMMA BeginIs ==
    ASSUME NEW t, NEW h PROVE Max(Ends(t, h)) = LatestEnd(Dependencies[t], h)
BY DEF Ends, LatestEnd

\* Where the task is placed, and the time it is given.
Times(t, w, old, end) ==
    /\ Queues(t, w, old)
    /\ end \in Nat /\ end = QueueEnd(vms'[w].queue, vms'[w].type, Len(old) + 1, taskEndTime)
    /\ vmEndTime' \in Seq(Nat) /\ Len(vmEndTime') = Len(vms')
    /\ vmEndTime'[w] = end
    /\ \A v \in DOMAIN vms : v # w => vmEndTime'[v] = vmEndTime[v]
    /\ taskEndTime' = [taskEndTime EXCEPT ![t] = end]

LEMMA PlacedAnew ==
    ASSUME BaselineInv, TimesInv, PlaceTask, NEW t \in Tasks, t = Order[next],
           FreeVMs(t, Max(Ends(t, taskEndTime))) = {}
    PROVE  \E end : Times(t, Len(vms) + 1, <<>>, end)
<1> DEFINE begin == Max(Ends(t, taskEndTime))
           w == Len(vms) + 1
           type == GetBestVM(t)
           end == begin + GetExecutionTime(t, type) + AvgLag
           new == [type |-> type, queue |-> <<t>>]
<1>1. /\ vms' = Append(vms, new) /\ vmEndTime' = Append(vmEndTime, end)
      /\ taskEndTime' = [taskEndTime EXCEPT ![t] = end]
  BY DEF PlaceTask
<1>2. /\ vms \in Seq(Machine) /\ Len(vms) \in Nat /\ DOMAIN vms = 1..Len(vms)
      /\ vmEndTime \in Seq(Nat) /\ Len(vmEndTime) = Len(vms) /\ taskEndTime \in [Tasks -> Nat]
  BY MachineTypes DEF BaselineInv, BaselineTypeOK, TimesInv, TimesTyped
<1>3. begin = LatestEnd(Dependencies[t], taskEndTime) /\ begin \in Nat
  <2>1. Dependencies[t] \subseteq Tasks
    BY ViewAssumption
  <2>2. \A d \in Dependencies[t] : taskEndTime[d] \in Nat
    BY <1>2, <2>1
  <2>3. LatestEnd(Dependencies[t], taskEndTime) \in Nat
    BY <2>1, <2>2, LatestExists
  <2> QED BY <2>3, BeginIs
<1>4. type \in Types /\ GetExecutionTime(t, type) \in Nat /\ AvgLag \in Nat
  BY BestTypeFits, ExecutionTakesTime, ViewAssumption
<1> HIDE DEF begin, type
<1>5. end \in Nat
  BY <1>3, <1>4
<1>6. new \in Machine /\ new.type = type /\ new.queue = <<t>> /\ new.queue = Append(<<>>, t)
  BY <1>4 DEF Machine
<1> HIDE DEF end, new
<1>7. /\ vms' \in Seq(Machine) /\ Len(vms') = w /\ DOMAIN vms' = DOMAIN vms \cup {w}
      /\ \A v \in DOMAIN vms : v # w => vms'[v] = vms[v]
      /\ w \notin DOMAIN vms /\ vms'[w] = new
  BY <1>1, <1>2, <1>6
<1>8. Queues(t, w, <<>>)
  <2>1. <<>> \in Seq(Tasks)
    OBVIOUS
  <2> QED BY <1>6, <1>7, <2>1 DEF Queues
<1>9. /\ vmEndTime' \in Seq(Nat) /\ Len(vmEndTime') = w /\ vmEndTime'[w] = end
      /\ \A v \in DOMAIN vms : v # w => vmEndTime'[v] = vmEndTime[v]
  BY <1>1, <1>2, <1>5
<1>10. end = QueueEnd(vms'[w].queue, vms'[w].type, Len(<<>>) + 1, taskEndTime)
  <2>1. vms'[w].queue = <<t>> /\ vms'[w].type = type /\ Len(<<>>) + 1 = 1 /\ <<t>>[1] = t
    BY <1>6, <1>7
  <2>2. Dependencies[t] \cup Before(<<t>>, 1) = Dependencies[t]
    BY DEF Before
  <2>3. QueueEnd(<<t>>, type, 1, taskEndTime)
        = LatestEnd(Dependencies[t], taskEndTime) + AvgLag + GetExecutionTime(t, type)
    BY <2>1, <2>2 DEF QueueEnd
  <2> QED BY <1>3, <1>4, <2>1, <2>3 DEF end
<1>11. Times(t, w, <<>>, end)
  BY <1>1, <1>5, <1>7, <1>8, <1>9, <1>10 DEF Times
<1> QED BY <1>11

LEMMA PlacedBehind ==
    ASSUME BaselineInv, TimesInv, PlaceTask, NEW t \in Tasks, t = Order[next],
           FreeVMs(t, Max(Ends(t, taskEndTime))) # {}
    PROVE  \E w, old, end : Times(t, w, old, end)
<1> DEFINE begin == Max(Ends(t, taskEndTime))
           free == FreeVMs(t, begin)
           typeOf == [v \in free |-> vms[v].type]
           w == FirstSlowest(free, typeOf)
           old == vms[w].queue
           type == vms[w].type
           end == begin + GetExecutionTime(t, type) + 0
<1>1. /\ vms' = [vms EXCEPT ![w].queue = Append(@, t)] /\ vmEndTime' = [vmEndTime EXCEPT ![w] = end]
      /\ taskEndTime' = [taskEndTime EXCEPT ![t] = end]
  BY DEF PlaceTask
<1>2. /\ vms \in Seq(Machine) /\ Len(vms) \in Nat /\ DOMAIN vms = 1..Len(vms)
      /\ vmEndTime \in Seq(Nat) /\ Len(vmEndTime) = Len(vms) /\ taskEndTime \in [Tasks -> Nat]
      /\ DOMAIN vmEndTime = DOMAIN vms
  BY MachineTypes DEF BaselineInv, BaselineTypeOK, TimesInv, TimesTyped
<1>3. begin = LatestEnd(Dependencies[t], taskEndTime) /\ begin \in Nat /\ Dependencies[t] \subseteq Tasks
  <2>1. Dependencies[t] \subseteq Tasks
    BY ViewAssumption
  <2>2. \A d \in Dependencies[t] : taskEndTime[d] \in Nat
    BY <1>2, <2>1
  <2>3. LatestEnd(Dependencies[t], taskEndTime) \in Nat
    BY <2>1, <2>2, LatestExists
  <2> QED BY <2>1, <2>3, BeginIs
<1>4. w \in free /\ w \in DOMAIN vms /\ vmEndTime[w] <= begin
  <2>1. free \subseteq DOMAIN vms /\ free \subseteq Nat
    BY <1>2 DEF FreeVMs
  <2>2. \A v \in free : typeOf[v] \in Types
    BY <1>2, <2>1, MachineIs
  <2>3. w \in free
    <3> HIDE DEF free, typeOf
    <3> QED BY <2>1, <2>2, FirstSlowestIsMember DEF free
  <2> QED BY <2>1, <2>3 DEF FreeVMs
<1> HIDE DEF w, begin
<1>5. /\ vms[w] \in Machine /\ type \in Types /\ old \in Seq(Tasks) /\ Len(old) \in Nat
      /\ DOMAIN old = 1..Len(old) /\ \A i \in DOMAIN old : old[i] \in Tasks
  BY <1>2, <1>4, MachineIs
<1>6. GetExecutionTime(t, type) \in Nat /\ AvgLag \in Nat
  BY <1>5, ExecutionTakesTime, ViewAssumption
<1>7. end \in Nat
  BY <1>3, <1>6
<1>8. Len(old) # 0 /\ vmEndTime[w] = taskEndTime[old[Len(old)]]
  BY <1>4 DEF TimesInv, LastEnds
<1> DEFINE changed == [vms[w] EXCEPT !.queue = Append(vms[w].queue, t)]
<1>9. vms' = [vms EXCEPT ![w] = changed]
  BY <1>1
<1>10. changed \in Machine /\ changed.type = type /\ changed.queue = Append(old, t)
  <2>1. Append(old, t) \in Seq(Tasks)
    BY <1>5
  <2> QED BY <1>5, <2>1 DEF Machine
<1> HIDE DEF changed, end, type, old
<1>11. /\ vms' \in Seq(Machine) /\ Len(vms') = Len(vms) /\ DOMAIN vms' = DOMAIN vms
       /\ vms'[w] = changed /\ \A v \in DOMAIN vms : v # w => vms'[v] = vms[v]
  BY <1>2, <1>4, <1>9, <1>10
<1>12. Queues(t, w, old)
  BY <1>4, <1>5, <1>10, <1>11 DEF Queues, old, type
<1>13. /\ vmEndTime' \in Seq(Nat) /\ Len(vmEndTime') = Len(vms') /\ vmEndTime'[w] = end
       /\ \A v \in DOMAIN vms : v # w => vmEndTime'[v] = vmEndTime[v]
  BY <1>1, <1>2, <1>4, <1>7, <1>11
<1>14. end = QueueEnd(vms'[w].queue, vms'[w].type, Len(old) + 1, taskEndTime)
  <2> DEFINE n == Len(old) + 1
             p == old[Len(old)]
             queue == vms'[w].queue
  <2>1. queue = Append(old, t) /\ vms'[w].type = type
    BY <1>10, <1>11
  <2>2. queue[n] = t /\ queue[n - 1] = p /\ n # 1 /\ p \in Tasks
    <3>1. n - 1 = Len(old) /\ n # 1 /\ Len(old) \in DOMAIN old
      BY <1>5, <1>8
    <3>2. Append(old, t)[Len(old) + 1] = t /\ Append(old, t)[Len(old)] = old[Len(old)]
      BY <1>5, <3>1
    <3> QED BY <1>5, <2>1, <3>1, <3>2
  <2>3. taskEndTime[p] <= LatestEnd(Dependencies[t], taskEndTime)
    BY <1>3, <1>4, <1>8
  <2> HIDE DEF n, p, queue
  <2>4. LatestEnd(Dependencies[t] \cup {p}, taskEndTime) = LatestEnd(Dependencies[t], taskEndTime)
    BY <1>2, <1>3, <2>2, <2>3, LatestWithEarlier
  <2>5. QueueEnd(queue, type, n, taskEndTime)
        = LatestEnd(Dependencies[t] \cup {p}, taskEndTime) + 0 + GetExecutionTime(t, type)
    BY <2>2 DEF QueueEnd, Before
  <2>6. end = begin + GetExecutionTime(t, type) + 0
    BY DEF end
  <2> QED BY <1>3, <1>6, <2>1, <2>4, <2>5, <2>6 DEF n, queue
<1>15. Times(t, w, old, end)
  BY <1>1, <1>7, <1>11, <1>12, <1>13, <1>14 DEF Times
<1> QED BY <1>15

LEMMA PlaceTimes ==
    ASSUME BaselineInv, TimesInv, PlaceTask
    PROVE  TimesInv'
<1> DEFINE t == Order[next]
<1>1. next \in Tasks /\ next' = next + 1 /\ phase' = "place" /\ phase = "place" /\ t \in Tasks
  <2>1. next \in 0..Size /\ next < Size /\ next' = next + 1 /\ phase' = phase /\ phase = "place"
    BY DEF PlaceTask, BaselineInv, BaselineTypeOK
  <2>2. next \in Tasks
    BY <2>1, ViewTypes
  <2> QED BY <2>1, <2>2, ViewTypes
<1>2. PICK w, old, end : Times(t, w, old, end)
  <2> HIDE DEF t
  <2>1. t = Order[next]
    BY DEF t
  <2> QED BY <1>1, <2>1, PlacedAnew, PlacedBehind
<1> DEFINE n == Len(old) + 1
<1>3. /\ WellQueued(vms) /\ OnlyPlacedQueued /\ vms \in Seq(Machine)
      /\ taskEndTime \in [Tasks -> Nat] /\ TimesAgree /\ LastEnds
  BY DEF TimesInv, TimesTyped, WellQueued
<1>4. Queues(t, w, old)
  BY <1>2 DEF Times
<1>5. WellQueued(vms') /\ OnlyPlacedQueued'
  BY <1>1, <1>3, <1>4, QueuesWell
<1>6. /\ \A v \in DOMAIN vms : \A k \in DOMAIN vms[v].queue :
            /\ v \in DOMAIN vms' /\ k \in DOMAIN vms'[v].queue
            /\ vms'[v].queue[k] = vms[v].queue[k] /\ vms'[v].type = vms[v].type
      /\ w \in DOMAIN vms' /\ n \in DOMAIN vms'[w].queue
      /\ vms'[w].queue[n] = t /\ Len(vms'[w].queue) = n
  BY <1>1, <1>3, <1>4, QueuedBehind
<1>7. /\ end \in Nat /\ taskEndTime' \in [Tasks -> Nat] /\ taskEndTime'[t] = end
      /\ \A u \in Tasks : u # t => taskEndTime'[u] = taskEndTime[u]
  <2> HIDE DEF t
  <2> QED BY <1>1, <1>2, <1>3 DEF Times
<1>8. TimesTyped'
  BY <1>2, <1>7 DEF Times, TimesTyped
\* the tasks placed before
<1>9. \A i \in 0..(next - 1) : i \in Tasks /\ i < next /\ Order[i] \in Tasks /\ Order[i] # t
  <2> SUFFICES ASSUME NEW i \in 0..(next - 1)
               PROVE  i \in Tasks /\ i < next /\ Order[i] \in Tasks /\ Order[i] # t
    OBVIOUS
  <2>1. i \in Tasks /\ i < next
    BY <1>1, Earlier
  <2>2. i # next
    BY <1>1, <2>1, ViewTypes
  <2> QED BY <1>1, <2>1, <2>2, OrderInjective, ViewTypes
<1>10. ASSUME NEW i \in 0..next
       PROVE  EndTime(vms', taskEndTime', Order[i]) = EndTime(vms', taskEndTime, Order[i])
  <2>1. i \in Tasks /\ i <= next
    BY <1>1, <1>9, ViewTypes
  <2>2. PICK v \in DOMAIN vms' : Order[i] \in ToSet(vms'[v].queue)
    <3>1. CASE i = next
      BY <1>6, <3>1 DEF ToSet
    <3>2. CASE i # next
      <4>1. i \in 0..(next - 1)
        BY <1>1, <2>1, <3>2, ViewTypes
      <4>2. PICK v \in DOMAIN vms : Order[i] \in ToSet(vms[v].queue)
        BY <4>1 DEF BaselineInv, PlacedAreQueued
      <4>3. PICK k \in DOMAIN vms[v].queue : vms[v].queue[k] = Order[i]
        BY <4>2 DEF ToSet
      <4>4. v \in DOMAIN vms' /\ Order[i] \in ToSet(vms'[v].queue)
        BY <1>6, <4>3 DEF ToSet
      <4> QED BY <4>4
    <3> QED BY <3>1, <3>2
  <2>3. \A j \in 0..(i - 1) : j \in 0..(next - 1)
    BY <1>1, <2>1, ViewTypes
  <2>4. \A j \in 0..(i - 1) : /\ taskEndTime'[Order[j]] = taskEndTime[Order[j]]
                              /\ taskEndTime'[Order[j]] \in Nat
    <3> HIDE DEF t
    <3> QED BY <1>7, <1>9, <2>3
  <2> QED BY <1>5, <2>1, <2>2, <2>4, EndTimeLooksBack
<1>11. ASSUME NEW i \in 0..(next - 1)
       PROVE  EndTime(vms', taskEndTime, Order[i]) = EndTime(vms, taskEndTime, Order[i])
  <2>1. PICK v \in DOMAIN vms : Order[i] \in ToSet(vms[v].queue)
    BY DEF BaselineInv, PlacedAreQueued
  <2>2. PICK k \in DOMAIN vms[v].queue : vms[v].queue[k] = Order[i]
    BY <2>1 DEF ToSet
  <2> DEFINE u == Order[i]
             q == vms[v].queue
             r == vms'[v].queue
  <2>3. k # 1 => k - 1 \in DOMAIN vms[v].queue
    BY <1>3, <2>2, QueuedAt
  <2>4. /\ v \in DOMAIN vms' /\ k \in DOMAIN r /\ q[k] = u /\ r[k] = u /\ vms'[v].type = vms[v].type
        /\ k # 1 => r[k - 1] = q[k - 1]
    BY <1>6, <2>2, <2>3
  <2> HIDE DEF u
  <2>5. EndTime(vms, taskEndTime, u) = QueueEnd(q, vms[v].type, k, taskEndTime)
    <3> DEFINE m == vms
    <3>1. v \in DOMAIN m /\ k \in DOMAIN m[v].queue /\ m[v].queue[k] = u /\ WellQueued(m)
      BY <1>3, <2>2, <2>4
    <3> HIDE DEF m
    <3>2. EndTime(m, taskEndTime, u) = QueueEnd(m[v].queue, m[v].type, k, taskEndTime)
      BY <3>1, EndTimeIs
    <3> QED BY <3>2 DEF m
  <2>6. EndTime(vms', taskEndTime, u) = QueueEnd(r, vms[v].type, k, taskEndTime)
    <3> DEFINE m == vms'
    <3>1. v \in DOMAIN m /\ k \in DOMAIN m[v].queue /\ m[v].queue[k] = u /\ WellQueued(m)
      BY <1>5, <2>4
    <3> HIDE DEF m
    <3>2. EndTime(m, taskEndTime, u) = QueueEnd(m[v].queue, m[v].type, k, taskEndTime)
      BY <3>1, EndTimeIs
    <3> QED BY <2>4, <3>2 DEF m
  <2> HIDE DEF q, r
  <2>7. Before(q, k) = Before(r, k)
    BY <2>4 DEF Before
  <2>8. QueueEnd(q, vms[v].type, k, taskEndTime) = QueueEnd(r, vms[v].type, k, taskEndTime)
    BY <2>4, <2>7 DEF QueueEnd
  <2>9. EndTime(vms', taskEndTime, u) = EndTime(vms, taskEndTime, u)
    BY <2>5, <2>6, <2>8
  <2> QED BY <2>9 DEF u
<1>12. EndTime(vms', taskEndTime, t) = end
  <2>1. EndTime(vms', taskEndTime, t) = QueueEnd(vms'[w].queue, vms'[w].type, n, taskEndTime)
    <3> DEFINE m == vms'
    <3>1. w \in DOMAIN m /\ n \in DOMAIN m[w].queue /\ m[w].queue[n] = t /\ WellQueued(m)
      BY <1>5, <1>6
    <3> HIDE DEF n, t, m
    <3>2. EndTime(m, taskEndTime, t) = QueueEnd(m[w].queue, m[w].type, n, taskEndTime)
      BY <3>1, EndTimeIs
    <3> QED BY <3>2 DEF m
  <2> QED BY <1>2, <2>1 DEF Times
<1>13. TimesAgree'
  <2> SUFFICES ASSUME NEW i \in 0..(next' - 1)
               PROVE  taskEndTime'[Order[i]] = EndTime(vms', taskEndTime', Order[i])
    BY DEF TimesAgree
  <2>1. i \in 0..next /\ next \in Nat
    BY <1>1, ViewTypes
  <2>2. CASE i = next
    BY <1>7, <1>10, <1>12, <2>1, <2>2
  <2>3. CASE i # next
    <3>1. i \in 0..(next - 1)
      BY <2>1, <2>3
    <3>2. taskEndTime[Order[i]] = EndTime(vms, taskEndTime, Order[i])
      BY <1>1, <1>3, <3>1 DEF TimesAgree
    <3>3. taskEndTime'[Order[i]] = taskEndTime[Order[i]]
      BY <1>7, <1>9, <3>1
    <3> HIDE DEF t
    <3> QED BY <1>10, <1>11, <2>1, <3>1, <3>2, <3>3
  <2> QED BY <2>2, <2>3
<1>14. LastEnds'
  <2> SUFFICES ASSUME NEW v \in DOMAIN vms'
               PROVE  /\ Len(vms'[v].queue) # 0
                      /\ vmEndTime'[v] = taskEndTime'[vms'[v].queue[Len(vms'[v].queue)]]
    BY DEF LastEnds
  <2>1. CASE v = w
    <3>1. Len(old) \in Nat /\ n # 0
      BY <1>4 DEF Queues
    <3>2. vmEndTime'[w] = end
      BY <1>2 DEF Times
    <3> HIDE DEF n, t
    <3> QED BY <1>6, <1>7, <2>1, <3>1, <3>2
  <2>2. CASE v # w
    <3>1. v \in DOMAIN vms /\ vms'[v] = vms[v]
      BY <1>4, <2>2 DEF Queues
    <3>2. /\ Len(vms[v].queue) # 0 /\ vmEndTime[v] = taskEndTime[vms[v].queue[Len(vms[v].queue)]]
      BY <1>3, <3>1 DEF LastEnds
    <3>3. Len(vms[v].queue) \in DOMAIN vms[v].queue
      <4>1. Len(vms[v].queue) \in Nat /\ DOMAIN vms[v].queue = 1..Len(vms[v].queue)
        BY <1>3, <3>1, MachineIs
      <4> QED BY <3>2, <4>1
    <3>4. PICK a \in 0..(next - 1) : vms[v].queue[Len(vms[v].queue)] = Order[a]
      BY <1>3, <3>1, <3>3 DEF OnlyPlacedQueued
    <3>5. vmEndTime'[v] = vmEndTime[v]
      BY <1>2, <2>2, <3>1 DEF Times
    <3> HIDE DEF t
    <3> QED BY <1>7, <1>9, <3>1, <3>2, <3>4, <3>5
  <2> QED BY <2>1, <2>2
<1>15. MakespanCalculated'
  BY <1>1 DEF MakespanCalculated
<1> QED BY <1>5, <1>8, <1>13, <1>14, <1>15 DEF TimesInv

LEMMA TimesStep == BaselineInv /\ TimesInv /\ [Next]_vars => TimesInv'
<1> SUFFICES ASSUME BaselineInv, TimesInv, [Next]_vars PROVE TimesInv'
  OBVIOUS
<1>1. CASE PlaceTask
  BY <1>1, PlaceTimes
<1>2. CASE FirstMakespan
  <2>1. /\ UNCHANGED <<next, vms, vmEndTime, taskEndTime>> /\ phase' # "place"
        /\ phase' \in {"check", "done"} => makespan' = Max({EndTimes(vms')[t] : t \in Tasks})
    BY <1>2 DEF FirstMakespan, Calculated
  <2>2. TimesTyped' /\ WellQueued(vms') /\ OnlyPlacedQueued' /\ LastEnds'
    BY <2>1 DEF TimesInv, TimesTyped, OnlyPlacedQueued, LastEnds
  <2>3. TimesAgree' /\ MakespanCalculated'
    BY <2>1 DEF TimesAgree, MakespanCalculated
  <2> QED BY <2>2, <2>3 DEF TimesInv
<1>3. CASE UpgradeRandomVM
  <2>1. phase = "check" /\ phase' # "place" /\ UNCHANGED <<next, vmEndTime, taskEndTime>>
    BY <1>3 DEF UpgradeRandomVM, Calculated
  <2>2. TimesAgree'
    BY <2>1 DEF TimesAgree
  <2>3. CASE vms' = vms
    <3>1. TimesTyped' /\ WellQueued(vms') /\ OnlyPlacedQueued' /\ LastEnds'
      BY <2>1, <2>3 DEF TimesInv, TimesTyped, OnlyPlacedQueued, LastEnds
    <3>2. MakespanCalculated'
      <4>1. \/ UNCHANGED <<makespan, phase>>
            \/ phase' \notin {"check", "done"}
            \/ phase' = "check" /\ makespan' = Max({EndTimes(vms')[t] : t \in Tasks})
        BY <1>3 DEF UpgradeRandomVM, Calculated
      <4> QED BY <2>3, <4>1 DEF MakespanCalculated, TimesInv
    <3> QED BY <2>2, <3>1, <3>2 DEF TimesInv
  <2>4. CASE vms' # vms
    <3>1. PICK r \in 1..Cardinality(Upgradable) :
             /\ NewTypes(r) # {} /\ vms' = [vms EXCEPT ![r].type = NewVMType(r)]
             /\ Calculated(vms')
      BY <1>3, <2>4 DEF UpgradeRandomVM
    <3>2. /\ vms' \in Seq(Machine) /\ Len(vms') = Len(vms)
          /\ \A v \in DOMAIN vms : vms'[v].queue = vms[v].queue
      BY <3>1, UpgradeStep
    <3>3. DOMAIN vms' = DOMAIN vms
      BY <3>2 DEF BaselineInv, BaselineTypeOK
    <3>4. TimesTyped' /\ OnlyPlacedQueued' /\ LastEnds'
      BY <2>1, <3>2, <3>3 DEF TimesInv, TimesTyped, OnlyPlacedQueued, LastEnds
    <3>5. WellQueued(vms')
      BY <3>2, <3>3 DEF TimesInv, WellQueued
    <3>6. MakespanCalculated'
      BY <3>1 DEF Calculated, MakespanCalculated
    <3> QED BY <2>2, <3>4, <3>5, <3>6 DEF TimesInv
  <2> QED BY <2>3, <2>4
<1>4. CASE MakeActions \/ Ended \/ UNCHANGED vars
  <2>1. /\ UNCHANGED <<next, vms, vmEndTime, taskEndTime, makespan>>
        /\ phase' = "place" => phase = "place"
        /\ phase' \in {"check", "done"} => phase \in {"check", "done"}
    BY <1>4 DEF MakeActions, Ended, vars
  <2> QED BY <2>1 DEF TimesInv, TimesTyped, OnlyPlacedQueued, LastEnds, TimesAgree, MakespanCalculated
<1> QED BY <1>1, <1>2, <1>3, <1>4 DEF Next

LEMMA TimesInvariant == Spec => []TimesInv
<1>1. BaselineInv /\ BaselineInv' /\ TimesInv /\ [Next]_vars => TimesInv'
  BY TimesStep
<1> QED BY <1>1, TimesInit, BaselineInvariant, PTL DEF Spec

LEMMA AllPlacedQueued ==
    ASSUME BaselineInv, next = Size PROVE AllQueued(vms)
<1> SUFFICES ASSUME NEW t \in Tasks PROVE \E v \in DOMAIN vms : t \in ToSet(vms[v].queue)
  BY DEF AllQueued
<1>1. PICK i \in Tasks : Order[i] = t
  BY ViewTypes
<1>2. i \in 0..(next - 1)
  BY ViewTypes
<1> QED BY <1>1, <1>2 DEF BaselineInv, PlacedAreQueued

LEMMA PlacedTimes ==
    ASSUME BaselineInv, TimesInv PROVE PlacedAsCalculated
<1> SUFFICES ASSUME phase = "place", next = Size PROVE EndTimes(vms) = taskEndTime
  BY DEF PlacedAsCalculated
<1>1. WellQueued(vms) /\ AllQueued(vms) /\ taskEndTime \in [Tasks -> Nat]
  BY AllPlacedQueued DEF TimesInv, TimesTyped
<1>2. \A i \in Tasks : taskEndTime[Order[i]] = EndTime(vms, taskEndTime, Order[i])
  BY ViewTypes DEF TimesInv, TimesAgree
<1> QED BY <1>1, <1>2, EndTimesUnique

(* Faster machines end their tasks no later. *)
LEMMA FasterTakesLess ==
    ASSUME NEW a \in Nat, NEW x \in Nat \ {0}, NEW y \in Nat \ {0}, x <= y
    PROVE  a \div y <= a \div x
<1> DEFINE p == a \div x
           q == a \div y
<1>1. p \in Nat /\ q \in Nat /\ a < (p + 1) * x /\ q * y <= a
  OBVIOUS
<1> HIDE DEF p, q
<1>2. q * x <= q * y
  BY <1>1
<1>3. q * x < (p + 1) * x
  BY <1>1, <1>2
<1>4. q < p + 1
  BY <1>1, <1>3
<1> QED BY <1>1, <1>4 DEF p, q

LEMMA LatestRises ==
    ASSUME NEW D, D \subseteq Tasks, NEW f, NEW g, \A d \in D : f[d] \in Nat /\ g[d] \in Nat /\ f[d] <= g[d]
    PROVE  LatestEnd(D, f) <= LatestEnd(D, g)
<1> DEFINE a == LatestEnd(D, f)
           b == LatestEnd(D, g)
<1>1. a \in Nat /\ (a = 0 \/ \E d \in D : a = f[d])
  BY LatestExists
<1>2. b \in Nat /\ \A d \in D : g[d] <= b
  BY LatestExists
<1> HIDE DEF a, b
<1>3. a <= b
  BY <1>1, <1>2
<1> QED BY <1>3 DEF a, b

\* machines with some types made faster
Upgraded(machines, faster) ==
    /\ DOMAIN faster = DOMAIN machines
    /\ \A v \in DOMAIN machines : /\ faster[v].queue = machines[v].queue
                                  /\ ~Faster(machines[v].type, faster[v].type)

LEMMA UpgradedEndsNoLater ==
    ASSUME NEW machines, NEW faster, WellQueued(machines), AllQueued(machines),
           WellQueued(faster), Upgraded(machines, faster)
    PROVE  \A t \in Tasks : EndTimes(faster)[t] <= EndTimes(machines)[t]
<1> DEFINE f == EndTimes(machines)
           g == EndTimes(faster)
           Later == {i \in Tasks : ~(g[Order[i]] <= f[Order[i]])}
<1>1. AllQueued(faster)
  BY DEF AllQueued, Upgraded
<1>2. /\ f \in [Tasks -> Nat] /\ g \in [Tasks -> Nat]
      /\ \A i \in Tasks : f[Order[i]] = EndTime(machines, f, Order[i])
      /\ \A i \in Tasks : g[Order[i]] = EndTime(faster, g, Order[i])
  BY <1>1, EndTimesAre
<1> HIDE DEF f, g
<1>3. SUFFICES ASSUME Later # {} PROVE FALSE
  <2>1. ASSUME Later = {}, NEW t \in Tasks PROVE g[t] <= f[t]
    <3>1. PICK i \in Tasks : Order[i] = t
      BY ViewTypes
    <3>2. i \notin Later
      BY <2>1
    <3> QED BY <3>1, <3>2
  <2> QED BY <2>1 DEF f, g
<1>4. PICK i \in Later : \A j \in Later : i <= j
  <2>1. Later \subseteq Nat
    BY ViewTypes
  <2> HIDE DEF Later
  <2> QED BY <1>3, <2>1, LeastExists
<1>5. i \in Tasks /\ Order[i] \in Tasks /\ ~(g[Order[i]] <= f[Order[i]])
  BY ViewTypes
<1>6. \A j \in 0..(i - 1) : /\ Order[j] \in Tasks
                            /\ g[Order[j]] \in Nat /\ f[Order[j]] \in Nat /\ g[Order[j]] <= f[Order[j]]
  <2> SUFFICES ASSUME NEW j \in 0..(i - 1)
               PROVE  /\ Order[j] \in Tasks
                      /\ g[Order[j]] \in Nat /\ f[Order[j]] \in Nat /\ g[Order[j]] <= f[Order[j]]
    OBVIOUS
  <2>1. j \in Tasks /\ j < i /\ i \in Nat /\ j \in Nat
    BY <1>5, Earlier, ViewTypes
  <2>2. j \notin Later
    <3> HIDE DEF Later
    <3> QED BY <1>4, <2>1
  <2>3. Order[j] \in Tasks
    BY <2>1, ViewTypes
  <2> QED BY <1>2, <2>1, <2>2, <2>3
<1>7. PICK v \in DOMAIN machines : Order[i] \in ToSet(machines[v].queue)
  BY <1>5 DEF AllQueued
<1>8. PICK k \in DOMAIN machines[v].queue : machines[v].queue[k] = Order[i]
  BY <1>7 DEF ToSet
<1> DEFINE u == Order[i]
           q == machines[v].queue
           a == machines[v].type
           b == faster[v].type
           D == Dependencies[u] \cup Before(q, k)
<1>9. q = faster[v].queue /\ v \in DOMAIN faster /\ ~Faster(a, b)
  BY DEF Upgraded
<1>10. f[u] = LatestEnd(D, f) + (IF k = 1 THEN AvgLag ELSE 0) + GetExecutionTime(u, a)
  <2>1. q[k] = u
    BY <1>8
  <2> HIDE DEF u
  <2>2. EndTime(machines, f, u) = QueueEnd(q, a, k, f)
    BY <2>1, EndTimeIs
  <2>3. f[u] = EndTime(machines, f, u)
    BY <1>2, <1>5 DEF u
  <2> HIDE DEF q, a
  <2> QED BY <2>1, <2>2, <2>3 DEF QueueEnd
<1>11. g[u] = LatestEnd(D, g) + (IF k = 1 THEN AvgLag ELSE 0) + GetExecutionTime(u, b)
  <2>1. q[k] = u /\ faster[v].queue = q
    BY <1>8, <1>9
  <2> HIDE DEF u, q
  <2>2. EndTime(faster, g, u) = QueueEnd(q, b, k, g)
    <3>1. k \in DOMAIN faster[v].queue /\ faster[v].queue[k] = u
      BY <2>1 DEF q
    <3> QED BY <1>9, <2>1, <3>1, EndTimeIs
  <2>3. g[u] = EndTime(faster, g, u)
    BY <1>2, <1>5 DEF u
  <2> HIDE DEF b
  <2> QED BY <2>1, <2>2, <2>3 DEF QueueEnd
<1>12. \A d \in D : d \in Tasks /\ g[d] \in Nat /\ f[d] \in Nat /\ g[d] <= f[d]
  <2> SUFFICES ASSUME NEW d \in D PROVE d \in Tasks /\ g[d] \in Nat /\ f[d] \in Nat /\ g[d] <= f[d]
    OBVIOUS
  <2>1. PICK j \in 0..(i - 1) : d = Order[j]
    BY <1>5, <1>8, EarlierOnly
  <2> HIDE DEF D
  <2> QED BY <1>6, <2>1
<1> HIDE DEF D
<1>13. LatestEnd(D, g) <= LatestEnd(D, f) /\ LatestEnd(D, g) \in Nat /\ LatestEnd(D, f) \in Nat
  <2>1. LatestEnd(D, g) <= LatestEnd(D, f)
    BY <1>12, LatestRises
  <2>2. LatestEnd(D, g) \in Nat
    BY <1>12, LatestExists
  <2>3. LatestEnd(D, f) \in Nat
    BY <1>12, LatestExists
  <2> QED BY <2>1, <2>2, <2>3
<1>14. a \in Types /\ b \in Types
  BY <1>9, MachineIs DEF WellQueued
<1>15. /\ GetExecutionTime(u, b) <= GetExecutionTime(u, a)
       /\ GetExecutionTime(u, a) \in Nat /\ GetExecutionTime(u, b) \in Nat /\ AvgLag \in Nat
  <2> HIDE DEF a, b, u
  <2>1. u \in Tasks
    BY <1>5 DEF u
  <2>2. /\ Requirements[u].size \in Nat
        /\ VMList[a].flops \in Nat \ {0} /\ VMList[b].flops \in Nat \ {0}
    BY <1>14, <2>1, ViewAssumption
  <2>3. VMList[a].flops <= VMList[b].flops
    BY <1>9, <2>2 DEF Faster
  <2>4. GetExecutionTime(u, b) <= GetExecutionTime(u, a)
    BY <2>2, <2>3, FasterTakesLess DEF GetExecutionTime
  <2>5. GetExecutionTime(u, a) \in Nat
    BY <1>14, <2>1, ExecutionTakesTime
  <2>6. GetExecutionTime(u, b) \in Nat
    BY <1>14, <2>1, ExecutionTakesTime
  <2> QED BY <2>4, <2>5, <2>6, ViewAssumption
<1>16. ~(g[u] <= f[u])
  BY <1>5
<1> HIDE DEF a, b, u
<1> QED BY <1>10, <1>11, <1>13, <1>15, <1>16

\* The makespan of a plan whose tasks end at f.
LastEndOf(f) == Max({f[t] : t \in Tasks})

LEMMA LastEndIs ==
    ASSUME NEW f \in [Tasks -> Nat]
    PROVE  /\ LastEndOf(f) \in Nat /\ \A t \in Tasks : f[t] <= LastEndOf(f)
           /\ \E t \in Tasks : LastEndOf(f) = f[t]
<1> DEFINE g == [i \in 1..Size |-> f[i - 1]]
           S == {f[t] : t \in Tasks}
<1>1. Size \in Nat \ {0} /\ \A t \in Tasks : t + 1 \in 1..Size /\ (t + 1) - 1 = t
  BY ViewTypes
<1>2. \A i \in 1..Size : i - 1 \in Tasks
  BY ViewTypes
<1>3. g \in [1..Size -> Nat] /\ \A t \in Tasks : g[t + 1] = f[t]
  BY <1>1, <1>2
<1>4. PICK m \in 1..Size : \A i \in 1..Size : g[i] <= g[m]
  <2> HIDE DEF g
  <2> QED BY <1>1, <1>3, GreatestExists
<1> DEFINE l == m - 1
<1>5. l \in Tasks /\ f[l] = g[m]
  BY <1>2
<1> HIDE DEF g, l
<1>6. \A t \in Tasks : f[t] <= f[l]
  BY <1>1, <1>3, <1>4, <1>5
<1>7. f[l] \in S /\ \A y \in S : f[l] >= y
  BY <1>5, <1>6
<1>8. Max(S) \in S /\ \A y \in S : Max(S) >= y
  BY <1>7 DEF Max
<1>9. \A t \in Tasks : f[t] \in S
  OBVIOUS
<1>10. \A y \in S : y \in Nat /\ \E t \in Tasks : y = f[t]
  OBVIOUS
<1> HIDE DEF S
<1>11. /\ Max(S) \in Nat /\ \A t \in Tasks : f[t] <= Max(S)
       /\ \E t \in Tasks : Max(S) = f[t]
  BY <1>8, <1>9, <1>10
<1> QED BY <1>11 DEF S, LastEndOf

LEMMA LastEndRises ==
    ASSUME NEW f \in [Tasks -> Nat], NEW g \in [Tasks -> Nat], \A t \in Tasks : g[t] <= f[t]
    PROVE  LastEndOf(g) <= LastEndOf(f)
<1>1. LastEndOf(f) \in Nat /\ \A t \in Tasks : f[t] <= LastEndOf(f)
  BY LastEndIs
<1>2. PICK t \in Tasks : LastEndOf(g) = g[t]
  BY LastEndIs
<1> QED BY <1>1, <1>2

LEMMA UpgradeStepNeverHurts ==
    ASSUME BaselineInv, TimesInv, phase = "check", Next
    PROVE  /\ \A v \in DOMAIN vms : ~Faster(vms[v].type, vms'[v].type)
           /\ makespan' <= makespan
<1>1. next = Size /\ vms \in Seq(Machine) /\ WellQueued(vms) /\ AllQueued(vms)
  BY AllPlacedQueued DEF BaselineInv, BaselineTypeOK, TimesInv
<1>2. EndTimes(vms) \in [Tasks -> Nat] /\ makespan = LastEndOf(EndTimes(vms))
  BY <1>1, EndTimesAre DEF TimesInv, MakespanCalculated, LastEndOf
<1>3. makespan \in Nat
  BY <1>2, LastEndIs
<1>4. CASE vms' = vms
  <2>1. ASSUME NEW v \in DOMAIN vms PROVE ~Faster(vms[v].type, vms'[v].type)
    <3>1. vms[v].type \in Types
      BY MachineTypes, <1>1
    <3>2. VMList[vms[v].type].flops \in Nat
      BY <3>1, ViewTypes
    <3> QED BY <1>4, <3>2 DEF Faster
  <2>2. makespan' = makespan \/ makespan' = LastEndOf(EndTimes(vms'))
    BY DEF Next, PlaceTask, FirstMakespan, MakeActions, Ended, vars, UpgradeRandomVM, Calculated,
           LastEndOf
  <2> QED BY <1>2, <1>3, <1>4, <2>1, <2>2
<1>5. CASE vms' # vms
  <2>1. UpgradeRandomVM
    BY <1>5 DEF Next, PlaceTask, FirstMakespan, MakeActions, Ended, vars
  <2>2. PICK r \in 1..Cardinality(Upgradable) :
           /\ NewTypes(r) # {} /\ vms' = [vms EXCEPT ![r].type = NewVMType(r)]
           /\ Calculated(vms')
    BY <1>5, <2>1 DEF UpgradeRandomVM
  <2>3. /\ vms' \in Seq(Machine) /\ Len(vms') = Len(vms)
        /\ \A v \in DOMAIN vms : /\ vms'[v].queue = vms[v].queue
                                 /\ ~Faster(vms[v].type, vms'[v].type)
    BY <2>2, UpgradeStep
  <2>4. DOMAIN vms' = DOMAIN vms
    BY <1>1, <2>3
  <2>5. WellQueued(vms') /\ AllQueued(vms') /\ Upgraded(vms, vms')
    BY <1>1, <2>3, <2>4 DEF WellQueued, AllQueued, Upgraded
  <2>6. EndTimes(vms') \in [Tasks -> Nat]
    BY <2>5, EndTimesAre
  <2>7. \A t \in Tasks : EndTimes(vms')[t] <= EndTimes(vms)[t]
    BY <1>1, <2>5, UpgradedEndsNoLater
  <2>8. LastEndOf(EndTimes(vms')) <= LastEndOf(EndTimes(vms))
    BY <1>2, <2>6, <2>7, LastEndRises
  <2>9. makespan' = makespan \/ makespan' = LastEndOf(EndTimes(vms'))
    BY <2>2 DEF Calculated, LastEndOf
  <2> QED BY <1>2, <1>3, <2>3, <2>8, <2>9
<1> QED BY <1>4, <1>5

(* ------------------------------ theorems -------------------------------- *)

\* Every machine suits every task in its queue, whatever is upgraded.
THEOREM BaselineMachinesFit == Spec => []MachinesFit
<1>1. BaselineInv => MachinesFit
  BY DEF BaselineInv
<1> QED BY <1>1, BaselineInvariant, PTL

\* No upgrade makes a machine slower or the makespan longer.
THEOREM BaselineUpgradesNeverHurt == Spec => UpgradesNeverHurt
<1> DEFINE Unhurt == phase = "check" =>
                         /\ \A v \in DOMAIN vms : ~Faster(vms[v].type, vms'[v].type)
                         /\ makespan' <= makespan
<1>1. BaselineInv /\ TimesInv /\ [Next]_vars => [Unhurt]_vars
  BY UpgradeStepNeverHurts
<1>2. UpgradesNeverHurt <=> [][Unhurt]_vars
  BY DEF UpgradesNeverHurt
<1> QED BY <1>1, <1>2, BaselineInvariant, TimesInvariant, PTL DEF Spec

\* The times the tasks are placed by are those that are calculated from the
\* queues afterwards.
THEOREM BaselinePlacedAsCalculated == Spec => []PlacedAsCalculated
<1>1. BaselineInv /\ TimesInv => PlacedAsCalculated
  BY PlacedTimes
<1> QED BY <1>1, BaselineInvariant, TimesInvariant, PTL

\* The plan that is handed over has every task in the queue of a machine
\* that can run it.
THEOREM BaselinePlansAllTasks ==
    Spec => [](phase = "done" =>
                 \A t \in Tasks : \E v \in DOMAIN vms :
                     t \in ToSet(vms[v].queue) /\ CanBeExecuted(t, vms[v].type))
<1>1. BaselineInv =>
        (phase = "done" =>
           \A t \in Tasks : \E v \in DOMAIN vms :
               t \in ToSet(vms[v].queue) /\ CanBeExecuted(t, vms[v].type))
  <2> SUFFICES ASSUME BaselineInv, phase = "done", NEW t \in Tasks
               PROVE  \E v \in DOMAIN vms : t \in ToSet(vms[v].queue) /\ CanBeExecuted(t, vms[v].type)
    OBVIOUS
  <2>1. PICK i \in Tasks : Order[i] = t
    BY ViewTypes
  <2>2. i \in 0..(next - 1)
    BY ViewTypes DEF BaselineInv, BaselineTypeOK
  <2>3. PICK v \in DOMAIN vms : t \in ToSet(vms[v].queue)
    BY <2>1, <2>2 DEF BaselineInv, PlacedAreQueued
  <2> QED BY <2>3 DEF BaselineInv, MachinesFit, Fits
<1> QED BY <1>1, BaselineInvariant, PTL
=============================================================================
