-------------------------- MODULE Standalone_proofs --------------------------
(***************************************************************************)
(* Proofs about the three small components that share no state with the     *)
(* others or with each other: the packer, the balances in SQLite and the    *)
(* disputes, each for every value of its constants.                         *)
(***************************************************************************)
EXTENDS MemoryPacker, SQLBalance, Disputes, FiniteSetTheorems, TLAPS

(* The packer.                                                              *)

LEMMA FairIsBoolean == \A b, set : Fair(b, set) \in BOOLEAN
BY DEF Fair

LEMMA PackerInitInv == PackerInit => PackerTypeOK /\ Disjoint /\ ExtentIsFootprint
<1> SUFFICES ASSUME PackerInit PROVE PackerTypeOK /\ Disjoint /\ ExtentIsFootprint
  OBVIOUS
<1>1. fair \in BOOLEAN
  BY FairIsBoolean DEF PackerInit
<1>2. budget = NewBudget /\ placements = {} /\ stretched = FALSE
  BY DEF PackerInit
<1>3. budget \in [total : Nat, used : Int, reserve : Nat]
  BY <1>2, PackerAssumption DEF BudgetType
<1>4. PackerTypeOK
  BY <1>1, <1>2, <1>3 DEF PackerTypeOK
<1> QED
  BY <1>2, <1>4 DEF Disjoint, ExtentIsFootprint

(* A candidate address is a natural number with nothing in the way. *)
LEMMA FitsClear ==
    ASSUME PackerTypeOK, NEW size \in Sizes, NEW c \in FirstFit(size)
    PROVE  c \in Nat /\ Clear(c, size)
BY DEF FirstFit, Candidates, PackerTypeOK

LEMMA PlaceStep ==
    ASSUME PackerTypeOK, Disjoint, ExtentIsFootprint,
           NEW m \in Models, NEW size \in Sizes, Place(m, size)
    PROVE  PackerTypeOK' /\ Disjoint' /\ ExtentIsFootprint'
<1>1. PICK c \in FirstFit(size) : placements' = placements \cup {Placed(m, c, size)}
  BY DEF Place
<1>2. c \in Nat /\ Clear(c, size) /\ size \in Nat /\ size > 0
  BY FitsClear, PackerAssumption
<1> DEFINE new == Placed(m, c, size)
<1>3. /\ new \in [model : Models, start : Nat, end : Nat, size : Sizes]
      /\ new.start = c /\ new.end = c + size /\ new.size = size
  BY <1>2 DEF Placed
<1> HIDE DEF new
<1>4. placements' = placements \cup {new}
  BY <1>1 DEF new
<1>5. /\ budget' \in [total : Nat, used : Int, reserve : Nat]
      /\ stretched' = stretched /\ fair' = fair
  BY <1>2 DEF Place, PackerTypeOK
<1>6. PackerTypeOK'
  <2>1. \A p \in placements' : p.start < p.end
    BY <1>2, <1>3, <1>4 DEF PackerTypeOK
  <2> QED
    BY <2>1, <1>3, <1>4, <1>5 DEF PackerTypeOK
<1>7. \A q \in placements : q.end <= new.start \/ new.end <= q.start
  BY <1>2, <1>3 DEF Clear
<1>8. Disjoint'
  BY <1>4, <1>7 DEF Disjoint
<1>9. ExtentIsFootprint'
  BY <1>2, <1>3, <1>4, <1>5 DEF ExtentIsFootprint
<1> QED
  BY <1>6, <1>8, <1>9

LEMMA RemoveStep ==
    ASSUME PackerTypeOK, Disjoint, ExtentIsFootprint, NEW m \in Models, Remove(m)
    PROVE  PackerTypeOK' /\ Disjoint' /\ ExtentIsFootprint'
<1>1. PICK p \in placements :
         /\ placements' = placements \ {p}
         /\ budget' = [budget EXCEPT !.used = @ - (p.end - p.start)]
  BY DEF Remove
<1>2. p.end - p.start \in Int
  BY DEF PackerTypeOK
<1>3. UNCHANGED <<stretched, fair>>
  BY DEF Remove
<1> QED
  BY <1>1, <1>2, <1>3 DEF PackerTypeOK, Disjoint, ExtentIsFootprint

(* What Optimize makes of a placement: it keeps all but the start, and the  *)
(* start moves down to the end of a placement before it, or to zero.        *)
LEMMA Optimized ==
    ASSUME PackerTypeOK, Disjoint, Optimize, NEW n \in placements'
    PROVE  \E p \in placements :
              /\ IsCurrent(p, n.start) /\ n.start \in Nat /\ n.start <= p.start
              /\ n = [p EXCEPT !.start = n.start]
              /\ n.end = p.end
              /\ n \in [model : Models, start : Nat, end : Nat, size : Sizes]
<1>1. PICK p \in placements :
         \E e \in EdgesBefore(p) : IsCurrent(p, e) /\ n = [p EXCEPT !.start = e]
  BY DEF Optimize
<1> PICK e \in EdgesBefore(p) : IsCurrent(p, e) /\ n = [p EXCEPT !.start = e]
  BY <1>1
<1>2. p \in [model : Models, start : Nat, end : Nat, size : Sizes]
  BY DEF PackerTypeOK
<1>3. e \in Nat /\ e <= p.start
  <2>1. CASE e = 0
    BY <2>1, <1>2
  <2>2. CASE e # 0
    <3>1. PICK q \in placements : q.start < p.start /\ e = q.end
      BY <2>2 DEF EdgesBefore
    <3>2. q.start \in Nat /\ q.end \in Nat /\ q.start < q.end /\ p.start < p.end
      BY DEF PackerTypeOK
    <3>3. q # p
      BY <3>1, <3>2, <1>2
    <3>4. q.end <= p.start \/ p.end <= q.start
      BY <3>3 DEF Disjoint
    <3> QED
      BY <3>1, <3>2, <3>4, <1>2
  <2> QED
    BY <2>1, <2>2
<1>4. n.start = e /\ n.end = p.end /\ n \in [model : Models, start : Nat, end : Nat, size : Sizes]
  BY <1>1, <1>2, <1>3
<1> QED
  BY <1>1, <1>3, <1>4

LEMMA OptimizeStep ==
    ASSUME PackerTypeOK, Disjoint, ExtentIsFootprint, Optimize
    PROVE  PackerTypeOK' /\ Disjoint' /\ ExtentIsFootprint'
<1>1. UNCHANGED <<budget, fair>> /\ stretched' = (stretched \/ placements' # placements)
  BY DEF Optimize
<1>2. PackerTypeOK'
  <2>1. placements' \subseteq [model : Models, start : Nat, end : Nat, size : Sizes]
    BY Optimized
  <2>2. ASSUME NEW n \in placements' PROVE n.start < n.end
    <3>1. PICK p \in placements : n.start \in Nat /\ n.start <= p.start /\ n.end = p.end
      BY Optimized
    <3>2. p.start \in Nat /\ p.end \in Nat /\ p.start < p.end
      BY DEF PackerTypeOK
    <3> QED
      BY <3>1, <3>2
  <2>3. stretched' \in BOOLEAN /\ fair' \in BOOLEAN /\ budget' \in [total : Nat, used : Int, reserve : Nat]
    BY <1>1 DEF PackerTypeOK
  <2> QED
    BY <2>1, <2>2, <2>3 DEF PackerTypeOK
<1>3. Disjoint'
  <2> SUFFICES ASSUME NEW n \in placements', NEW k \in placements', n # k
               PROVE  n.end <= k.start \/ k.end <= n.start
    BY DEF Disjoint
  <2>1. PICK p \in placements :
           IsCurrent(p, n.start) /\ n = [p EXCEPT !.start = n.start] /\ n.end = p.end /\ n.start \in Nat
    BY Optimized
  <2>2. PICK q \in placements :
           IsCurrent(q, k.start) /\ k = [q EXCEPT !.start = k.start] /\ k.end = q.end /\ k.start \in Nat
    BY Optimized
  <2>3. p # q
    <3> SUFFICES ASSUME p = q PROVE FALSE
      OBVIOUS
    <3>1. n.start <= k.start /\ k.start <= n.start
      BY <2>1, <2>2 DEF IsCurrent
    <3>2. n.start = k.start
      BY <3>1, <2>1, <2>2
    <3> QED
      BY <3>2, <2>1, <2>2
  <2>4. /\ p.start \in Nat /\ p.end \in Nat /\ p.start < p.end
        /\ q.start \in Nat /\ q.end \in Nat /\ q.start < q.end
    BY DEF PackerTypeOK
  <2>5. CASE p.end <= q.start
    <3>1. p.start < q.start
      BY <2>4, <2>5
    <3>2. p.end \in EdgesBefore(q)
      BY <3>1 DEF EdgesBefore
    <3> QED
      BY <3>2, <2>1, <2>2 DEF IsCurrent
  <2>6. CASE q.end <= p.start
    <3>1. q.start < p.start
      BY <2>4, <2>6
    <3>2. q.end \in EdgesBefore(p)
      BY <3>1 DEF EdgesBefore
    <3> QED
      BY <3>2, <2>1, <2>2 DEF IsCurrent
  <2> QED
    BY <2>3, <2>5, <2>6 DEF Disjoint
<1>4. ExtentIsFootprint'
  BY <1>1 DEF ExtentIsFootprint
<1> QED
  BY <1>2, <1>3, <1>4

LEMMA PackerStep == PackerTypeOK /\ Disjoint /\ ExtentIsFootprint /\ [PackerNext]_packerVars
                => PackerTypeOK' /\ Disjoint' /\ ExtentIsFootprint'
<1> SUFFICES ASSUME PackerTypeOK, Disjoint, ExtentIsFootprint, [PackerNext]_packerVars
             PROVE  PackerTypeOK' /\ Disjoint' /\ ExtentIsFootprint'
  OBVIOUS
<1>1. ASSUME NEW m \in Models, NEW size \in Sizes, Place(m, size)
      PROVE  PackerTypeOK' /\ Disjoint' /\ ExtentIsFootprint'
  BY <1>1, PlaceStep
<1>2. ASSUME NEW m \in Models, Remove(m) PROVE PackerTypeOK' /\ Disjoint' /\ ExtentIsFootprint'
  BY <1>2, RemoveStep
<1>3. CASE Optimize
  BY <1>3, OptimizeStep
<1>4. ASSUME NEW b \in Budgets, SetBudget(b) PROVE PackerTypeOK' /\ Disjoint' /\ ExtentIsFootprint'
  BY <1>4, FairIsBoolean, PackerAssumption DEF SetBudget, PackerTypeOK, Disjoint, ExtentIsFootprint, BudgetType
<1>5. CASE UNCHANGED packerVars
  BY <1>5 DEF packerVars, PackerTypeOK, Disjoint, ExtentIsFootprint
<1> QED
  BY <1>1, <1>2, <1>3, <1>4, <1>5 DEF PackerNext

(* Every variable keeps its type, and every placement an extent, for any    *)
(* footprints and budgets (Packer).                                         *)
THEOREM PackerTypes == PackerSpec => []PackerTypeOK
<1> QED
  BY PackerInitInv, PackerStep, PTL DEF PackerSpec

(* No two models ever share memory, whatever is placed into gaps and        *)
(* however Optimize moves the edges (Place, Optimize).                      *)
THEOREM NoOverlap == PackerSpec => []Disjoint
<1> QED
  BY PackerInitInv, PackerStep, PTL DEF PackerSpec

(* A placement has the size of its footprint until an Optimize closes a gap *)
(* (Place, Remove).                                                         *)
THEOREM Footprint == PackerSpec => []ExtentIsFootprint
<1> QED
  BY PackerInitInv, PackerStep, PTL DEF PackerSpec

-----------------------------------------------------------------------------
(* Sums over finite sets.                                                   *)

(* A set of subsets of a finite set has a smallest member: the induction    *)
(* over finite sets, in the form of a least counterexample.                 *)
LEMMA SmallestSubset ==
    ASSUME NEW T, IsFiniteSet(T), NEW B, B \subseteq SUBSET T, B # {}
    PROVE  \E m \in B : \A n \in B : n \subseteq m => n = m
<1>1. IsWellFoundedOn(StrictSubsetOrdering(T), SUBSET T)
  BY FS_StrictSubsetOrderingWellFounded, FS_FiniteSubsetsOfFinite
<1>2. PICK m \in B : \A n \in B : ~ (<<n, m>> \in StrictSubsetOrdering(T))
  BY <1>1, WFMin
<1> QED
  BY <1>2 DEF StrictSubsetOrdering

(* MapThenSumSet takes the members of a set out in the order of one CHOOSE. *)
First(s) == CHOOSE p \in s : TRUE
Rest(s)  == s \ {First(s)}

(* w gives each member its weight.                                          *)
Sums(f, w, T) ==
    f = [s \in SUBSET T |-> IF s = {} THEN 0 ELSE w[First(s)] + f[Rest(s)]]

SumOf(w, T) == CHOOSE f : Sums(f, w, T)

Weight(w, T) == SumOf(w, T)[T]

LEMMA FirstIsMember == ASSUME NEW s, s # {} PROVE First(s) \in s /\ Rest(s) \subseteq s /\ Rest(s) # s
BY DEF First, Rest

LEMMA SumsValue ==
    ASSUME NEW f, NEW w, NEW T, Sums(f, w, T), NEW s \in SUBSET T
    PROVE  f[s] = IF s = {} THEN 0 ELSE w[First(s)] + f[Rest(s)]
BY DEF Sums

(* Two such functions agree where both are defined.                         *)
LEMMA SumsAgree ==
    ASSUME NEW Q, IsFiniteSet(Q), NEW R \in SUBSET Q, NEW w, NEW f, NEW g, Sums(f, w, R), Sums(g, w, Q)
    PROVE  \A s \in SUBSET R : f[s] = g[s]
<1> DEFINE Bad == {s \in SUBSET R : f[s] # g[s]}
<1> SUFFICES ASSUME Bad # {} PROVE FALSE
  OBVIOUS
<1>1. Bad \subseteq SUBSET Q
  OBVIOUS
<1> HIDE DEF Bad
<1>2. PICK m \in Bad : \A n \in Bad : n \subseteq m => n = m
  BY <1>1, SmallestSubset
<1> USE DEF Bad
<1>3. m \in SUBSET R /\ m \in SUBSET Q /\ f[m] # g[m]
  OBVIOUS
<1>4. m # {}
  BY <1>3, SumsValue
<1>5. Rest(m) \in SUBSET R /\ Rest(m) \subseteq m /\ Rest(m) # m
  BY <1>3, <1>4, FirstIsMember
<1>6. f[Rest(m)] = g[Rest(m)]
  BY <1>2, <1>5
<1> QED
  BY <1>3, <1>4, <1>6, SumsValue

LEMMA SumsExist == ASSUME NEW w, NEW T, IsFiniteSet(T) PROVE Sums(SumOf(w, T), w, T)
<1> DEFINE Bad == {s \in SUBSET T : ~ \E f : Sums(f, w, s)}
<1>0. Bad \subseteq SUBSET T
  OBVIOUS
<1>1. Bad = {}
  <2> SUFFICES ASSUME Bad # {} PROVE FALSE
    OBVIOUS
  <2> HIDE DEF Bad
  <2>1. PICK m \in Bad : \A n \in Bad : n \subseteq m => n = m
    BY <1>0, SmallestSubset
  <2> USE DEF Bad
  <2>2. ASSUME NEW s \in SUBSET m, s # m PROVE Sums(SumOf(w, s), w, s) /\ IsFiniteSet(s)
    <3>1. s \in SUBSET T /\ s \notin Bad
      BY <2>1, <2>2
    <3>2. \E f : Sums(f, w, s)
      BY <3>1
    <3> QED
      BY <3>1, <3>2, FS_Subset DEF SumOf
  <2> DEFINE h == [s \in SUBSET m |-> IF s = {} THEN 0
                                      ELSE w[First(s)] + SumOf(w, Rest(s))[Rest(s)]]
  <2>3. ASSUME NEW s \in SUBSET m, s # m PROVE h[s] = SumOf(w, s)[s]
    <3>1. Sums(SumOf(w, s), w, s) /\ IsFiniteSet(s)
      BY <2>2, <2>3
    <3>2. SumOf(w, s)[s] = IF s = {} THEN 0 ELSE w[First(s)] + SumOf(w, s)[Rest(s)]
      BY <3>1, SumsValue
    <3>3. CASE s # {}
      <4>1. Rest(s) \in SUBSET s /\ Rest(s) \in SUBSET m /\ Rest(s) # m
        BY <2>3, <3>3, FirstIsMember
      <4>2. Sums(SumOf(w, Rest(s)), w, Rest(s))
        BY <2>2, <4>1
      <4>3. SumOf(w, Rest(s))[Rest(s)] = SumOf(w, s)[Rest(s)]
        BY <3>1, <4>1, <4>2, SumsAgree
      <4> QED
        BY <3>2, <3>3, <4>3
    <3> QED
      BY <3>2, <3>3
  <2>4. Sums(h, w, m)
    <3>1. ASSUME NEW s \in SUBSET m
          PROVE  h[s] = IF s = {} THEN 0 ELSE w[First(s)] + h[Rest(s)]
      <4>1. CASE s # {}
        <5>1. Rest(s) \in SUBSET m /\ Rest(s) # m
          BY <4>1, FirstIsMember
        <5>2. h[Rest(s)] = SumOf(w, Rest(s))[Rest(s)]
          BY <2>3, <5>1
        <5> QED
          BY <4>1, <5>2
      <4> QED
        BY <4>1
    <3>2. h = [s \in SUBSET m |-> h[s]]
      OBVIOUS
    <3> HIDE DEF h
    <3> QED
      BY <3>1, <3>2 DEF Sums
  <2> QED
    BY <2>1, <2>4
<1>2. \E f : Sums(f, w, T)
  BY <1>1
<1> QED
  BY <1>2 DEF SumOf

LEMMA WeightEmpty == ASSUME NEW w PROVE Weight(w, {}) = 0
BY SumsExist, FS_EmptySet, SumsValue DEF Weight

LEMMA WeightFirst ==
    ASSUME NEW w, NEW S, IsFiniteSet(S), S # {}
    PROVE  Weight(w, S) = w[First(S)] + Weight(w, Rest(S))
<1>1. Rest(S) \in SUBSET S /\ IsFiniteSet(Rest(S))
  BY FirstIsMember, FS_Subset
<1>2. Sums(SumOf(w, S), w, S) /\ Sums(SumOf(w, Rest(S)), w, Rest(S))
  BY <1>1, SumsExist
<1>3. SumOf(w, Rest(S))[Rest(S)] = SumOf(w, S)[Rest(S)]
  BY <1>1, <1>2, SumsAgree
<1> QED
  BY <1>2, <1>3, SumsValue DEF Weight

LEMMA WeightType ==
    ASSUME NEW w, NEW S, IsFiniteSet(S), \A p \in S : w[p] \in Int
    PROVE  Weight(w, S) \in Int
<1> DEFINE Bad == {s \in SUBSET S : Weight(w, s) \notin Int}
<1> SUFFICES ASSUME Bad # {} PROVE FALSE
  OBVIOUS
<1>0. Bad \subseteq SUBSET S
  OBVIOUS
<1> HIDE DEF Bad
<1>1. PICK m \in Bad : \A n \in Bad : n \subseteq m => n = m
  BY <1>0, SmallestSubset
<1> USE DEF Bad
<1>2. m # {} /\ m \in SUBSET S /\ IsFiniteSet(m)
  <2>1. m \in SUBSET S /\ Weight(w, m) \notin Int
    OBVIOUS
  <2>2. m # {}
    BY <2>1, WeightEmpty
  <2> QED
    BY <2>1, <2>2, FS_Subset
<1>3. First(m) \in S /\ Rest(m) \in SUBSET S /\ Rest(m) \notin Bad
  BY <1>1, <1>2, FirstIsMember
<1>4. Weight(w, Rest(m)) \in Int /\ w[First(m)] \in Int
  BY <1>3
<1> QED
  BY <1>2, <1>4, WeightFirst

(* The sum does not depend on that order: any member may be taken out.      *)
LEMMA WeightWithout ==
    ASSUME NEW w, NEW S, IsFiniteSet(S), \A p \in S : w[p] \in Int, NEW x \in S
    PROVE  Weight(w, S) = w[x] + Weight(w, S \ {x})
<1> DEFINE Bad == {s \in SUBSET S : \E y \in s : Weight(w, s) # w[y] + Weight(w, s \ {y})}
<1>0. Bad \subseteq SUBSET S
  OBVIOUS
<1>1. Bad = {}
  <2> SUFFICES ASSUME Bad # {} PROVE FALSE
    OBVIOUS
  <2> HIDE DEF Bad
  <2>1. PICK m \in Bad : \A n \in Bad : n \subseteq m => n = m
    BY <1>0, SmallestSubset
  <2> USE DEF Bad
  <2>2. PICK y \in m : Weight(w, m) # w[y] + Weight(w, m \ {y})
    OBVIOUS
  <2>3. m \in SUBSET S /\ IsFiniteSet(m) /\ m # {}
    BY FS_Subset
  <2> DEFINE c == First(m)
  <2>4. c \in m /\ Weight(w, m) = w[c] + Weight(w, m \ {c})
    BY <2>3, FirstIsMember, WeightFirst DEF Rest
  <2> HIDE DEF c
  <2>5. y # c
    BY <2>2, <2>4
  <2>6. m \ {c} \notin Bad /\ m \ {y} \notin Bad
    BY <2>1, <2>2, <2>4
  <2>7. Weight(w, m \ {c}) = w[y] + Weight(w, (m \ {c}) \ {y})
    BY <2>2, <2>3, <2>5, <2>6
  <2>8. Weight(w, m \ {y}) = w[c] + Weight(w, (m \ {y}) \ {c})
    BY <2>3, <2>4, <2>5, <2>6
  <2>9. (m \ {y}) \ {c} = (m \ {c}) \ {y}
    OBVIOUS
  <2> DEFINE both == Weight(w, (m \ {c}) \ {y})
  <2>10. /\ w[c] \in Int /\ w[y] \in Int
         /\ both \in Int
    <3>1. (m \ {c}) \ {y} \in SUBSET S /\ IsFiniteSet((m \ {c}) \ {y})
      BY <2>3, FS_Subset
    <3> QED
      BY <2>3, <2>4, <3>1, WeightType
  <2>11. Weight(w, m) = w[c] + (w[y] + both)
    BY <2>4, <2>7
  <2>12. Weight(w, m \ {y}) = w[c] + both
    BY <2>8, <2>9
  <2> HIDE DEF both
  <2>13. Weight(w, m) = w[y] + Weight(w, m \ {y})
    BY <2>10, <2>11, <2>12
  <2> QED
    BY <2>2, <2>13
<1> QED
  BY <1>1

(* The two sums of the components are such weights.                         *)
LEMMA FootprintsAreWeights ==
    ASSUME NEW T, IsFiniteSet(T), NEW w, \A p \in T : w[p] = p.size
    PROVE  Footprints(T) = Weight(w, T)
<1> DEFINE Is(f) == f = [s \in SUBSET T |-> IF s = {} THEN 0 ELSE First(s).size + f[Rest(s)]]
<1>1. Footprints(T) = (CHOOSE f : Is(f))[T]
  BY DEF Footprints, MapThenSumSet, MapThenFoldSet, First, Rest
<1>2. ASSUME NEW f PROVE Is(f) <=> Sums(f, w, T)
  <2>1. \A s \in SUBSET T : s # {} => w[First(s)] = First(s).size
    BY FirstIsMember
  <2> QED
    BY <2>1 DEF Sums
<1>3. Sums(SumOf(w, T), w, T)
  BY SumsExist
<1>4. \E f : Is(f)
  BY <1>2, <1>3
<1> DEFINE g == CHOOSE f : Is(f)
<1>5. Is(g)
  BY <1>4
<1> HIDE DEF g
<1>6. Sums(g, w, T)
  BY <1>2, <1>5
<1>7. g[T] = SumOf(w, T)[T]
  BY <1>3, <1>6, SumsAgree
<1> QED
  BY <1>1, <1>7 DEF g, Weight

LEMMA FootprintsType ==
    ASSUME NEW S, IsFiniteSet(S), \A p \in S : p.size \in Int
    PROVE  Footprints(S) \in Int
<1> DEFINE w == [p \in S |-> p.size]
<1>1. \A p \in S : w[p] = p.size /\ w[p] \in Int
  OBVIOUS
<1> HIDE DEF w
<1> QED
  BY <1>1, FootprintsAreWeights, WeightType

LEMMA FootprintsWithout ==
    ASSUME NEW S, IsFiniteSet(S), \A p \in S : p.size \in Int, NEW x \in S
    PROVE  Footprints(S) = x.size + Footprints(S \ {x})
<1> DEFINE w == [p \in S |-> p.size]
<1>1. \A p \in S : w[p] = p.size /\ w[p] \in Int
  OBVIOUS
<1> HIDE DEF w
<1>2. IsFiniteSet(S \ {x})
  BY FS_RemoveElement
<1>3. Footprints(S) = Weight(w, S) /\ Footprints(S \ {x}) = Weight(w, S \ {x})
  BY <1>1, <1>2, FootprintsAreWeights
<1>4. Weight(w, S) = w[x] + Weight(w, S \ {x})
  BY <1>1, WeightWithout
<1> QED
  BY <1>1, <1>3, <1>4

LEMMA TotalsAreWeights ==
    ASSUME NEW T, IsFiniteSet(T), NEW w, \A p \in T : w[p] = p.cents
    PROVE  Total(T) = Weight(w, T)
<1> DEFINE Is(f) == f = [s \in SUBSET T |-> IF s = {} THEN 0 ELSE First(s).cents + f[Rest(s)]]
<1>1. Total(T) = (CHOOSE f : Is(f))[T]
  BY DEF Total, MapThenSumSet, MapThenFoldSet, First, Rest
<1>2. ASSUME NEW f PROVE Is(f) <=> Sums(f, w, T)
  <2>1. \A s \in SUBSET T : s # {} => w[First(s)] = First(s).cents
    BY FirstIsMember
  <2> QED
    BY <2>1 DEF Sums
<1>3. Sums(SumOf(w, T), w, T)
  BY SumsExist
<1>4. \E f : Is(f)
  BY <1>2, <1>3
<1> DEFINE g == CHOOSE f : Is(f)
<1>5. Is(g)
  BY <1>4
<1> HIDE DEF g
<1>6. Sums(g, w, T)
  BY <1>2, <1>5
<1>7. g[T] = SumOf(w, T)[T]
  BY <1>3, <1>6, SumsAgree
<1> QED
  BY <1>1, <1>7 DEF g, Weight

LEMMA TotalEmpty == Total({}) = 0
BY FS_EmptySet, TotalsAreWeights, WeightEmpty

LEMMA TotalType ==
    ASSUME NEW S, IsFiniteSet(S), \A p \in S : p.cents \in Int
    PROVE  Total(S) \in Int
<1> DEFINE w == [p \in S |-> p.cents]
<1>1. \A p \in S : w[p] = p.cents /\ w[p] \in Int
  OBVIOUS
<1> HIDE DEF w
<1> QED
  BY <1>1, TotalsAreWeights, WeightType

LEMMA TotalWithout ==
    ASSUME NEW S, IsFiniteSet(S), \A p \in S : p.cents \in Int, NEW x \in S
    PROVE  Total(S) = x.cents + Total(S \ {x})
<1> DEFINE w == [p \in S |-> p.cents]
<1>1. \A p \in S : w[p] = p.cents /\ w[p] \in Int
  OBVIOUS
<1> HIDE DEF w
<1>2. IsFiniteSet(S \ {x})
  BY FS_RemoveElement
<1>3. Total(S) = Weight(w, S) /\ Total(S \ {x}) = Weight(w, S \ {x})
  BY <1>1, <1>2, TotalsAreWeights
<1>4. Weight(w, S) = w[x] + Weight(w, S \ {x})
  BY <1>1, WeightWithout
<1> QED
  BY <1>1, <1>3, <1>4

-----------------------------------------------------------------------------
\* Until an Optimize moved an edge, the placements are finitely many.
Finite == ~ stretched => IsFiniteSet(placements)

LEMMA PlaceCounts ==
    ASSUME PackerTypeOK, Finite, Counted, NEW m \in Models, NEW size \in Sizes, Place(m, size)
    PROVE  Finite' /\ Counted'
<1> SUFFICES ASSUME ~ stretched' PROVE Finite' /\ Counted'
  BY DEF Finite, Counted
<1>1. PICK c \in FirstFit(size) : placements' = placements \cup {Placed(m, c, size)}
  BY DEF Place
<1>2. c \in Nat /\ Clear(c, size) /\ size \in Nat /\ size > 0
  BY PackerAssumption DEF FirstFit, Candidates, PackerTypeOK
<1> DEFINE new == Placed(m, c, size)
<1>3. new.start = c /\ new.end = c + size /\ new.size = size
  BY DEF Placed
<1> HIDE DEF new
<1>4. placements' = placements \cup {new}
  BY <1>1 DEF new
<1>5. new \notin placements
  BY <1>2, <1>3 DEF Clear
<1>6. IsFiniteSet(placements) /\ stretched' = stretched /\ fair' = fair
  BY DEF Finite, Place
<1>7. IsFiniteSet(placements')
  BY <1>4, <1>6, FS_AddElement
<1>8. \A p \in placements' : p.size \in Nat
  BY <1>2, <1>3, <1>4, PackerAssumption DEF PackerTypeOK
<1>9. Footprints(placements') = size + Footprints(placements)
  <2>1. placements' \ {new} = placements
    BY <1>4, <1>5
  <2> QED
    BY <1>3, <1>4, <1>7, <1>8, <2>1, FootprintsWithout
<1>10. /\ budget'.used = budget.used + size
       /\ budget'.reserve = budget.reserve /\ budget'.total = budget.total
       /\ budget.used \in Int /\ budget.reserve \in Nat /\ budget.total \in Nat
       /\ budget.total - budget.used - budget.reserve >= size
  BY DEF Place, CanFit, Available, PackerTypeOK
<1>11. Counted'
  BY <1>2, <1>6, <1>9, <1>10 DEF Counted
<1> QED
  BY <1>7, <1>11 DEF Finite

LEMMA RemoveCounts ==
    ASSUME PackerTypeOK, ExtentIsFootprint, Finite, Counted, NEW m \in Models, Remove(m)
    PROVE  Finite' /\ Counted'
<1> SUFFICES ASSUME ~ stretched' PROVE Finite' /\ Counted'
  BY DEF Finite, Counted
<1>1. PICK p \in placements :
         /\ placements' = placements \ {p}
         /\ budget' = [budget EXCEPT !.used = @ - (p.end - p.start)]
  BY DEF Remove
<1>2. stretched' = stretched /\ fair' = fair
  BY DEF Remove
<1>3. p.end - p.start = p.size /\ IsFiniteSet(placements)
  BY <1>2 DEF ExtentIsFootprint, Finite
<1>4. \A q \in placements : q.size \in Nat
  BY PackerAssumption DEF PackerTypeOK
<1>5. IsFiniteSet(placements')
  BY <1>1, <1>3, FS_RemoveElement
<1>6. Footprints(placements) = p.size + Footprints(placements')
  BY <1>1, <1>3, <1>4, FootprintsWithout
<1>7. Footprints(placements') \in Int
  BY <1>1, <1>4, <1>5, FootprintsType
<1>8. /\ budget'.used = budget.used - p.size
      /\ budget'.reserve = budget.reserve /\ budget'.total = budget.total
      /\ budget.used \in Int /\ budget.reserve \in Nat /\ budget.total \in Nat
      /\ p.size \in Nat
  BY <1>1, <1>3, <1>4 DEF PackerTypeOK
<1>9. Counted'
  BY <1>2, <1>6, <1>7, <1>8 DEF Counted
<1> QED
  BY <1>5, <1>9 DEF Finite

LEMMA StepCounts ==
    PackerTypeOK /\ ExtentIsFootprint /\ Finite /\ Counted /\ [PackerNext]_packerVars
        => Finite' /\ Counted'
<1> SUFFICES ASSUME PackerTypeOK, ExtentIsFootprint, Finite, Counted, [PackerNext]_packerVars
             PROVE  Finite' /\ Counted'
  OBVIOUS
<1>1. CASE Optimize
  BY <1>1 DEF Optimize, Finite, Counted
<1>2. ASSUME NEW b \in Budgets, SetBudget(b) PROVE Finite' /\ Counted'
  BY <1>2 DEF SetBudget, Fair, Finite, Counted
<1>3. CASE UNCHANGED packerVars
  BY <1>3 DEF packerVars, Finite, Counted
<1> QED
  BY <1>1, <1>2, <1>3, PlaceCounts, RemoveCounts DEF PackerNext

(* Until an Optimize closes a gap the use is the sum of the footprints of   *)
(* the placed models and leaves the reserve free, if the budget was         *)
(* installed so (Place, Remove, SetBudget).                                 *)
THEOREM UseIsCounted == PackerSpec => []Counted
<1> DEFINE I == PackerTypeOK /\ Disjoint /\ ExtentIsFootprint /\ Finite /\ Counted
<1>1. PackerInit => Finite /\ Counted
  BY FS_EmptySet DEF PackerInit, Fair, Finite, Counted
<1>2. PackerInit => I
  BY <1>1, PackerInitInv
<1>3. I /\ [PackerNext]_packerVars => I'
  BY PackerStep, StepCounts
<1>4. I => Counted
  OBVIOUS
<1> HIDE DEF I
<1> QED
  BY <1>2, <1>3, <1>4, PTL DEF PackerSpec

-----------------------------------------------------------------------------
(* The balances in SQLite.                                                  *)

(* A charge at its second statement read enough.                            *)
ReadEnough ==
    \A c \in Calls : step[c] = "write" /\ kind[c] = "deduct" => seen[c] >= amount[c]

(* What is acknowledged is over.                                            *)
AckedEnded ==
    \A k \in Accounts : IsFiniteSet(acked[k]) /\ \A e \in acked[k] : step[e.call] = "ok"

(* Calls that are at work on a row at once are known to overlap.            *)
WorkBeside ==
    \A k \in Accounts : \A c, d \in WorkingOn(k) : c # d => {c, d} \in beside

(* The acknowledged entries that a value of a row is made of, from its base; *)
(* what it lacks overlapped one of them, or a call of those at work.        *)
MadeOf(value, from, entries, pairs, work, kept) ==
    /\ kept \subseteq entries
    /\ SameWord(value, from + Total(kept))
    /\ \A e \in entries \ kept :
          \/ \E f \in kept : {e.call, f.call} \in pairs
          \/ \E d \in work : {e.call, d} \in pairs

(* So is what a call has read: what came since overlaps the call itself.    *)
ReadMadeOf ==
    \A c \in Calls : step[c] = "write" /\ key[c] \notin crossed =>
        \E kept : MadeOf(seen[c], base[key[c]], acked[key[c]], beside, {c}, kept)

RowMadeOf ==
    \A k \in Accounts \ crossed :
        \E kept : MadeOf(Value(k), base[k], acked[k], beside, {}, kept)

SQLInv == SQLTypeOK /\ ReadEnough /\ AckedEnded /\ WorkBeside /\ ReadMadeOf /\ RowMadeOf

LEMMA Int64Facts ==
    /\ MaxInt64 \in Nat /\ MaxInt64 > 0
    /\ 0 \in Int64 /\ 1 \in Cents
    /\ \A a \in Int64, b \in Cents : Plus64(a, b) \in Int64
    /\ \A a \in Int64, b \in Cents : a >= b => a - b \in Int64 /\ a - b >= 0
BY MaxInt64Assumption DEF Int64, Cents, Plus64

(* Int64 values that differ by a wrap are the same word.                    *)
LEMMA SameWords ==
    ASSUME NEW m \in Int, NEW n \in Int
    PROVE  /\ SameWord(m, m)
           /\ SameWord(m, n) => SameWord(m - 2 * (MaxInt64 + 1), n)
           /\ \A d \in Int : SameWord(m, n) => SameWord(m + d, n + d)
<1> DEFINE w == 2 * (MaxInt64 + 1)
<1>1. w \in Nat /\ w > 0
  BY MaxInt64Assumption
<1> HIDE DEF w
<1>2. ASSUME NEW a \in Int, a % w = 0 PROVE (a - w) % w = 0
  <2>1. a = w * (a \div w) + 0
    BY <1>1, <1>2
  <2>2. PICK q \in Int : a = w * q
    BY <1>1, <2>1
  <2>3. a - w = w * (q - 1)
    BY <1>1, <2>2
  <2> QED
    BY <1>1, <2>3
<1>3. 0 % w = 0
  BY <1>1
<1>4. m - m = 0 /\ (m - w) - n = (m - n) - w /\ m - n \in Int
  BY <1>1
<1>5. ASSUME NEW d \in Int PROVE (m + d) - (n + d) = m - n
  BY <1>5
<1>6. SameWord(m, m)
  BY <1>3, <1>4 DEF SameWord, w
<1>7. SameWord(m, n) => SameWord(m - w, n)
  <2> SUFFICES ASSUME (m - n) % w = 0 PROVE ((m - w) - n) % w = 0
    BY DEF SameWord, w
  <2>1. ((m - n) - w) % w = 0
    BY <1>2, <1>4
  <2> QED
    BY <1>4, <2>1
<1>8. ASSUME NEW d \in Int, SameWord(m, n) PROVE SameWord(m + d, n + d)
  BY <1>5, <1>8 DEF SameWord
<1> QED
  BY <1>6, <1>7, <1>8 DEF w

LEMMA SameWordSum ==
    ASSUME NEW m \in Int, NEW n \in Int, NEW d \in Int, SameWord(m, n)
    PROVE  SameWord(m + d, n + d)
BY SameWords

LEMMA Multiple ==
    ASSUME NEW w \in Nat, w > 0, NEW a \in Int, a % w = 0
    PROVE  \E q \in Int : a = w * q
<1>1. a = w * (a \div w) + 0
  OBVIOUS
<1> QED
  BY <1>1

LEMMA SameWordChain ==
    ASSUME NEW m \in Int, NEW n \in Int, NEW o \in Int, SameWord(m, n), SameWord(n, o)
    PROVE  SameWord(m, o)
<1> DEFINE w == 2 * (MaxInt64 + 1)
<1>1. w \in Nat /\ w > 0
  BY MaxInt64Assumption
<1>2. (m - n) % w = 0 /\ (n - o) % w = 0 /\ m - n \in Int /\ n - o \in Int
  BY DEF SameWord
<1> HIDE DEF w
<1>3. (\E p \in Int : m - n = w * p) /\ (\E q \in Int : n - o = w * q)
  BY <1>1, <1>2, Multiple
<1>4. PICK p \in Int, q \in Int : m - n = w * p /\ n - o = w * q
  BY <1>3
<1>5. m - o = w * (p + q)
  BY <1>1, <1>4
<1>6. (m - o) % w = 0
  BY <1>1, <1>5
<1> QED
  BY <1>6 DEF SameWord, w

LEMMA WrittenFits ==
    ASSUME SQLInv, NEW c \in Calls, step[c] = "write"
    PROVE  Written(c) \in Int64
BY Int64Facts DEF SQLInv, SQLTypeOK, ReadEnough, Written

(* What a call writes is what it read and its entry, but for a wrap.        *)
LEMMA WrittenWord ==
    ASSUME SQLTypeOK, NEW c \in Calls
    PROVE  /\ Entry(c).call = c /\ Entry(c) \in [call : Calls, cents : Int]
           /\ SameWord(Written(c), seen[c] + Entry(c).cents)
<1>1. /\ seen[c] \in Int /\ amount[c] \in Int /\ MaxInt64 \in Int
      /\ kind[c] \in {"add", "deduct"}
  BY Int64Facts DEF SQLTypeOK, Int64, Cents
<1>2. /\ Entry(c).call = c /\ Entry(c) \in [call : Calls, cents : Int]
      /\ Entry(c).cents = IF kind[c] = "add" THEN amount[c] ELSE -amount[c]
  BY <1>1 DEF Entry
<1> DEFINE sum == seen[c] + Entry(c).cents
<1>3. sum \in Int /\ Written(c) \in {sum, sum - 2 * (MaxInt64 + 1)}
  BY <1>1, <1>2 DEF Written, Plus64
<1> HIDE DEF sum
<1>4. SameWord(sum, sum) /\ SameWord(sum - 2 * (MaxInt64 + 1), sum)
  BY <1>3, SameWords
<1> QED
  BY <1>2, <1>3, <1>4 DEF sum

LEMMA ValueFits == ASSUME SQLTypeOK, NEW k \in Accounts PROVE Value(k) \in Int64
BY Int64Facts DEF SQLTypeOK, Value

(* Nothing was acknowledged since the row got its base.                     *)
LEMMA MadeOfNothing ==
    ASSUME NEW v \in Int64, NEW pairs
    PROVE  MadeOf(v, v, {}, pairs, {}, {})
<1>1. v + Total({}) = v /\ v \in Int
  BY TotalEmpty, Int64Facts DEF Int64
<1> QED
  BY <1>1, SameWords DEF MadeOf

(* More pairs of calls, and more of those at work, change nothing.          *)
LEMMA MadeOfMore ==
    ASSUME NEW v, NEW b, NEW entries, NEW pairs, NEW more, pairs \subseteq more,
           NEW c, NEW d, c \subseteq d, NEW kept, MadeOf(v, b, entries, pairs, c, kept)
    PROVE  MadeOf(v, b, entries, more, d, kept)
BY DEF MadeOf

LEMMA SQLInitInv == SQLInit => SQLInv
<1> SUFFICES ASSUME SQLInit PROVE SQLInv
  OBVIOUS
<1>1. (CHOOSE k \in Accounts : TRUE) \in Accounts
  BY SQLAssumption
<1>2. SQLTypeOK
  BY <1>1, Int64Facts DEF SQLInit, SQLTypeOK
<1>3. \A k \in Accounts : WorkingOn(k) = {}
  BY DEF SQLInit, WorkingOn, Working
<1>4. \A k \in Accounts : Value(k) = base[k] /\ base[k] \in Int64 /\ acked[k] = {}
  BY Int64Facts DEF SQLInit, Value
<1>5. RowMadeOf
  <2> SUFFICES ASSUME NEW k \in Accounts
               PROVE  \E kept : MadeOf(Value(k), base[k], acked[k], beside, {}, kept)
    BY DEF RowMadeOf
  <2>1. MadeOf(base[k], base[k], {}, beside, {}, {})
    BY <1>4, MadeOfNothing
  <2> QED
    BY <1>4, <2>1
<1>6. AckedEnded
  BY <1>4, FS_EmptySet DEF AckedEnded
<1> QED
  BY <1>2, <1>3, <1>5, <1>6 DEF SQLInit, SQLInv, ReadEnough, WorkBeside, ReadMadeOf

(* A step that only ends calls keeps the invariant.                         *)
LEMMA EndedCalls ==
    ASSUME SQLInv, UNCHANGED <<row, kind, key, amount, seen, bookVars>>,
           step' \in [Calls -> {"idle"} \cup Working \cup Answers],
           \A c \in Calls : /\ step'[c] \in Working => step'[c] = step[c]
                            /\ step[c] = "ok" => step'[c] = "ok"
    PROVE  SQLInv'
<1> USE DEF bookVars
<1>1. SQLTypeOK'
  BY DEF SQLInv, SQLTypeOK
<1>2. \A k \in Accounts : WorkingOn(k)' \subseteq WorkingOn(k) /\ Value(k)' = Value(k)
  BY DEF WorkingOn, Value
<1>3. \A c \in Calls : step'[c] = "write" => step[c] = "write" /\ key[c] \in Accounts
  BY DEF Working, SQLInv, SQLTypeOK
<1>5. ReadEnough' /\ WorkBeside'
  BY <1>2, <1>3 DEF SQLInv, ReadEnough, WorkBeside
<1>6. AckedEnded'
  <2>1. \A k \in Accounts : \A e \in acked[k] : e.call \in Calls
    BY DEF SQLInv, SQLTypeOK
  <2> QED
    BY <2>1 DEF SQLInv, AckedEnded
<1>7. ReadMadeOf'
  BY <1>3 DEF SQLInv, ReadMadeOf
<1>8. RowMadeOf'
  BY <1>2 DEF SQLInv, RowMadeOf
<1> QED
  BY <1>1, <1>5, <1>6, <1>7, <1>8 DEF SQLInv

LEMMA CallInv ==
    ASSUME SQLInv, NEW c \in Calls, NEW k \in Accounts, NEW a \in Cents,
           NEW o \in {"add", "deduct"}, Call(c, o, k, a)
    PROVE  SQLInv'
<1>1. /\ step[c] = "idle"
      /\ step' = [step EXCEPT ![c] = "read"]
      /\ kind' = [kind EXCEPT ![c] = o]
      /\ key' = [key EXCEPT ![c] = k]
      /\ amount' = [amount EXCEPT ![c] = a]
      /\ beside' = beside \cup {{c, d} : d \in WorkingOn(k)}
      /\ UNCHANGED <<row, seen, base, acked, crossed>>
  BY DEF Call
<1>2. SQLTypeOK'
  <2>1. beside' \subseteq SUBSET Calls
    BY <1>1 DEF SQLInv, SQLTypeOK, WorkingOn
  <2> QED
    BY <1>1, <2>1 DEF SQLInv, SQLTypeOK, Working
<1>3. \A j \in Accounts : Value(j)' = Value(j)
  BY <1>1 DEF Value
<1>4. ReadEnough'
  BY <1>1 DEF SQLInv, SQLTypeOK, ReadEnough
<1>5. AckedEnded'
  <2>1. \A j \in Accounts : \A e \in acked[j] : e.call \in Calls /\ e.call # c
    BY <1>1 DEF SQLInv, SQLTypeOK, AckedEnded
  <2> QED
    BY <1>1, <2>1 DEF SQLInv, SQLTypeOK, AckedEnded
<1>6. WorkBeside'
  <2> SUFFICES ASSUME NEW j \in Accounts, NEW b \in WorkingOn(j)', NEW d \in WorkingOn(j)', b # d
               PROVE  {b, d} \in beside'
    BY DEF WorkBeside
  <2>1. \A x \in WorkingOn(j)' : x \in WorkingOn(j) \/ (x = c /\ j = k)
    BY <1>1 DEF WorkingOn, SQLInv, SQLTypeOK
  <2>2. CASE b # c /\ d # c
    BY <1>1, <2>1, <2>2 DEF SQLInv, WorkBeside
  <2>3. CASE b = c \/ d = c
    <3>1. \A x \in WorkingOn(j)' : x # c => {c, x} \in beside' /\ {x, c} \in beside'
      <4> SUFFICES ASSUME NEW x \in WorkingOn(j)', x # c
                   PROVE  {c, x} \in beside' /\ {x, c} \in beside'
        OBVIOUS
      <4>1. c \notin WorkingOn(j)
        BY <1>1 DEF WorkingOn, Working
      <4>2. j = k /\ x \in WorkingOn(k)
        BY <2>1, <2>3, <4>1
      <4>3. {c, x} = {x, c}
        OBVIOUS
      <4> QED
        BY <1>1, <4>2, <4>3
    <3> QED
      BY <2>3, <3>1
  <2> QED
    BY <2>2, <2>3
<1>7. ReadMadeOf'
  <2> SUFFICES ASSUME NEW d \in Calls, step'[d] = "write", key'[d] \notin crossed
               PROVE  \E kept : MadeOf(seen[d], base[key'[d]], acked[key'[d]], beside', {d}, kept)
    BY <1>1 DEF ReadMadeOf
  <2>1. step[d] = "write" /\ key'[d] = key[d]
    BY <1>1 DEF SQLInv, SQLTypeOK
  <2>2. PICK kept : MadeOf(seen[d], base[key[d]], acked[key[d]], beside, {d}, kept)
    BY <2>1 DEF SQLInv, ReadMadeOf
  <2>3. MadeOf(seen[d], base[key[d]], acked[key[d]], beside', {d}, kept)
    BY <1>1, <2>2, MadeOfMore
  <2> QED
    BY <2>1, <2>3
<1>8. RowMadeOf'
  <2> SUFFICES ASSUME NEW j \in Accounts \ crossed
               PROVE  \E kept : MadeOf(Value(j)', base[j], acked[j], beside', {}, kept)
    BY <1>1 DEF RowMadeOf
  <2>1. PICK kept : MadeOf(Value(j), base[j], acked[j], beside, {}, kept)
    BY DEF SQLInv, RowMadeOf
  <2>2. MadeOf(Value(j), base[j], acked[j], beside', {}, kept)
    BY <1>1, <2>1, MadeOfMore
  <2> QED
    BY <1>3, <2>2
<1> QED
  BY <1>2, <1>4, <1>5, <1>6, <1>7, <1>8 DEF SQLInv

LEMMA SelectRowInv ==
    ASSUME SQLInv, NEW c \in Calls, SelectRow(c)
    PROVE  SQLInv'
<1> USE DEF bookVars
<1>1. step[c] = "read" /\ UNCHANGED <<row, kind, key, amount, bookVars>>
  BY DEF SelectRow
<1>2. CASE Answer(c, "insufficient") /\ UNCHANGED seen
  <2>1. /\ step' \in [Calls -> {"idle"} \cup Working \cup Answers]
        /\ \A d \in Calls : /\ step'[d] \in Working => step'[d] = step[d]
                            /\ step[d] = "ok" => step'[d] = "ok"
    BY <1>1, <1>2 DEF Answer, SQLInv, SQLTypeOK, Working, Answers
  <2> QED
    BY <1>1, <1>2, <2>1, EndedCalls
<1>3. CASE /\ ~ (kind[c] = "deduct" /\ ~ Sufficient(c))
           /\ Answer(c, "write") /\ seen' = [seen EXCEPT ![c] = Value(key[c])]
  <2>1. step' = [step EXCEPT ![c] = "write"] /\ key[c] \in Accounts
    BY <1>3 DEF Answer, SQLInv, SQLTypeOK
  <2>2. SQLTypeOK'
    BY <1>1, <1>3, <2>1, ValueFits DEF SQLInv, SQLTypeOK, Working
  <2>3. \A k \in Accounts : WorkingOn(k)' = WorkingOn(k) /\ Value(k)' = Value(k)
    BY <1>1, <2>1 DEF WorkingOn, Working, Value, SQLInv, SQLTypeOK
  <2>4. kind[c] = "deduct" => Value(key[c]) >= amount[c]
    BY <1>3 DEF Sufficient, Value
  <2>5. ReadEnough'
    BY <1>1, <1>3, <2>1, <2>4 DEF SQLInv, SQLTypeOK, ReadEnough
  <2>6. WorkBeside'
    BY <1>1, <2>3 DEF SQLInv, WorkBeside
  <2>7. AckedEnded'
    <3>1. \A j \in Accounts : \A e \in acked[j] : e.call \in Calls /\ e.call # c
      BY <1>1 DEF SQLInv, SQLTypeOK, AckedEnded
    <3> QED
      BY <1>1, <2>1, <3>1 DEF SQLInv, SQLTypeOK, AckedEnded
  <2>8. ReadMadeOf'
    <3> SUFFICES ASSUME NEW d \in Calls, step'[d] = "write", key[d] \notin crossed
                 PROVE  \E kept : MadeOf(seen'[d], base[key[d]], acked[key[d]], beside, {d}, kept)
      BY <1>1 DEF ReadMadeOf
    <3>1. CASE d = c
      <4>1. PICK kept : MadeOf(Value(key[c]), base[key[c]], acked[key[c]], beside, {}, kept)
        BY <2>1, <3>1 DEF SQLInv, RowMadeOf
      <4>2. MadeOf(Value(key[c]), base[key[c]], acked[key[c]], beside, {c}, kept)
        BY <4>1, MadeOfMore
      <4>3. seen'[c] = Value(key[c])
        BY <1>3 DEF SQLInv, SQLTypeOK
      <4> QED
        BY <3>1, <4>2, <4>3
    <3>2. CASE d # c
      <4>1. step[d] = "write" /\ seen'[d] = seen[d]
        BY <1>3, <2>1, <3>2 DEF SQLInv, SQLTypeOK
      <4> QED
        BY <4>1 DEF SQLInv, ReadMadeOf
    <3> QED
      BY <3>1, <3>2
  <2>9. RowMadeOf'
    BY <1>1, <2>3 DEF SQLInv, RowMadeOf
  <2> QED
    BY <2>2, <2>5, <2>6, <2>7, <2>8, <2>9 DEF SQLInv
<1> QED
  BY <1>2, <1>3 DEF SelectRow

LEMMA WriteRowInv ==
    ASSUME SQLInv, NEW c \in Calls, WriteRow(c)
    PROVE  SQLInv'
<1> DEFINE k == key[c]
           new == Entry(c)
<1>1. /\ step[c] = "write" /\ step' = [step EXCEPT ![c] = "ok"]
      /\ row' = [row EXCEPT ![k] = Written(c)]
      /\ acked' = [acked EXCEPT ![k] = @ \cup {new}]
      /\ UNCHANGED <<kind, key, amount, seen, base, beside, crossed>>
  BY DEF WriteRow, Answer
<1>2. k \in Accounts /\ seen[c] \in Int64 /\ base[k] \in Int64
  BY DEF SQLInv, SQLTypeOK
<1>3. Written(c) \in Int64 /\ Written(c) # NoRow
  BY <1>1, WrittenFits, SQLAssumption
<1>4. /\ new.call = c /\ new \in [call : Calls, cents : Int]
      /\ SameWord(Written(c), seen[c] + new.cents)
  BY WrittenWord DEF SQLInv
<1> HIDE DEF new
<1>5. SQLTypeOK'
  <2>1. acked' \in [Accounts -> SUBSET [call : Calls, cents : Int]]
    BY <1>1, <1>2, <1>4 DEF SQLInv, SQLTypeOK
  <2>2. row' \in [Accounts -> Int64 \cup {NoRow}]
    BY <1>1, <1>2, <1>3 DEF SQLInv, SQLTypeOK
  <2> QED
    BY <1>1, <2>1, <2>2 DEF SQLInv, SQLTypeOK, Answers
<1>6. \A j \in Accounts :
         /\ j = k => Value(j)' = Written(c) /\ acked'[j] = acked[j] \cup {new}
         /\ j # k => Value(j)' = Value(j) /\ acked'[j] = acked[j]
  BY <1>1, <1>2, <1>3 DEF Value, SQLInv, SQLTypeOK
<1>7. \A j \in Accounts : WorkingOn(j)' = WorkingOn(j) \ {c}
  BY <1>1 DEF WorkingOn, Working, SQLInv, SQLTypeOK
<1>8. ReadEnough' /\ WorkBeside'
  BY <1>1, <1>7 DEF SQLInv, SQLTypeOK, ReadEnough, WorkBeside
<1>9. AckedEnded'
  <2> SUFFICES ASSUME NEW j \in Accounts
               PROVE  IsFiniteSet(acked'[j]) /\ \A e \in acked'[j] : step'[e.call] = "ok"
    BY DEF AckedEnded
  <2>1. IsFiniteSet(acked[j])
    BY DEF SQLInv, AckedEnded
  <2>2. IsFiniteSet(acked'[j])
    BY <1>6, <2>1, FS_AddElement
  <2>3. \A e \in acked[j] \cup {new} : e.call \in Calls /\ (step[e.call] = "ok" \/ e.call = c)
    BY <1>4 DEF SQLInv, SQLTypeOK, AckedEnded
  <2>4. acked'[j] \subseteq acked[j] \cup {new}
    BY <1>6
  <2> QED
    BY <1>1, <2>2, <2>3, <2>4 DEF SQLInv, SQLTypeOK
<1>10. ReadMadeOf'
  <2> SUFFICES ASSUME NEW d \in Calls, step'[d] = "write", key[d] \notin crossed
               PROVE  \E kept : MadeOf(seen[d], base[key[d]], acked'[key[d]], beside, {d}, kept)
    BY <1>1 DEF ReadMadeOf
  <2>1. d # c /\ step[d] = "write" /\ key[d] \in Accounts
    BY <1>1 DEF SQLInv, SQLTypeOK
  <2>2. PICK kept : MadeOf(seen[d], base[key[d]], acked[key[d]], beside, {d}, kept)
    BY <2>1 DEF SQLInv, ReadMadeOf
  <2>3. CASE key[d] = k
    <3>1. c \in WorkingOn(k) /\ d \in WorkingOn(k)
      BY <1>1, <2>1, <2>3 DEF WorkingOn, Working
    <3>2. {new.call, d} \in beside
      BY <1>2, <1>4, <2>1, <3>1 DEF SQLInv, WorkBeside
    <3>3. acked'[k] = acked[k] \cup {new}
      BY <1>2, <1>6
    <3>4. MadeOf(seen[d], base[k], acked[k] \cup {new}, beside, {d}, kept)
      BY <2>2, <2>3, <3>2 DEF MadeOf
    <3> QED
      BY <2>3, <3>3, <3>4
  <2>4. CASE key[d] # k
    BY <1>6, <2>1, <2>2, <2>4
  <2> QED
    BY <2>3, <2>4
<1>11. RowMadeOf'
  <2> SUFFICES ASSUME NEW j \in Accounts, j \notin crossed
               PROVE  \E kept : MadeOf(Value(j)', base[j], acked'[j], beside, {}, kept)
    BY <1>1 DEF RowMadeOf
  <2>1. CASE j = k
    <3>1. PICK kept : MadeOf(seen[c], base[k], acked[k], beside, {c}, kept)
      BY <1>1, <2>1 DEF SQLInv, ReadMadeOf
    <3> DEFINE all == kept \cup {new}
    <3>2. kept \subseteq acked[k] /\ IsFiniteSet(kept)
      BY <1>2, <3>1, FS_Subset DEF MadeOf, SQLInv, AckedEnded
    <3>3. new \notin kept
      BY <1>1, <1>2, <1>4, <3>2 DEF SQLInv, AckedEnded
    <3>4. all \ {new} = kept /\ IsFiniteSet(all)
      BY <3>2, <3>3, FS_AddElement
    <3>5. \A e \in all : e.cents \in Int
      BY <1>2, <1>4, <3>2 DEF SQLInv, SQLTypeOK
    <3>6. Total(all) = new.cents + Total(kept) /\ Total(kept) \in Int
      BY <3>2, <3>4, <3>5, TotalWithout, TotalType
    <3>7. SameWord(Written(c), base[k] + Total(all))
      <4> DEFINE t == Total(kept)
                 x == new.cents
      <4>1. /\ t \in Int /\ x \in Int /\ seen[c] \in Int /\ base[k] \in Int /\ Written(c) \in Int
        BY <1>2, <1>3, <1>4, <3>6, Int64Facts DEF Int64
      <4>2. SameWord(seen[c], base[k] + t)
        BY <3>1 DEF MadeOf
      <4> HIDE DEF t, x
      <4> DEFINE s == seen[c]
                 v == base[k] + t
      <4>3. SameWord(seen[c] + x, (base[k] + t) + x)
        <5>1. s \in Int /\ v \in Int /\ x \in Int /\ SameWord(s, v)
          BY <4>1, <4>2
        <5> HIDE DEF s, v
        <5>2. SameWord(s + x, v + x)
          BY <5>1, SameWordSum
        <5> QED
          BY <5>2 DEF s, v
      <4>4. SameWord(Written(c), seen[c] + x)
        BY <1>4 DEF x
      <4>5. (base[k] + t) + x = base[k] + Total(all)
        BY <3>6, <4>1 DEF t, x
      <4>6. SameWord(Written(c), (base[k] + t) + x)
        BY <4>1, <4>3, <4>4, SameWordChain
      <4> QED
        BY <4>5, <4>6
    <3>8. \A e \in acked'[k] \ all : \E f \in all : {e.call, f.call} \in beside
      <4> SUFFICES ASSUME NEW e \in acked'[k] \ all
                   PROVE  \E f \in all : {e.call, f.call} \in beside
        OBVIOUS
      <4>1. e \in acked[k] \ kept
        BY <1>2, <1>6
      <4>2. (\E f \in kept : {e.call, f.call} \in beside) \/ {e.call, c} \in beside
        BY <3>1, <4>1 DEF MadeOf
      <4> QED
        BY <1>4, <4>2
    <3>9. all \subseteq acked'[k]
      BY <1>2, <1>6, <3>2
    <3> HIDE DEF all
    <3>10. MadeOf(Written(c), base[k], acked'[k], beside, {}, all)
      BY <3>7, <3>8, <3>9 DEF MadeOf
    <3> QED
      BY <1>6, <2>1, <3>10
  <2>2. CASE j # k
    <3>1. PICK kept : MadeOf(Value(j), base[j], acked[j], beside, {}, kept)
      BY DEF SQLInv, RowMadeOf
    <3> QED
      BY <1>6, <2>2, <3>1
  <2> QED
    BY <2>1, <2>2
<1> QED
  BY <1>5, <1>8, <1>9, <1>10, <1>11 DEF SQLInv

LEMMA SetInv ==
    ASSUME SQLInv, NEW k \in Accounts, NEW v \in SetValues, Set(k, v)
    PROVE  SQLInv'
<1>1. /\ row' = [row EXCEPT ![k] = v] /\ base' = [base EXCEPT ![k] = v]
      /\ acked' = [acked EXCEPT ![k] = {}]
      /\ crossed' = IF WorkingOn(k) = {} THEN crossed \ {k} ELSE crossed \cup {k}
      /\ UNCHANGED <<step, kind, key, amount, seen, beside>>
  BY DEF Set, callVars
<1>2. v \in Int64 /\ v # NoRow
  BY SQLAssumption
<1>3. SQLTypeOK'
  BY <1>1, <1>2 DEF SQLInv, SQLTypeOK
<1>4. \A j \in Accounts :
         /\ j = k => Value(j)' = v /\ base'[j] = v /\ acked'[j] = {}
         /\ j # k => /\ Value(j)' = Value(j) /\ base'[j] = base[j] /\ acked'[j] = acked[j]
                     /\ (j \in crossed' <=> j \in crossed)
  BY <1>1, <1>2 DEF Value, SQLInv, SQLTypeOK
<1>5. \A j \in Accounts : WorkingOn(j)' = WorkingOn(j)
  BY <1>1 DEF WorkingOn
<1>6. ReadEnough' /\ WorkBeside'
  BY <1>1, <1>5 DEF SQLInv, ReadEnough, WorkBeside
<1>7. AckedEnded'
  <2>1. \A j \in Accounts : acked'[j] \in {{}, acked[j]}
    BY <1>4
  <2> QED
    BY <1>1, <2>1, FS_EmptySet DEF SQLInv, AckedEnded
<1>8. ReadMadeOf'
  <2> SUFFICES ASSUME NEW c \in Calls, step[c] = "write", key[c] \notin crossed'
               PROVE  \E kept : MadeOf(seen[c], base'[key[c]], acked'[key[c]], beside, {c}, kept)
    BY <1>1 DEF ReadMadeOf
  <2>1. key[c] \in Accounts /\ c \in WorkingOn(key[c])
    BY DEF WorkingOn, Working, SQLInv, SQLTypeOK
  <2>2. key[c] # k
    BY <1>1, <2>1
  <2>3. PICK kept : MadeOf(seen[c], base[key[c]], acked[key[c]], beside, {c}, kept)
    BY <1>4, <2>1, <2>2 DEF SQLInv, ReadMadeOf
  <2> QED
    BY <1>4, <2>1, <2>2, <2>3
<1>9. RowMadeOf'
  <2> SUFFICES ASSUME NEW j \in Accounts, j \notin crossed'
               PROVE  \E kept : MadeOf(Value(j)', base'[j], acked'[j], beside, {}, kept)
    BY <1>1 DEF RowMadeOf
  <2>1. CASE j = k
    <3>1. MadeOf(v, v, {}, beside, {}, {})
      BY <1>2, MadeOfNothing
    <3> QED
      BY <1>4, <2>1, <3>1
  <2>2. CASE j # k
    <3>1. PICK kept : MadeOf(Value(j), base[j], acked[j], beside, {}, kept)
      BY <1>4, <2>2 DEF SQLInv, RowMadeOf
    <3> QED
      BY <1>4, <2>2, <3>1
  <2> QED
    BY <2>1, <2>2
<1> QED
  BY <1>3, <1>6, <1>7, <1>8, <1>9 DEF SQLInv

LEMMA SQLStep == SQLInv /\ [SQLNext]_sqlVars => SQLInv'
<1> SUFFICES ASSUME SQLInv, [SQLNext]_sqlVars PROVE SQLInv'
  OBVIOUS
<1>1. ASSUME NEW c \in Calls, StatementFails(c) PROVE SQLInv'
  <2>1. /\ step' \in [Calls -> {"idle"} \cup Working \cup Answers]
        /\ \A d \in Calls : /\ step'[d] \in Working => step'[d] = step[d]
                            /\ step[d] = "ok" => step'[d] = "ok"
    BY <1>1 DEF StatementFails, Answer, SQLInv, SQLTypeOK, Working, Answers
  <2> QED
    BY <1>1, <2>1, EndedCalls DEF StatementFails
<1>2. CASE Restart
  <2>1. /\ step' \in [Calls -> {"idle"} \cup Working \cup Answers]
        /\ \A d \in Calls : /\ step'[d] \in Working => step'[d] = step[d]
                            /\ step[d] = "ok" => step'[d] = "ok"
    BY <1>2 DEF Restart, SQLInv, SQLTypeOK, Working, Answers
  <2> QED
    BY <1>2, <2>1, EndedCalls DEF Restart
<1>3. CASE UNCHANGED sqlVars
  <2>1. step' \in [Calls -> {"idle"} \cup Working \cup Answers]
    BY <1>3 DEF sqlVars, callVars, SQLInv, SQLTypeOK
  <2> QED
    BY <1>3, <2>1, EndedCalls DEF sqlVars, callVars
<1> QED
  BY <1>1, <1>2, <1>3, CallInv, SelectRowInv, WriteRowInv, SetInv DEF SQLNext

(* Every variable keeps its type: also the sums that wrap and the           *)
(* differences that a stale read leads to stay an int64 (Deduct,            *)
(* AddCredits).                                                             *)
THEOREM SQLTypes == SQLSpec => []SQLTypeOK
<1>1. SQLInv => SQLTypeOK
  BY DEF SQLInv
<1> QED
  BY <1>1, SQLInitInv, SQLStep, PTL DEF SQLSpec

(* The row is the value last set and acknowledged credits and charges, each *)
(* once, through failing statements and restarts; an acknowledged one that  *)
(* is missing overlapped one that is there (Deduct, AddCredits, Set).       *)
THEOREM LostUpdates == SQLSpec => []LostOnlyToOverlap
<1>1. SQLInv => LostOnlyToOverlap
  BY DEF SQLInv, RowMadeOf, MadeOf, LostOnlyToOverlap, Overlapped
<1> QED
  BY <1>1, SQLInitInv, SQLStep, PTL DEF SQLSpec

-----------------------------------------------------------------------------
(* Disputes.                                                                *)

(* A request that has found its dispute holds on to one that exists, a      *)
(* closed dispute is stamped, and a decided request has the dispute.        *)
Found ==
    \A c \in Requests :
        /\ stage[c] # "idle" => target[c] \in Ids
        /\ stage[c] \in {"decide", "showState", "showAt", "200"} =>
              state[target[c]] \in States
        /\ stage[c] = "decide" => decision[c] # None

Stamped == \A d \in Ids : state[d] \in Terminal => resolvedAt[d]

Shown ==
    \A c \in Requests :
        /\ decision[c] # None /\ stage[c] \in {"showAt", "200"} => shownState[c] = decision[c]
        /\ decision[c] # None /\ stage[c] = "200" => shownAt[c]

DisputesInv == DisputesTypeOK /\ Found /\ Stamped /\ DecidedOnce /\ Shown

LEMMA DisputesInitInv == DisputesInit => DisputesInv
BY DisputesAssumption
   DEF DisputesInit, DisputesInv, DisputesTypeOK, Found, Stamped, DecidedOnce, Decided, Shown,
       Statuses, States

(* What every change of a dispute keeps: a dispute that exists keeps        *)
(* existing, and a closed one is changed no more.                           *)
DisputesOnward ==
    \A d \in Ids :
        /\ state[d] \in States => state'[d] \in States
        /\ state[d] \in Terminal => state'[d] = state[d] /\ note'[d] = note[d]

(* A step that leaves the requests alone keeps the invariant if it keeps    *)
(* the types, the stamps and the closed disputes.                           *)
LEMMA DisputeStep ==
    ASSUME DisputesInv, UNCHANGED requestVars, DisputesOnward, Stamped',
           state' \in [Ids -> States \cup {None}], note' = note,
           resolvedAt' \in [Ids -> BOOLEAN], old' \subseteq Ids
    PROVE  DisputesInv'
<1>1. UNCHANGED <<stage, target, decision, shownState, shownAt>>
  BY DEF requestVars
<1>2. DisputesTypeOK'
  BY <1>1 DEF DisputesInv, DisputesTypeOK
<1>3. Found'
  BY <1>1 DEF DisputesInv, Found, DisputesOnward
<1>4. DecidedOnce'
  <2> SUFFICES ASSUME NEW c \in Requests, Decided(c)'
               PROVE  note'[target[c]] = c /\ state'[target[c]] = decision[c]
    BY <1>1 DEF DecidedOnce
  <2>1. Decided(c)
    BY <1>1 DEF Decided
  <2>2. note[target[c]] = c /\ state[target[c]] = decision[c] /\ target[c] \in Ids
    BY <2>1 DEF DisputesInv, DecidedOnce, Decided, Found
  <2>3. decision[c] \in Terminal
    BY <2>1 DEF DisputesInv, DisputesTypeOK, Decided, Terminal
  <2> QED
    BY <2>2, <2>3 DEF DisputesOnward
<1>5. Shown'
  BY <1>1 DEF DisputesInv, Shown
<1> QED
  BY <1>2, <1>3, <1>4, <1>5 DEF DisputesInv

LEMMA AllowedIsOpen ==
    ASSUME NEW from, NEW to, Allowed(from, to)
    PROVE  from \in States /\ from \notin Terminal /\ to \in States
BY DEF Allowed, States, Terminal

LEMMA OpenDisputeInv ==
    ASSUME DisputesInv, NEW d \in Ids, OpenDispute(d)
    PROVE  DisputesInv'
<1>1. state' = [state EXCEPT ![d] = "open"] /\ state[d] = None
  BY DEF OpenDispute
<1>2. UNCHANGED <<note, resolvedAt, old>> /\ UNCHANGED requestVars
  BY DEF OpenDispute
<1>3. None \notin States /\ "open" \in States /\ "open" \notin Terminal /\ Terminal \subseteq States
  BY DisputesAssumption DEF States, Terminal
<1>4. DisputesOnward
  BY <1>1, <1>2, <1>3 DEF DisputesInv, DisputesTypeOK, DisputesOnward
<1>5. Stamped'
  BY <1>1, <1>2, <1>3 DEF DisputesInv, DisputesTypeOK, Stamped
<1>6. state' \in [Ids -> States \cup {None}]
  BY <1>1, <1>3 DEF DisputesInv, DisputesTypeOK
<1>7. resolvedAt' \in [Ids -> BOOLEAN] /\ old' \subseteq Ids
  BY <1>2 DEF DisputesInv, DisputesTypeOK
<1> QED
  BY <1>2, <1>4, <1>5, <1>6, <1>7, DisputeStep

(* TransitionTo closes a dispute for good, and stamps it.                   *)
LEMMA TransitionKeeps ==
    ASSUME DisputesInv, NEW d \in Ids, NEW to, TransitionTo(d, to)
    PROVE  /\ state' \in [Ids -> States \cup {None}]
           /\ resolvedAt' \in [Ids -> BOOLEAN]
           /\ Stamped'
           /\ state[d] \notin Terminal
           /\ \A e \in Ids : /\ state[e] \in States => state'[e] \in States
                             /\ state[e] \in Terminal => e # d /\ state'[e] = state[e]
<1>1. /\ state' = [state EXCEPT ![d] = to]
      /\ resolvedAt' = [resolvedAt EXCEPT ![d] = Stamp(d, to)]
      /\ Allowed(state[d], to)
  BY DEF TransitionTo
<1>2. state[d] \in States /\ state[d] \notin Terminal /\ to \in States
  BY <1>1, AllowedIsOpen
<1>3. Stamp(d, to) \in BOOLEAN /\ (to \in Terminal => Stamp(d, to))
  BY DEF Stamp, DisputesInv, DisputesTypeOK
<1>4. state \in [Ids -> States \cup {None}] /\ resolvedAt \in [Ids -> BOOLEAN]
  BY DEF DisputesInv, DisputesTypeOK
<1>5. state' \in [Ids -> States \cup {None}] /\ resolvedAt' \in [Ids -> BOOLEAN]
  BY <1>1, <1>2, <1>3, <1>4
<1>6. Stamped'
  BY <1>1, <1>3, <1>4 DEF DisputesInv, Stamped
<1> QED
  BY <1>1, <1>2, <1>4, <1>5, <1>6

LEMMA UpdateStateInv ==
    ASSUME DisputesInv, NEW d \in Ids, NEW to \in States, UpdateState(d, to)
    PROVE  DisputesInv'
<1>1. TransitionTo(d, to) /\ UNCHANGED <<note, old>> /\ UNCHANGED requestVars
  BY DEF UpdateState
<1>2. DisputesOnward
  BY <1>1, TransitionKeeps DEF DisputesOnward
<1>3. old' \subseteq Ids
  BY <1>1 DEF DisputesInv, DisputesTypeOK
<1> QED
  BY <1>1, <1>2, <1>3, TransitionKeeps, DisputeStep

LEMMA ExpireOldInv ==
    ASSUME DisputesInv, ExpireOld
    PROVE  DisputesInv'
<1>1. /\ state' = [d \in Ids |-> IF d \in Stale THEN "expired" ELSE state[d]]
      /\ resolvedAt' = [d \in Ids |-> d \in Stale \/ resolvedAt[d]]
      /\ UNCHANGED <<note, old>> /\ UNCHANGED requestVars
  BY DEF ExpireOld
<1>2. \A d \in Stale : state[d] = "open"
  BY DEF Stale
<1>3. "open" \notin Terminal /\ "expired" \in States /\ "expired" \in Terminal
  BY DEF States, Terminal
<1>4. DisputesOnward
  BY <1>1, <1>2, <1>3 DEF DisputesInv, DisputesTypeOK, DisputesOnward
<1>5. Stamped'
  BY <1>1 DEF DisputesInv, Stamped
<1>6. state' \in [Ids -> States \cup {None}]
  BY <1>1, <1>3 DEF DisputesInv, DisputesTypeOK
<1>7. resolvedAt' \in [Ids -> BOOLEAN]
  BY <1>1 DEF DisputesInv, DisputesTypeOK
<1>8. old' \subseteq Ids
  BY <1>1 DEF DisputesInv, DisputesTypeOK
<1> QED
  BY <1>1, <1>4, <1>5, <1>6, <1>7, <1>8, DisputeStep

(* A step of one request that leaves the disputes alone.                    *)
LEMMA RequestInv ==
    ASSUME DisputesInv, NEW c \in Requests, NEW d \in Ids,
           NEW to \in {None, "resolved", "rejected"}, Request(c, d, to)
    PROVE  DisputesInv'
<1>1. /\ stage[c] = "idle"
      /\ target' = [target EXCEPT ![c] = d]
      /\ decision' = [decision EXCEPT ![c] = to]
      /\ UNCHANGED <<state, note, resolvedAt, old, shownState, shownAt>>
  BY DEF Request, storedVars
<1>2. PICK s \in {"404", "showState", "decide"} :
         /\ stage' = [stage EXCEPT ![c] = s]
         /\ s # "404" => state[d] # None
         /\ s = "decide" => to # None
         /\ s = "showState" => to = None
  BY DEF Request, Goto, Missing
<1>3. DisputesTypeOK'
  BY <1>1, <1>2 DEF DisputesInv, DisputesTypeOK, Statuses
<1>4. Found'
  BY <1>1, <1>2 DEF DisputesInv, DisputesTypeOK, Found
<1>5. Stamped'
  BY <1>1 DEF DisputesInv, Stamped
<1>6. DecidedOnce'
  BY <1>1, <1>2 DEF DisputesInv, DisputesTypeOK, DecidedOnce, Decided
<1>7. Shown'
  BY <1>1, <1>2 DEF DisputesInv, DisputesTypeOK, Shown
<1> QED
  BY <1>3, <1>4, <1>5, <1>6, <1>7 DEF DisputesInv

LEMMA SetResolutionInv ==
    ASSUME DisputesInv, NEW c \in Requests, SetResolution(c)
    PROVE  DisputesInv'
<1> DEFINE d == target[c]
<1>1. /\ stage[c] = "decide"
      /\ UNCHANGED <<old, target, decision, shownState, shownAt>>
      /\ d \in Ids /\ decision[c] # None
      /\ state[d] \in States
  BY DEF SetResolution, DisputesInv, Found
<1>2. CASE ~ Allowed(state[d], decision[c]) /\ Goto(c, "409") /\ UNCHANGED storedVars
  <2>1. stage' = [stage EXCEPT ![c] = "409"] /\ UNCHANGED <<state, note, resolvedAt>>
    BY <1>2 DEF Goto, storedVars
  <2>2. DisputesTypeOK'
    BY <1>1, <2>1 DEF DisputesInv, DisputesTypeOK, Statuses
  <2> QED
    BY <1>1, <2>1, <2>2
    DEF DisputesInv, DisputesTypeOK, Found, Stamped, DecidedOnce, Decided, Shown
<1>3. CASE /\ TransitionTo(d, decision[c])
           /\ note' = [note EXCEPT ![d] = c]
           /\ Goto(c, "showState")
  <2>1. stage' = [stage EXCEPT ![c] = "showState"]
    BY <1>3 DEF Goto
  <2>2. /\ state' \in [Ids -> States \cup {None}]
        /\ resolvedAt' \in [Ids -> BOOLEAN]
        /\ Stamped'
        /\ state[d] \notin Terminal
        /\ \A e \in Ids : /\ state[e] \in States => state'[e] \in States
                          /\ state[e] \in Terminal => e # d /\ state'[e] = state[e]
    BY <1>1, <1>3, TransitionKeeps
  <2>3. state'[d] = decision[c]
    BY <1>1, <1>3 DEF TransitionTo, DisputesInv, DisputesTypeOK
  <2>4. note' \in [Ids -> Requests \cup {None}]
    BY <1>1, <1>3 DEF DisputesInv, DisputesTypeOK
  <2>5. DisputesTypeOK'
    BY <1>1, <2>1, <2>2, <2>4 DEF DisputesInv, DisputesTypeOK
  <2>6. Found'
    BY <1>1, <2>1, <2>2 DEF DisputesInv, DisputesTypeOK, Found
  <2>7. DecidedOnce'
    <3> SUFFICES ASSUME NEW b \in Requests, Decided(b)'
                 PROVE  note'[target[b]] = b /\ state'[target[b]] = decision[b]
      BY <1>1 DEF DecidedOnce
    <3>1. CASE b = c
      BY <1>1, <1>3, <2>3, <3>1 DEF DisputesInv, DisputesTypeOK
    <3>2. CASE b # c
      <4>1. Decided(b) /\ target[b] \in Ids
        BY <1>1, <2>1, <3>2 DEF Decided, DisputesInv, DisputesTypeOK, Found
      <4>2. note[target[b]] = b /\ state[target[b]] = decision[b] /\ decision[b] \in Terminal
        BY <4>1 DEF DisputesInv, DisputesTypeOK, DecidedOnce, Decided, Terminal
      <4> QED
        BY <1>3, <2>2, <4>1, <4>2 DEF DisputesInv, DisputesTypeOK
    <3> QED
      BY <3>1, <3>2
  <2>8. Shown'
    BY <1>1, <2>1 DEF DisputesInv, DisputesTypeOK, Shown
  <2> QED
    BY <2>2, <2>5, <2>6, <2>7, <2>8 DEF DisputesInv
<1> QED
  BY <1>2, <1>3 DEF SetResolution

(* The two reads of an answer: the dispute of a decided request is closed,  *)
(* so both find what its own decision left.                                 *)
LEMMA ShowStateInv ==
    ASSUME DisputesInv, NEW c \in Requests, ShowState(c)
    PROVE  DisputesInv'
<1>1. /\ stage[c] = "showState"
      /\ stage' = [stage EXCEPT ![c] = "showAt"]
      /\ shownState' = [shownState EXCEPT ![c] = state[target[c]]]
      /\ UNCHANGED <<state, note, resolvedAt, old, target, decision, shownAt>>
  BY DEF ShowState, Goto, storedVars
<1>2. state[target[c]] \in States /\ target[c] \in Ids
  BY <1>1 DEF DisputesInv, Found
<1>3. decision[c] # None => state[target[c]] = decision[c]
  BY <1>1 DEF DisputesInv, DecidedOnce, Decided
<1>4. DisputesTypeOK'
  BY <1>1, <1>2 DEF DisputesInv, DisputesTypeOK
<1>5. Found' /\ Stamped' /\ DecidedOnce'
  BY <1>1 DEF DisputesInv, DisputesTypeOK, Found, Stamped, DecidedOnce, Decided
<1>6. Shown'
  BY <1>1, <1>3 DEF DisputesInv, DisputesTypeOK, Shown
<1> QED
  BY <1>4, <1>5, <1>6 DEF DisputesInv

LEMMA ShowResolvedAtInv ==
    ASSUME DisputesInv, NEW c \in Requests, ShowResolvedAt(c)
    PROVE  DisputesInv'
<1>1. /\ stage[c] = "showAt"
      /\ stage' = [stage EXCEPT ![c] = "200"]
      /\ shownAt' = [shownAt EXCEPT ![c] = resolvedAt[target[c]]]
      /\ UNCHANGED <<state, note, resolvedAt, old, target, decision, shownState>>
  BY DEF ShowResolvedAt, Goto, storedVars
<1>2. target[c] \in Ids
  BY <1>1 DEF DisputesInv, Found
<1>3. decision[c] # None => resolvedAt[target[c]]
  <2> SUFFICES ASSUME decision[c] # None PROVE resolvedAt[target[c]]
    OBVIOUS
  <2>1. state[target[c]] = decision[c]
    BY <1>1 DEF DisputesInv, DecidedOnce, Decided
  <2>2. decision[c] \in Terminal
    BY DEF DisputesInv, DisputesTypeOK, Terminal
  <2> QED
    BY <1>2, <2>1, <2>2 DEF DisputesInv, Stamped
<1>4. DisputesTypeOK'
  BY <1>1, <1>2 DEF DisputesInv, DisputesTypeOK, Statuses
<1>5. Found' /\ Stamped' /\ DecidedOnce'
  BY <1>1 DEF DisputesInv, DisputesTypeOK, Found, Stamped, DecidedOnce, Decided
<1>6. Shown'
  BY <1>1, <1>3 DEF DisputesInv, DisputesTypeOK, Shown
<1> QED
  BY <1>4, <1>5, <1>6 DEF DisputesInv

LEMMA DisputesStep == DisputesInv /\ [DisputesNext]_disputesVars => DisputesInv'
<1> SUFFICES ASSUME DisputesInv, [DisputesNext]_disputesVars PROVE DisputesInv'
  OBVIOUS
<1>1. ASSUME NEW d \in Ids, Age(d) PROVE DisputesInv'
  <2>1. old' \subseteq Ids /\ UNCHANGED <<state, note, resolvedAt>> /\ UNCHANGED requestVars
    BY <1>1 DEF Age, storedVars, DisputesInv, DisputesTypeOK
  <2>2. state' \in [Ids -> States \cup {None}] /\ resolvedAt' \in [Ids -> BOOLEAN]
    BY <2>1 DEF DisputesInv, DisputesTypeOK
  <2>3. DisputesOnward /\ Stamped'
    BY <2>1 DEF DisputesInv, DisputesOnward, Stamped
  <2> QED
    BY <2>1, <2>2, <2>3, DisputeStep
<1>2. CASE UNCHANGED disputesVars
  BY <1>2
  DEF disputesVars, storedVars, requestVars, DisputesInv, DisputesTypeOK, Found, Stamped,
      DecidedOnce, Decided, Shown
<1> QED
  BY <1>1, <1>2, OpenDisputeInv, UpdateStateInv, ExpireOldInv, RequestInv, SetResolutionInv,
     ShowStateInv, ShowResolvedAtInv
  DEF DisputesNext

(* Every variable keeps its type (TransitionTo, SetResolution, toResponse). *)
THEOREM DisputesTypes == DisputesSpec => []DisputesTypeOK
<1>1. DisputesInv => DisputesTypeOK
  BY DEF DisputesInv
<1> QED
  BY <1>1, DisputesInitInv, DisputesStep, PTL DEF DisputesSpec

(* One request at most decides a dispute, and its note and decision stay,   *)
(* whatever reviews, expiries and other requests come after it              *)
(* (SetResolution, TransitionTo).                                           *)
THEOREM OneDecision == DisputesSpec => []DecidedOnce
<1>1. DisputesInv => DecidedOnce
  BY DEF DisputesInv
<1> QED
  BY <1>1, DisputesInitInv, DisputesStep, PTL DEF DisputesSpec

(* An accepted request is answered with its own decision and the time of    *)
(* it, although the answer is read after the mutex was given back           *)
(* (ResolveDispute, toResponse).                                            *)
THEOREM OwnAnswer == DisputesSpec => []AnswerIsOwnDecision
<1>1. DisputesInv => AnswerIsOwnDecision
  BY DEF DisputesInv, Shown, AnswerIsOwnDecision
<1> QED
  BY <1>1, DisputesInitInv, DisputesStep, PTL DEF DisputesSpec
=============================================================================
