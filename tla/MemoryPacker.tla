----------------------------- MODULE MemoryPacker -----------------------------
(***************************************************************************)
(* Packer of pkg/gateway/provider/packer: the models placed in the memory   *)
(* of one provider.  Every operation holds the packer's mutex from its      *)
(* first read to its last write.                                            *)
(*                                                                          *)
(* The slice of placements is a set: Place and Optimize sort it by address  *)
(* before they look at it, and where two placements are of one model Remove *)
(* may take either.  Priority is the footprint of the placement.            *)
(*                                                                          *)
(* Sizes are footprints in megabytes, which are positive; Budgets are the   *)
(* budgets a caller may install, whatever use they claim.                   *)
(***************************************************************************)
EXTENDS Integers, FiniteSets, FiniteSetsExt

CONSTANTS Models, Sizes,
          NewBudget, Budgets,
          MaxPlaced, MaxAddress,    \* bounds: placements at once, end of the last one,
          MaxBelow                  \* and how far below zero the use may fall

BudgetType == [total : Nat, used : Nat, reserve : Nat]

ASSUME PackerAssumption ==
    /\ MaxBelow \in Nat
    /\ Sizes \subseteq Nat \ {0}
    /\ NewBudget \in BudgetType
    /\ Budgets \subseteq BudgetType

VARIABLES
    budget, placements,
    stretched,      \* history: Optimize has moved an edge
    fair            \* history: the budget was installed with the use and the room there was

packerVars == <<budget, placements, stretched, fair>>

(* The memory of the placed models, by their footprints. *)
Footprints(set) == MapThenSumSet(LAMBDA p : p.size, set)

Fair(b, set) == b.used = Footprints(set) /\ b.used + b.reserve <= b.total

PackerInit ==
    /\ budget = NewBudget
    /\ placements = {}
    /\ stretched = FALSE
    /\ fair = Fair(NewBudget, {})

Available(b) == b.total - b.used - b.reserve

(* Mutant: the reserve is not kept free. *)
CanFitReserve(size) == budget.total - budget.used >= size

CanFit(size) == Available(budget) >= size

(* Mutant: the gap is compared with one megabyte less. *)
ClearOffByOne(c, size) == \A q \in placements : q.end <= c \/ c + size <= q.start + 1

(* No placement is in the way of a model at address c. *)
Clear(c, size) == \A q \in placements : q.end <= c \/ c + size <= q.start

(* The walk over the sorted slice: the first gap that is large enough, or   *)
(* the end of the last placement.                                           *)
Candidates(size) == {c \in {0} \cup {q.end : q \in placements} : Clear(c, size)}

FirstFit(size) == {c \in Candidates(size) : \A d \in Candidates(size) : c <= d}

Placed(m, c, size) == [model |-> m, start |-> c, end |-> c + size, size |-> size]

(* A second look at the available memory, before the place at the end, is   *)
(* made under the same mutex and cannot fail.                               *)
Place(m, size) ==
    /\ Cardinality(placements) < MaxPlaced
    /\ CanFit(size)
    /\ \E c \in FirstFit(size) :
          /\ c + size <= MaxAddress
          /\ placements' = placements \cup {Placed(m, c, size)}
    /\ budget' = [budget EXCEPT !.used = @ + size]
    /\ UNCHANGED <<stretched, fair>>

(* The use goes down by the extent of the placement. *)
Remove(m) ==
    /\ \E p \in placements :
          /\ p.model = m
          /\ budget.used - (p.end - p.start) >= - MaxBelow
          /\ placements' = placements \ {p}
          /\ budget' = [budget EXCEPT !.used = @ - (p.end - p.start)]
    /\ UNCHANGED <<stretched, fair>>

(* The ends of the placements before p, and the start of the memory. *)
EdgesBefore(p) == {0} \cup {q.end : q \in {r \in placements : r.start < p.start}}

(* currentMB, when the loop comes to p. *)
IsCurrent(p, e) == e \in EdgesBefore(p) /\ \A d \in EdgesBefore(p) : d <= e

(* StartMB is assigned before EndMB is computed from it, so the end stays   *)
(* where it was and the placement takes in the gap before it.               *)
Optimize ==
    /\ placements' =
          UNION {{[p EXCEPT !.start = e] : e \in {d \in EdgesBefore(p) : IsCurrent(p, d)}} :
                    p \in placements}
    /\ stretched' = (stretched \/ placements' # placements)
    /\ UNCHANGED <<budget, fair>>

SetBudget(b) ==
    /\ budget' = b
    /\ fair' = Fair(b, placements)
    /\ UNCHANGED <<placements, stretched>>

PackerNext ==
    \/ \E m \in Models, size \in Sizes : Place(m, size)
    \/ \E m \in Models : Remove(m)
    \/ Optimize
    \/ \E b \in Budgets : SetBudget(b)

PackerSpec == PackerInit /\ [][PackerNext]_packerVars

-----------------------------------------------------------------------------
(* Every variable keeps its type, and every placement has an extent. *)
PackerTypeOK ==
    /\ budget \in [total : Nat, used : Int, reserve : Nat]
    /\ placements \subseteq [model : Models, start : Nat, end : Nat, size : Sizes]
    /\ \A p \in placements : p.start < p.end
    /\ stretched \in BOOLEAN
    /\ fair \in BOOLEAN

(* No two models share memory, whatever was placed into the gaps that       *)
(* removals left and however Optimize moved the edges (Place, Optimize).    *)
Disjoint ==
    \A p, q \in placements : p # q => p.end <= q.start \/ q.end <= p.start

(* Until an Optimize closes a gap a placement is as large as the footprint  *)
(* it was made for (Place, Remove).                                         *)
ExtentIsFootprint ==
    ~ stretched => \A p \in placements : p.end - p.start = p.size

(* Until then the use is the memory of the placed models, and the reserve   *)
(* is free, if the budget was installed with the use and the room there was *)
(* (Place, Remove).                                                         *)
Counted ==
    fair /\ ~ stretched =>
        /\ budget.used = Footprints(placements)
        /\ budget.used + budget.reserve <= budget.total

=============================================================================
