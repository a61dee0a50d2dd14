------------------------------ MODULE Allocation ------------------------------
(***************************************************************************)
(* antar/decide/allocator.py: which candidates an integer program with     *)
(* constraint rows may select, the duals that its relaxation gives, and    *)
(* the greedy fallback; and antar/eval/policies.py: the two rankings that  *)
(* the allocator is compared with.  A candidate's value is its net_paise,  *)
(* and order its place in the batch.                                       *)
(***************************************************************************)
EXTENDS Compiler, Taxonomy, FiniteSetsExt

CONSTANT CapacityPercent    \* contact_capacity_fraction

ASSUME CapacityAssumption == CapacityPercent \in 0 .. 100

\* round() of a percentage of n: to the nearest, and from the middle to the even.
Rounded(n) ==
  LET whole == (CapacityPercent * n) \div 100
      rest == (CapacityPercent * n) % 100
  IN  IF rest > 50 \/ (rest = 50 /\ whole % 2 = 1) THEN whole + 1 ELSE whole

\* PolicyRunner.capacity.
Capacity(n) == IF Rounded(n) < 1 THEN 1 ELSE Rounded(n)

CapacityRow(cs, capacity) == Row("CONTACT_BUDGET", cs, capacity)

-----------------------------------------------------------------------------
(* solve.                                                                   *)

Net(selection, value) == MapThenSumSet(LAMBDA c : value[c], selection)

Fits(rows, selection) == \A r \in rows : SatisfiedBy(r, selection)

\* The selections that the integer program may return.
Optimal(cs, rows, value) ==
  LET within == {s \in SUBSET cs : Fits(rows, s)}
      best == Max({Net(s, value) : s \in within})
  IN  {s \in within : Net(s, value) = best}

Tight(rows, selection) == {r.kind : r \in {q \in rows : Cardinality(q.members \cap selection) = q.bound}}

Before(c, d, value, order) == value[c] > value[d] \/ (value[c] = value[d] /\ order[c] < order[d])

\* sorted, which keeps the order of the batch among equals.
Ranking(cs, value, order) ==
  [k \in 1 .. Cardinality(cs) |->
     CHOOSE c \in cs : Cardinality({d \in cs : Before(d, c, value, order)}) = k - 1]

\* Mutant of Greedy: what is worth nothing or less is not passed over.
GreedyFilling(cs, rows, value, order) ==
  LET by == Ranking(cs, value, order)
      chosen[k \in 0 .. Cardinality(cs)] ==
        IF k = 0 THEN {}
        ELSE IF Fits(rows, chosen[k - 1] \cup {by[k]}) THEN chosen[k - 1] \cup {by[k]}
             ELSE chosen[k - 1]
  IN  chosen[Cardinality(cs)]

\* _greedy: in descending value, passing over what would break a row.
Greedy(cs, rows, value, order) ==
  LET by == Ranking(cs, value, order)
      chosen[k \in 0 .. Cardinality(cs)] ==
        IF k = 0 THEN {}
        ELSE IF value[by[k]] > 0 /\ Fits(rows, chosen[k - 1] \cup {by[k]})
             THEN chosen[k - 1] \cup {by[k]}
             ELSE chosen[k - 1]
  IN  chosen[Cardinality(cs)]

\* What is read of an Allocation: the selection, the rows that are binding by their
\* duals, and whether a solver found it.
Allocated(selected, binding, solved) ==
  [selected |-> selected, binding |-> binding, solved |-> solved]

\* Mutant of Allocations: the duals are not read from the relaxation.
AllocationsUnpriced(cs, rows, value, order) ==
  {Allocated(s, {}, TRUE) : s \in Optimal(cs, rows, value)}

\* The duals come from a second program, which need not select the same among candidates
\* that are worth as much; the fallback, for want of an optimal status, has none.
Allocations(cs, rows, value, order) ==
  IF cs = {} THEN {Allocated({}, {}, FALSE)}
  ELSE {Allocated(s, Tight(rows, t), TRUE) :
          s \in Optimal(cs, rows, value), t \in Optimal(cs, rows, value)}
       \cup {Allocated(Greedy(cs, rows, value, order), {}, FALSE)}

\* _offending_rows: those that selecting nothing breaks.
OffendingRows(rows) == {r \in rows : ~SatisfiedBy(r, {})}

-----------------------------------------------------------------------------
(* The policies, for one capacity.                                          *)

\* Mutant of Vetoed: the allocator does not ask what detection recommends.
VetoedByNobody(class) == FALSE

\* _l2_vetoed.
Vetoed(class) == RECOMMENDATION[class] \in {"WAIT", "TERMINATE"}

\* contact_everyone ranks all alike, and the first in the batch fill the capacity.
Everyone(cs, capacity, order) ==
  {c \in cs : Cardinality({d \in cs : order[d] < order[c]}) < capacity}

\* propensity ranks by a score that knows nothing of harm: any candidates may come first.
Propensity(cs, capacity) ==
  {s \in SUBSET cs : Cardinality(s) = Min({capacity, Cardinality(cs)})}

\* antar is the only one that hears the diagnosis.
Antar(cs, vetoed, capacity, value, order) ==
  {a.selected : a \in Allocations(cs \ vetoed, {CapacityRow(cs \ vetoed, capacity)}, value, order)}

\* PolicyOutcome, with the two denominators that it keeps apart.
PolicyOutcome(cs, chosen, value, atRisk) ==
  [contacts |-> Cardinality(chosen), abstentions |-> Cardinality(cs \ chosen),
   net |-> Net(chosen, value), candidates |-> Cardinality(cs), atRisk |-> atRisk]
=============================================================================
