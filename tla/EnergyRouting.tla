--------------------------- MODULE EnergyRouting ---------------------------
(***************************************************************************)
(* EnergyLineRouter of venue.py: which venue a shot is sent to.  A lane is *)
(* a model of a provider that matches the target; lanes are numbered in    *)
(* the order of (provider, model id), the last part of every key.          *)
(***************************************************************************)
EXTENDS Integers, Sequences

CONSTANTS
    Lanes,              \* the (provider, model) pairs, as numbers
    EstimatedInput,     \* choose's estimated_input_tokens
    Infinity            \* above every estimated cost and every latency

Unknown == -1           \* Python's None
AmountOrUnknown == Nat \cup {Unknown}

\* What a provider tells of a lane: its key is set (armed), its catalog answers
\* and lists the model, the model is declared free, its prices; and the average
\* seconds the run ledger knows.
Offer == [armed : BOOLEAN, listed : BOOLEAN, free : BOOLEAN,
          in : AmountOrUnknown, out : AmountOrUnknown, seconds : AmountOrUnknown]
Goals == {"cheapest", "fastest", "balanced"}

ASSUME RoutingAssumption ==
    Lanes \subseteq Nat /\ EstimatedInput \in Nat \ {0} /\ Infinity \in Nat
-----------------------------------------------------------------------------
InPrice(offer) == IF offer.free THEN 0 ELSE offer.in
OutPrice(offer) == IF offer.free THEN 0 ELSE offer.out
Priced(offer) == InPrice(offer) # Unknown /\ OutPrice(offer) # Unknown

\* estimated_cost of a candidate, for at most out tokens of output.
Cost(offer, out) ==
    IF Priced(offer) THEN EstimatedInput * InPrice(offer) + out * OutPrice(offer)
    ELSE Unknown

\* discover, and the two filters of choose.
Eligible(offers, budget, out) ==
    {l \in Lanes : /\ offers[l].listed /\ offers[l].armed
                   /\ Cost(offers[l], out) # Unknown => Cost(offers[l], out) <= budget}

\* `value or Infinity`: None and zero are both falsy.
OrInfinity(amount) == IF amount \in {Unknown, 0} THEN Infinity ELSE amount
UnknownLast(amount) == IF amount = Unknown THEN 1 ELSE 0

CostKey(offers, l, out) ==
    LET cost == Cost(offers[l], out) IN <<UnknownLast(cost), OrInfinity(cost), l>>
SpeedKey(offers, l, out) ==
    LET seconds == offers[l].seconds
    IN  <<UnknownLast(seconds), OrInfinity(seconds)>> \o CostKey(offers, l, out)
BalancedKey(offers, l, out) ==
    LET cost == Cost(offers[l], out)  seconds == offers[l].seconds
    IN  <<UnknownLast(cost), UnknownLast(seconds), OrInfinity(cost), OrInfinity(seconds), l>>

KeyOfCost(goal, offers, l, out) == CostKey(offers, l, out) \* mutant: whatever the goal
Key(goal, offers, l, out) ==
    CASE goal = "cheapest" -> CostKey(offers, l, out)
      [] goal = "fastest"  -> SpeedKey(offers, l, out)
      [] goal = "balanced" -> BalancedKey(offers, l, out)

\* Tuples compare by their first difference.
Precedes(k, m) ==
    \E i \in DOMAIN k : k[i] < m[i] /\ \A j \in 1 .. i - 1 : k[j] = m[j]

\* min(eligible, key=...), for a set that is not empty.
Winner(goal, offers, budget, out) ==
    LET eligible == Eligible(offers, budget, out)
    IN  CHOOSE l \in eligible : \A m \in eligible \ {l} :
            Precedes(Key(goal, offers, l, out), Key(goal, offers, m, out))
=============================================================================
