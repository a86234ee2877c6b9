------------------------------ MODULE Pricing ------------------------------
(***************************************************************************)
(* What an audit costs, in credits (api/pricing/service.py).               *)
(*                                                                         *)
(* The code computes with floats: tokens times a price in dollars for a    *)
(* million of them, divided by the price of a credit, times the premium.   *)
(* Every factor is a multiple of 1 / 5000 of a credit for a token, so here *)
(* the cost is an integer division that rounds up.                         *)
(***************************************************************************)
EXTENDS Integers

Usages == [input : Nat, output : Nat]

\* INPUT_COST, OUTPUT_COST, PREMIUM: 0.15 / 1000000 / 0.001 * 4 credits for a
\* token of input, and 0.6 / 1000000 / 0.001 * 4 for one of output.
InputCost  == 3
OutputCost == 12
Scale      == 5000

\* round(0.1 / PRICE_PEG).
FloorCost == 100

\* What the tokens are worth, in 1 / Scale of a credit.
Worth(usage) == InputCost * usage.input + OutputCost * usage.output

\* get_cost: max(floor_cost, ceil(credit_cost)).
get_cost(usage) ==
    LET credit_cost == (Worth(usage) + (Scale - 1)) \div Scale
    IN  IF credit_cost > FloorCost THEN credit_cost ELSE FloorCost

\* estimate_pricing: the cost of a standard usage, which the platform answers.
StandardUsage == [input |-> 22000, output |-> 5000]
estimate_pricing == get_cost(StandardUsage)

\* A new Usage has none, and what the models report is added to it.
NoUsage == [input |-> 0, output |-> 0]
add(usage, answer) == [input |-> usage.input + answer.input,
                       output |-> usage.output + answer.output]
=============================================================================
