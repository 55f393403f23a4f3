------------------------------ MODULE MCBooks -------------------------------
(***************************************************************************)
(* One cost lot of Solus over three days: five sales and a reversal, which *)
(* the owner composes in the order of the list, on whatever day it is.     *)
(***************************************************************************)
EXTENDS Solus

Form(op, day, occurrence, amount, quantity, lot) ==
  [operation |-> op, day |-> day, occurrence |-> occurrence, amount |-> amount, count |-> 1,
   quantity |-> quantity, lot |-> lot, account |-> "bank", document |-> "none", pays |-> <<>>,
   routing |-> 0, run |-> 0]
TheForms ==
  <<Form("buy", 1, "l", 5, 3, 0), Form("sell", 2, "s1", 0, 1, 1),
    [operation |-> "reverse", event |-> 2, day |-> 3], Form("sell", 1, "s2", 0, 1, 1),
    Form("sell", 3, "s3", 0, 1, 1), Form("sell", 2, "s4", 0, 1, 1)>>
MCOffered == ToSet(TheForms)

\* The n-th key is used for the n-th form, and none is given up.
BooksNext ==
  /\ SolusNext /\ UNCHANGED <<captured, defaults, run>>
  /\ \A k \in FormKeys : /\ forms'[k] \in {NoCommand, TheForms[k]}
                         /\ commands'[k] # "cancelled"
BooksSpec == SolusInit /\ [][BooksNext]_solusVars
=============================================================================
