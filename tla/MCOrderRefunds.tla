--------------------------- MODULE MCOrderRefunds ---------------------------
(***************************************************************************)
(* OrderRefunds with two orders of one user, one in each currency, and     *)
(* claims that pass or fail each rule of the evidence check.               *)
(***************************************************************************)
EXTENDS OrderRefunds, TLC

MCOrder == [o1 |-> [user |-> "ann", cents |-> 100, currency |-> "USD"],
            o2 |-> [user |-> "ann", cents |-> 100, currency |-> "EUR"]]

MCRate == [USD |-> 10000, EUR |-> 11367]

\* 100.5 cents round up to 101: over the order, unless fractions are cut off.
Refund(mills) == [user |-> "ann", order |-> "o1", mills |-> mills, currency |-> "USD"]
OtherRefund(mills) == [user |-> "ann", order |-> "o2", mills |-> mills, currency |-> "EUR"]

RefusedClaims ==
  { [user |-> "bob", order |-> "o1", mills |-> 400, currency |-> "USD"],
    [user |-> "ann", order |-> "o1", mills |-> 400, currency |-> "EUR"],
    [user |-> "ann", order |-> "o3", mills |-> 400, currency |-> "USD"] }

\* 90 euro cents are over the limit of 1.00 USD, 60 are not.
AllClaims ==
  {Refund(400), Refund(600), Refund(1000), Refund(1005), OtherRefund(600), OtherRefund(900)}
    \cup RefusedClaims

Earlier(o, cents, currency) ==
  [request |-> "old", order |-> o, cents |-> cents, currency |-> currency, readAt |-> 0]

\* Nothing refunded, part of the order, more than the order, or in another currency.
SomeLedgers ==
  { <<>>, <<Earlier("o1", 40, "USD")>>, <<Earlier("o1", 150, "USD")>>,
    <<Earlier("o1", 10, "EUR")>> }

\* Requests are told apart by what they claim only.
Symmetry == Permutations(Requests)
=============================================================================
