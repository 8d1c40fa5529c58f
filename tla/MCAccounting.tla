---------------------------- MODULE MCAccounting ----------------------------
(* The finite instance of Accounting: two attempts on one account. *)
EXTENDS Accounting

CONSTANTS a1, a2, own, other, s1, s2

OneAccount == [a \in Attempt |-> own]

Of(account, id, n) == [id |-> id, account |-> account, value |-> n]
Says(snapshots, quantities, paid) ==
  [quotas |-> snapshots, billing |-> TRUE, units |-> quantities, charge |-> paid]

(* Units alone, as the executor of the repository reports them; a charge alone; *)
(* quotas with and without billing, of one identity with two values, of another *)
(* account, without a value; and billing without a value or with a charge that  *)
(* is not currency.                                                             *)
MCReports == {
  Says(<<>>, <<1, 2>>, "none"),
  Says(<<Of(own, s1, 1)>>, <<1>>, "none"),
  Says(<<Of(own, s1, 2), Of(own, s2, 2)>>, <<>>, "currency"),
  Says(<<Of(own, s1, 1), Of(other, s2, 1)>>, <<2>>, "none"),
  [NoReport EXCEPT !.quotas = <<Of(own, s2, 1)>>],
  [NoReport EXCEPT !.quotas = <<Of(own, s2, None)>>],
  Says(<<Of(own, s2, 1)>>, <<>>, "none"),
  Says(<<>>, <<1>>, "other")}
=============================================================================
