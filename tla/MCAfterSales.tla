---------------------------- MODULE MCAfterSales ----------------------------
(* Instances of AfterSales for TLC.                                         *)
EXTENDS AfterSales

Case(rs, as, fs, ts, quantity, price, discount, online) ==
    [returns |-> rs, awbs |-> as, refunds |-> fs, types |-> ts, quantity |-> quantity, unit_price |-> price,
     discount |-> discount, online |-> online, stock |-> 1]

\* One return with two pickups and a refund; three returns of a line whose discounts do not divide.
Situations == {
    Case({1}, {1, 2}, {1}, {"return"}, 1, 5, 1, 0),
    Case({1, 2, 3}, {}, {1, 2, 3}, Types, 2, 5, 1, 1)}
=============================================================================
