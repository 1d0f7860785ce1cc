-------------------------- MODULE MCBreezeCheckout --------------------------
(* Instances of BreezeCheckout for TLC.                                     *)
EXTENDS BreezeCheckout

CONSTANTS b1, c1, r1, r2

OneCart == [s \in Sessions |-> c1]
OneBuyer == [c \in Carts |-> b1]

Says(s, class, cod, ref, verified) == [session |-> s, class |-> class, cod |-> cod, ref |-> ref, verified |-> verified]

\* Paid and later reported failed; cash next to a partial payment; two captures of one
\* session, the second unverified; one reference for two sessions.
Scenarios == {
    [e \in {1, 2} |-> IF e = 1 THEN Says(1, "paid", FALSE, r1, TRUE) ELSE Says(1, "failed", FALSE, r1, TRUE)],
    [e \in {1, 2} |-> IF e = 1 THEN Says(1, "paid", TRUE, r1, TRUE) ELSE Says(1, "partial", FALSE, r1, TRUE)],
    [e \in {1, 2} |-> IF e = 1 THEN Says(1, "failed", FALSE, r1, TRUE) ELSE Says(2, "paid", FALSE, r1, FALSE)]}

\* Two captures of one session under different references.
TwoCaptures == {[e \in {1, 2} |-> Says(1, "paid", FALSE, IF e = 1 THEN r1 ELSE r2, TRUE)]}
=============================================================================
