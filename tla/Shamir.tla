------------------------------- MODULE Shamir -------------------------------
(***************************************************************************)
(* Shamir sharing, zero-sharing and Lagrange reconstruction                *)
(* (src/engine/threshold/shamir.rs) over the scalar field of a curve       *)
(* (curve.rs), with the field replaced by the integers modulo a small      *)
(* prime P, and the life of one key's shares: every dealer of a DKG adds a *)
(* sharing of its own secret, every refresh adds a sharing of zero.        *)
(* An Option is a sequence: <<>> for None, <<x>> for Some(x).              *)
(***************************************************************************)
EXTENDS Naturals, Sequences, FiniteSets, SequencesExt

CONSTANTS
    P,             \* the order of the scalar field, a small prime
    N,             \* number of shares
    T,             \* number of shares that reconstruct
    CheckedInvert  \* the curve: TRUE for Secp256k1, FALSE for Ed25519

\* Indices are distinct and non-zero modulo P, as 1..n are modulo the order
\* of either curve's group.
ASSUME FieldParams ==
    /\ P \in Nat /\ N \in Nat /\ N < P
    /\ T \in 1..N
    /\ CheckedInvert \in BOOLEAN

Scalar == 0..(P - 1)

scalar_add(a, b) == (a + b) % P
scalar_sub(a, b) == (a + P - b) % P
scalar_mul(a, b) == (a * b) % P

\* k256 refuses to invert zero; curve25519-dalek returns zero.
scalar_invert(a) ==
    IF a # 0 THEN <<CHOOSE b \in Scalar : scalar_mul(a, b) = 1>>
    ELSE IF CheckedInvert THEN <<>> ELSE <<0>>

\* Horner evaluation of the polynomial at 1..N.
eval_all(coeffs) ==
    [i \in 1..N |->
        FoldRight(LAMBDA c, acc : scalar_add(scalar_mul(acc, i), c), coeffs, 0)]

\* Mutant: a polynomial of one degree less.
split_low(s, random) == eval_all(<<s>> \o Tail(random))
\* `random` are the coefficients of degree 1 to T - 1.
split(s, random) == eval_all(<<s>> \o random)
Random == [1..(T - 1) -> Scalar]
\* Mutant: the zero is forgotten, so the constant term is random.
split_zero_random(random) == eval_all(random)
\* Mutant: the refresh adds nothing.
split_zero_still(random) == [i \in 1..N |-> 0]
split_zero(random) == split(0, random)

\* `points` is a sequence of pairs (index, value).
reconstruct(points) ==
    LET ProductOver(j, f(_)) ==
            FoldLeft(LAMBDA acc, m : IF m = j THEN acc ELSE scalar_mul(acc, f(m)),
                     1, [m \in DOMAIN points |-> m])
        num(j) == ProductOver(j, LAMBDA m : scalar_sub(0, points[m][1]))
        den(j) == ProductOver(j, LAMBDA m : scalar_sub(points[j][1], points[m][1]))
    IN  IF \E j \in DOMAIN points : scalar_invert(den(j)) = <<>> THEN <<>>
        ELSE <<FoldLeft(LAMBDA acc, j :
                   scalar_add(acc, scalar_mul(points[j][2],
                       scalar_mul(num(j), scalar_invert(den(j))[1]))),
                   0, [j \in DOMAIN points |-> j])>>

-----------------------------------------------------------------------------
VARIABLES
    secret,  \* the group secret: the sum of the dealers' secrets
    shares   \* the value of each node's share

vars == <<secret, shares>>

AddShares(a, b) == [i \in 1..N |-> scalar_add(a[i], b[i])]

Init ==
    /\ secret = 0
    /\ shares = [i \in 1..N |-> 0]

\* One dealer's turn in Cluster::keygen.
Deal(s, random) ==
    /\ secret' = scalar_add(secret, s)
    /\ shares' = AddShares(shares, split(s, random))

\* Cluster::refresh.
Reshare(random) ==
    /\ shares' = AddShares(shares, split_zero(random))
    /\ UNCHANGED secret

Next ==
    \/ \E s \in Scalar, random \in Random : Deal(s, random)
    \/ \E random \in Random : Reshare(random)

Spec == Init /\ [][Next]_vars

-----------------------------------------------------------------------------
(* Correctness.                                                            *)

\* The points of the nodes of a sequence of indices, in that order.
Points(order, values) == [k \in DOMAIN order |-> <<order[k], values[order[k]]>>]
Orders(size) == UNION {SetToSeqs(S) : S \in kSubset(size, 1..N)}

\* Any t shares, in any order, reconstruct the group secret, after any number
\* of dealers and refreshes: shares of sums are sums of shares, and a
\* zero-sharing does not move the secret.
AnyQuorumReconstructs ==
    \A order \in Orders(T) : reconstruct(Points(order, shares)) = <<secret>>

\* t - 1 shares say nothing: for every candidate secret exactly one
\* polynomial agrees with them, so no such set determines the secret
\* (mpc_rounds.rs: t-1 nodes cannot sign).
BelowThresholdSaysNothing ==
    \A S \in kSubset(T - 1, 1..N), guess \in Scalar :
        Cardinality({random \in Random :
            \A i \in S : split(guess, random)[i] = shares[i]}) = 1

\* Shares of before and after a refresh do not mix: a quorum that holds some
\* of each reconstructs the secret for just one in P of the zero-sharings the
\* refresh may draw, which is never for a 256-bit P.  This is what lets
\* module ThresholdCluster compare shares by the dealings they sum.
MixedSharesMiss ==
    \A quorum \in kSubset(T, 1..N) : \A refreshed \in SUBSET quorum :
        refreshed \notin {{}, quorum} =>
            P * Cardinality({random \in Random :
                LET after == AddShares(shares, split_zero(random))
                    mix == [i \in 1..N |-> IF i \in refreshed THEN after[i]
                                                              ELSE shares[i]]
                IN  \A order \in SetToSeqs(quorum) :
                        reconstruct(Points(order, mix)) = <<secret>>})
            = Cardinality(Random)
=============================================================================
