----------------------------- MODULE Conviction -----------------------------
(***************************************************************************)
(* The integer vote weights of src/src/accounting/governance.rs: a stake   *)
(* gains conviction with the time since its vote, the square root dampens  *)
(* it, and no voter counts for more than total / sqrt(N).  Weights are     *)
(* fixed-point numbers with Q for one; the code has Q = 10^9, and Q, the   *)
(* constant e^-1 * Q and the time constant are parameters here.            *)
(***************************************************************************)
EXTENDS Units

CONSTANTS
    Q,          \* CONVICTION_Q
    EInvQ,      \* E_INV_Q = round(Q / e)
    Tau,        \* CONVICTION_TAU_SECS
    MaxTime     \* bound on timestamps

ASSUME ConvictionConstants == Q \in Nat \ {0} /\ EInvQ \in 0..Q /\ Tau \in Nat \ {0} /\ MaxTime \in Nat

\* Division rounded half up, as in (a + b / 2) / b.
RoundedDiv(a, b) == (a + (b \div 2)) \div b

\* Integer square root.
ISqrt(n) == CHOOSE r \in 0..n : r * r <= n /\ n < (r + 1) * (r + 1)

\* The n-th term of the series of e^-r; once a term is 0 the loop breaks, and all
\* later terms are 0 as well.
ExpTerm(r) ==
    LET term[n \in 0..16] == IF n = 0 THEN Q ELSE RoundedDiv(term[n - 1] * r, n * Q)
    IN  term

\* e^-r * Q for a fraction r of Q: alternating sum of 16 terms.
ExpFraction(r) ==
    LET term == ExpTerm(r)
        sum[n \in 0..16] ==
            IF n = 0 THEN Q
            ELSE IF n % 2 = 1 THEN SatSub(sum[n - 1], term[n]) ELSE sum[n - 1] + term[n]
    IN  sum[16]

\* e^-k * Q for a whole k.
ExpWhole(k) ==
    LET power[n \in 0..k] == IF n = 0 THEN Q ELSE RoundedDiv(power[n - 1] * EInvQ, Q)
    IN  power[k]

\* (1 - e^-(t / Tau)) * Q, for every duration t.
OneMinusExpNeg ==
    [t \in 0..MaxTime |->
        LET x == (t * Q) \div Tau
        IN  IF t = 0 THEN 0
            ELSE IF x \div Q >= 42 THEN Q
            ELSE SatSub(Q, Least(Q, RoundedDiv(ExpWhole(x \div Q) * ExpFraction(x % Q), Q)))]

ConvictionOf(stake, duration) == stake * OneMinusExpNeg[duration]

DampenedPower(conviction) == ISqrt(conviction * Q)

\* The cap on one voter's power; N <= 1 voters are not capped.
Capped(power, total, n) ==
    IF n <= 1 THEN power ELSE Least(power, (total * Q) \div ISqrt(n * Q * Q))

\* tally_votes: votes is a map from voters to [stake, own, dir, at].
Power(votes, now) ==
    [i \in DOMAIN votes |-> DampenedPower(ConvictionOf(votes[i].stake, SatSub(now, votes[i].at)))]

TallyOf(votes, dir, now) ==
    LET power == Power(votes, now)
        total == Total(power)
        n == Cardinality(DOMAIN votes)
    IN  Total([i \in {j \in DOMAIN votes : votes[j].dir = dir} |-> Capped(power[i], total, n)])

Participating(votes) == Total([i \in DOMAIN votes |-> votes[i].stake])
=============================================================================
