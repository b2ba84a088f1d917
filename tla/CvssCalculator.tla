--------------------------- MODULE CvssCalculator ---------------------------
(***************************************************************************)
(* core/knowledge/cvss_calculator.py: base scores of CVSS vectors, in      *)
(* tenths of a point.  A vector is a record [version, metrics], metrics a  *)
(* function from the metrics it names to their values.  The floating-point *)
(* formulas are computed in fixed point, with enough digits that every     *)
(* version 2 and version 3 vector rounds to the tenth the code gives.      *)
(***************************************************************************)
EXTENDS Integers, Sequences, FiniteSetsExt

Rounded(n, d) == (2 * n + d) \div (2 * d)

(***************************************************************************)
(* The values of the metrics with their weights, in hundredths for version *)
(* 3 and in thousandths for version 2; version 4 is validated only.        *)
(***************************************************************************)
V3 == [AV |-> [N |-> 85, A |-> 62, L |-> 55, P |-> 20],
       AC |-> [L |-> 77, H |-> 44],
       PR |-> [N |-> 85, L |-> 62, H |-> 27],
       UI |-> [N |-> 85, R |-> 62],
       S  |-> [U |-> 0, C |-> 1],
       C  |-> [N |-> 0, L |-> 22, H |-> 56],
       I  |-> [N |-> 0, L |-> 22, H |-> 56],
       A  |-> [N |-> 0, L |-> 22, H |-> 56]]

\* A slip: two values of the table are exchanged.
V3ChangedPRExchanged == [N |-> 85, L |-> 50, H |-> 68]

V3ChangedPR == [N |-> 85, L |-> 68, H |-> 50]

V2 == [AV |-> [L |-> 395, A |-> 646, N |-> 1000],
       AC |-> [H |-> 350, M |-> 610, L |-> 710],
       Au |-> [M |-> 450, S |-> 560, N |-> 704],
       C  |-> [N |-> 0, P |-> 275, C |-> 660],
       I  |-> [N |-> 0, P |-> 275, C |-> 660],
       A  |-> [N |-> 0, P |-> 275, C |-> 660]]

V4 == [AV |-> {"N", "A", "L", "P"}, AC |-> {"L", "H"}, AT |-> {"N", "P"},
       PR |-> {"N", "L", "H"}, UI |-> {"N", "P", "A"},
       VC |-> {"H", "L", "N"}, VI |-> {"H", "L", "N"}, VA |-> {"H", "L", "N"},
       SC |-> {"H", "L", "N"}, SI |-> {"H", "L", "N"}, SA |-> {"H", "L", "N"}]

\* A vector parses when it names every metric, with a value the table has.
Names(metrics, values) ==
    \A m \in DOMAIN values : m \in DOMAIN metrics /\ metrics[m] \in values[m]

ParsesV3(m) == Names(m, [k \in DOMAIN V3 |-> DOMAIN V3[k]])
ParsesV2(m) == Names(m, [k \in DOMAIN V2 |-> DOMAIN V2[k]])
ParsesV4(m) == Names(m, V4)

Parses(vector) ==
    CASE vector.version \in {"3.0", "3.1"} -> ParsesV3(vector.metrics)
      [] vector.version = "2.0"            -> ParsesV2(vector.metrics)
      [] vector.version = "4.0"            -> ParsesV4(vector.metrics)

\* _cvss_roundup: the next tenth, of a value in hundred-thousandths.
RoundedUp(value) == (value + 9999) \div 10000

\* x to the fifteenth, x in ten-thousandths.
Fifteenth(x) ==
    LET power[n \in 0..15] == IF n = 0 THEN 10000 ELSE Rounded(power[n - 1] * x, 10000)
    IN  power[15]

\* The impact sub-score, in millionths.
Impact3(m) ==
    1000000 - (100 - V3.C[m.C]) * (100 - V3.I[m.I]) * (100 - V3.A[m.A])

BaseScoreV3(m) ==
    LET changed == m.S = "C"
        iss     == Impact3(m)
        impact  == IF changed
                   THEN Rounded(752 * (Rounded(iss, 10) - 2900), 100)
                        - Rounded(325 * Fifteenth(Rounded(iss - 20000, 100)), 10)
                   ELSE Rounded(642 * Rounded(iss, 10), 100)
        pr      == IF changed THEN V3ChangedPR[m.PR] ELSE V3.PR[m.PR]
        exploit == Rounded(822 * Rounded(V3.AV[m.AV] * V3.AC[m.AC] * pr * V3.UI[m.UI], 100),
                           1000)
        sum     == impact + exploit
    IN  IF impact <= 0 THEN 0
        ELSE RoundedUp(Min({1000000, IF changed THEN Rounded(108 * sum, 100) ELSE sum}))

BaseScoreV2(m) ==
    LET both    == Rounded((1000 - V2.C[m.C]) * (1000 - V2.I[m.I]), 10)
        iss     == 100000 - Rounded(both * (1000 - V2.A[m.A]), 1000)
        impact  == Rounded(1041 * iss, 100)
        exploit == Rounded(Rounded(V2.AV[m.AV] * V2.AC[m.AC], 10) * V2.Au[m.Au], 50)
        base    == Rounded(294 * Rounded(6 * impact + 4 * exploit - 1500000, 10), 250)
    IN  IF iss = 0 THEN 0 ELSE Max({0, Min({100, Rounded(base, 10000)})})

SeverityOf(score) ==
    CASE score <= 0              -> "info"
      [] score \in 1..39         -> "low"
      [] score \in 40..69        -> "medium"
      [] score \in 70..89        -> "high"
      [] score >= 90             -> "critical"

NoScore == -1

BaseScore(vector) ==
    CASE vector.version \in {"3.0", "3.1"} -> BaseScoreV3(vector.metrics)
      [] vector.version = "2.0"            -> BaseScoreV2(vector.metrics)
      [] vector.version = "4.0"            -> NoScore

\* A version 4 vector is never scored: it counts as informational.
Scored(base) ==
    [base |-> base, severity |-> IF base = NoScore THEN "info" ELSE SeverityOf(base)]

CvssScore(vector) == Scored(BaseScore(vector))
=============================================================================
