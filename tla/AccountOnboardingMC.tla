------------------------ MODULE AccountOnboardingMC ------------------------
(* Instances of AccountOnboarding for TLC. *)
EXTENDS AccountOnboarding, TLC, Functions

CONSTANTS e1, e2, t1, t2, t3, w1, w2

OneApplicant == {e1}
TwoApplicants == {e1, e2}
TwoTokens == {t1, t2}
ThreeTokens == {t1, t2, t3}
TwoWorkers == {w1, w2}

\* Some order of the rows.
SomePlace == CHOOSE f \in [Tokens -> 1 .. Cardinality(Tokens)] : IsInjective(f)

\* Tokens and workers are interchangeable in every safety property as long as no
\* resend finds more than one live token: then it needs no order of the rows.
\* That is so if no two requests about one applicant overlap.
Interchangeable == Permutations(Tokens) \cup Permutations(Workers)
=============================================================================
