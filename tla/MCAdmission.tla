---------------------------- MODULE MCAdmission -----------------------------
EXTENDS Admission, TLC

CONSTANTS c1, c2, g1, g2, h, i1, i2, q1, q2

RequestSymmetry == Permutations({q1, q2})

\* The subject groups of one path are alike for every step and property, as long as
\* only the profile that may change its choices has one of them.
Same == RequestSymmetry \cup Permutations({g1, g2})

\* Profiles 1 and 2 are decided by the engine, 3 is not.  The fee of 1 pins its
\* single choice until its major changes.  Path c1 can be chosen with two subject
\* groups.
MCInfoOf == c1 :> i1 @@ c2 :> i2
MCPathOf == g1 :> c1 @@ g2 :> c1 @@ h :> c2
MCIntent == <<c1, c2, c1>>
MCLeadInfo == <<i1, i2, i1>>
MCWishes == <<<<g1>>, <<h>>, <<>>>>
MCRoundQuota == c1 :> 2 @@ c2 :> 1
MCAdmitQuota == c1 :> 1 @@ c2 :> 1
MCAnnualQuota == i1 :> 1 @@ i2 :> Unlimited

\* ... or 2 asked for both paths.
MCWishesBoth == <<<<g1>>, <<h, g1>>, <<>>>>
=============================================================================
