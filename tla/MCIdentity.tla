----------------------------- MODULE MCIdentity -----------------------------
(***************************************************************************)
(* Identity on small instances.                                            *)
(***************************************************************************)
EXTENDS Identity, TLC

\* A deployment with verification, and a local one without.
Deployments == {[required |-> TRUE, production |-> TRUE],
                [required |-> FALSE, production |-> FALSE]}

\* Production with EMAIL_VERIFICATION_REQUIRED=false.
Unverified == {[required |-> FALSE, production |-> TRUE]}
Verified == {[required |-> TRUE, production |-> TRUE]}

\* Where verification is required the first two accounts take a token each.
TokenBounds == [r \in BOOLEAN |-> IF r THEN 3 ELSE 1]

BrowserSymmetry == Permutations(Browsers)

=============================================================================
