------------------------ MODULE MCCredentialLifecycle ------------------------
(* Instances of CredentialLifecycle for TLC. *)
EXTENDS CredentialLifecycle, TLC

Symmetric == Permutations(Calls) \cup Permutations(Accounts)

\* An answer without a usable lifetime, and an access token that lives.
MCExpiresIns == {-1, 2}

=============================================================================
