------------------------ MODULE MCAttachmentDelivery ------------------------
(* Instances of AttachmentDelivery for TLC. *)
EXTENDS AttachmentDelivery, TLC

CONSTANTS u1, u2, a1, a2, c1, c2, w1, w2

\* One account per user: crossing users and accounts is what ownership is about.
MCOwner == a1 :> u1 @@ a2 :> u2

\* No expiry; one that comes, or lies past the year 9999 when asked for a moment
\* later; and one that no Date can hold.
NeverSoonOrTooLong == {Never, 1, 9}

\* Contents are interchangeable, and so are the workers, and the users with their accounts.
UserSwap == u1 :> u2 @@ u2 :> u1 @@ a1 :> a2 @@ a2 :> a1
Symmetry == Permutations({c1, c2}) \cup Permutations({w1, w2}) \cup {UserSwap}

=============================================================================
