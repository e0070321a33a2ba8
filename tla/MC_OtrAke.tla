----------------------------- MODULE MC_OtrAke -----------------------------
(* Instances of OtrAke for TLC: two conversations A and B.                 *)
EXTENDS OtrAke

CONSTANTS A, B

MCParties == {A, B}

\* A and B may be swapped where their policies, versions and tags are the
\* same: no definition tells the two apart except through those constants.
MCPartySymmetry == Permutations(MCParties)

\* Both policies allow v2 and v3; both conversations were created at v3.
MCAllowBoth == [p \in MCParties |-> {2, 3}]
MCVersion3  == [p \in MCParties |-> 3]
\* A was created with a nil otrVersion, as the tests create conversations.
MCNilA      == [p \in MCParties |-> IF p = A THEN 0 ELSE 3]
MCNilB      == [p \in MCParties |-> IF p = B THEN 0 ELSE 3]

\* Only A has requireEncryption: A alone sends query messages.
MCOnlyARequires == [p \in MCParties |-> p = A]
\* Both have requireEncryption: both may start the AKE at once.
MCBothRequire   == [p \in MCParties |-> TRUE]

\* What parseOTRQueryMessage makes of the queries ?OTR? and ?OTRv2? that a
\* user types.
MCTypedQueries == {ToSet(ParseOTRQueryMessage(Chars(q))) : q \in {"?OTR?", "?OTRv2?"}}

MCTags   == {256, 257}
MCOneTag == {256}
=============================================================================
