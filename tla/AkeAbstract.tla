----------------------------- MODULE AkeAbstract -----------------------------
(***************************************************************************)
(* What the AKE promises its two conversations, without messages: a       *)
(* conversation derives shared secrets (the unordered pair of DH public    *)
(* values that fixes g^xy) and establishes one of them -- becoming         *)
(* encrypted -- only when its peer has derived that same secret.  A        *)
(* conversation that is encrypted stays encrypted.                        *)
(***************************************************************************)
CONSTANTS
    Parties,    \* the two conversations
    Vals        \* DH public values

VARIABLES
    derived,        \* [Parties -> SUBSET Secret]: secrets put in the key schedule
    established,    \* [Parties -> SUBSET Secret]: secrets of completed exchanges
    encrypted       \* the conversations whose message state is encrypted

absVars == <<derived, established, encrypted>>

Peer(p) == CHOOSE q \in Parties : q # p

\* g^xy is fixed by the pair {g^x, g^y}, whichever side holds which.
Secret == {{a, b} : a, b \in Vals}

Init ==
    /\ derived = [p \in Parties |-> {}]
    /\ established = [p \in Parties |-> {}]
    /\ encrypted = {}

\* p computes a secret and keeps it, before anything is authenticated.
Derive(p, s) ==
    /\ derived' = [derived EXCEPT ![p] = @ \cup {s}]
    /\ UNCHANGED <<established, encrypted>>

\* p completes an exchange on a secret its peer already holds and goes
\* encrypted.
Establish(p, s) ==
    /\ s \in derived[Peer(p)]
    /\ derived' = [derived EXCEPT ![p] = @ \cup {s}]
    /\ established' = [established EXCEPT ![p] = @ \cup {s}]
    /\ encrypted' = encrypted \cup {p}

Next == \E p \in Parties, s \in Secret : Derive(p, s) \/ Establish(p, s)

Spec == Init /\ [][Next]_absVars
=============================================================================
