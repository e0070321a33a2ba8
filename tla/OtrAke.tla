------------------------------- MODULE OtrAke -------------------------------
(***************************************************************************)
(* The OTR Authenticated Key Exchange of two conversations talking over   *)
(* a network that may lose, duplicate and reorder messages.               *)
(*                                                                         *)
(* Each party is one `conversation` (src/context.go): its AKE scratch     *)
(* (authState, ourPublicValue, theirPublicValue, the committed g^x), the  *)
(* negotiated protocol version, its instance tag, the data-layer key      *)
(* schedule `keys` and the message state.  The cryptography is abstract:  *)
(* a DH public value is a fresh integer in 1..MaxDraws, its SHA-256 hash  *)
(* is ordered like the integer, and a Reveal-Sig or Sig message binds the *)
(* pair (g^x, g^y) its MAC and signature were computed over.              *)
(***************************************************************************)
EXTENDS Integers, FiniteSets, QueryParse

CONSTANTS
    Parties,            \* the two conversations
    AllowedVersions,    \* [Parties -> SUBSET {2, 3}]: the allowV2/allowV3 policies
    RequireEncryption,  \* [Parties -> BOOLEAN]: the requireEncryption policy
    InitVersion,        \* [Parties -> {0, 2, 3}]: the otrVersion given to newConversation (0 = nil)
    Tags,               \* instance tags generateInstanceTag may return (>= 0x100)
    MaxDraws,           \* bound: number of DH exponents drawn from Rand in a behaviour
    MaxSends,           \* bound: number of Send calls per party that return a query
    Lossy,              \* the network may lose messages
    Duplicating,        \* the network may deliver a message more than once
    RandFails,          \* a read of Rand may come up short
    Ordered,            \* each direction delivers in sending order (FIFO)
    MaxMsgs,            \* bound: number of messages each party sends (FIFO network)
    MaxFaults,          \* bound: losses, duplications and injections of the network
    Injecting,          \* the kinds of message an attacker on the network forges
    UserQueries         \* versions advertised by query messages a user may type (1 = v1)

ASSUME
    /\ Cardinality(Parties) = 2
    /\ AllowedVersions \in [Parties -> SUBSET {2, 3}]
    /\ RequireEncryption \in [Parties -> BOOLEAN]
    /\ InitVersion \in [Parties -> {0, 2, 3}]
    /\ Tags \subseteq Nat /\ Tags # {} /\ \A t \in Tags : t >= 256
    /\ MaxDraws \in Nat /\ MaxSends \in Nat /\ MaxMsgs \in Nat /\ MaxFaults \in Nat
    /\ Ordered \in BOOLEAN
    /\ Lossy \in BOOLEAN /\ Duplicating \in BOOLEAN /\ RandFails \in BOOLEAN
    /\ Injecting \subseteq {"DHCommit", "DHKey", "Header"}
    /\ UserQueries \subseteq SUBSET {1, 2, 3}

Peer(p) == CHOOSE q \in Parties : q # p

\* The authState marker types of the code.
None              == "AUTHSTATE_NONE"
AwaitingDHKey     == "AUTHSTATE_AWAITING_DHKEY"
AwaitingRevealSig == "AUTHSTATE_AWAITING_REVEALSIG"
AwaitingSig       == "AUTHSTATE_AWAITING_SIG"
AuthStates == {None, AwaitingDHKey, AwaitingRevealSig, AwaitingSig}

MsgStates == {"plainText", "encrypted", "finished"}

\* DH public values; NoKey is the nil *big.Int / empty dhKeyPair.
Vals  == 1..MaxDraws
NoKey == 0
Key   == Vals \cup {NoKey}

\* SHA-256 of the MPI of a public value, compared byte-wise.  Public values
\* are drawn nondeterministically, so both orders of two values are reached.
HashGx(v) == v

\* A "Header" is a message of two bytes, the protocol version and nothing
\* after it: no honest conversation sends one.
MsgTypes == {"Query", "DHCommit", "DHKey", "RevealSig", "Sig", "Data", "Header"}
\* n numbers the messages of one sender, in sending order.
Message == [type : MsgTypes, src : Parties, dst : Parties, ver : {0, 2, 3},
            gx : Key, gy : Key, adv : SUBSET {1, 2, 3}, n : 0..MaxMsgs]

VARIABLES
    authState,          \* c.ake.state
    ourPublicValue,     \* c.ake.ourPublicValue (g^x as initiator, g^y as responder)
    theirPublicValue,   \* c.ake.theirPublicValue
    hashedGx,           \* the g^x that c.ake.encryptedGx / hashedGx commit to
    version,            \* c.version (0 = nil)
    ourInstanceTag,     \* c.ourInstanceTag
    keys,               \* c.keys: the data-layer key schedule
    msgState,           \* c.msgState
    msgs,               \* messages in flight
    nsent,              \* messages sent so far, per party
    faults,             \* losses and duplications so far
    used,               \* public values drawn so far (Rand never repeats)
    sends,              \* Send calls made, per party
    installed,          \* history: <<p, our, their>> ever written to keys[p]
    completed,          \* history: <<p, our, their>> of every completed AKE
    panicked            \* conversations whose receive has panicked

akeVars == <<authState, ourPublicValue, theirPublicValue, hashedGx>>
vars == <<akeVars, version, ourInstanceTag, keys, msgState, msgs, nsent, faults, used, sends,
          installed, completed, panicked>>

KeySchedule == [ourCurrentDHKeys : Key, theirCurrentDHPubKey : Key,
                ourCounter : 0..1, ourKeyID : 0..1, theirKeyID : 0..1]

TypeOK ==
    /\ authState \in [Parties -> AuthStates]
    /\ ourPublicValue \in [Parties -> Key]
    /\ theirPublicValue \in [Parties -> Key]
    /\ hashedGx \in [Parties -> Key]
    /\ version \in [Parties -> {0, 2, 3}]
    /\ ourInstanceTag \in [Parties -> Tags \cup {0}]
    /\ keys \in [Parties -> KeySchedule]
    /\ msgState \in [Parties -> MsgStates]
    /\ msgs \subseteq Message
    /\ nsent \in [Parties -> 0..MaxMsgs]
    /\ faults \in 0..MaxFaults
    /\ used \subseteq Vals
    /\ sends \in [Parties -> 0..MaxSends]
    /\ installed \subseteq Parties \X Key \X Key
    /\ completed \subseteq Parties \X Vals \X Vals
    /\ panicked \subseteq Parties

-----------------------------------------------------------------------------
(* Messages.                                                               *)

AkeMsg(t, p, v, gx, gy) ==
    [type |-> t, src |-> p, dst |-> Peer(p), ver |-> v,
     gx |-> gx, gy |-> gy, adv |-> {}, n |-> 0]

\* c.queryMessage(): advertises the versions the policy allows.
QueryMsg(p) ==
    [type |-> "Query", src |-> p, dst |-> Peer(p), ver |-> 0,
     gx |-> NoKey, gy |-> NoKey, adv |-> AllowedVersions[p], n |-> 0]

\* A query message the user typed, advertising the versions adv.
TypedQueryMsg(p, adv) == [QueryMsg(p) EXCEPT !.adv = adv]

\* Whether a delivered message stays in flight: a duplicating network may
\* keep it for a later delivery.
KeepChoices == IF Duplicating /\ faults < MaxFaults THEN {FALSE, TRUE} ELSE {FALSE}

\* p sends m: it joins what is left in flight.  On a FIFO network it is
\* numbered after p's earlier messages; on a reordering one, copies of the
\* same bytes are one element of the set (the network may duplicate them).
Emit(p, rest, m) ==
    IF Ordered
    THEN /\ nsent[p] < MaxMsgs
         /\ msgs' = rest \cup {[m EXCEPT !.n = nsent[p]]}
         /\ nsent' = [nsent EXCEPT ![p] = @ + 1]
    ELSE /\ msgs' = rest \cup {m}
         /\ UNCHANGED nsent

\* Only what is left in flight changes on the network.
Consume(rest) == msgs' = rest /\ UNCHANGED nsent

\* m may be delivered now: a FIFO network first delivers what its sender
\* sent earlier.
Deliverable(m) ==
    \/ ~Ordered
    \/ ~\E e \in msgs : e.src = m.src /\ e.dst = m.dst /\ e.n < m.n

\* Draw a fresh public value from Rand.
Fresh == Vals \ used

-----------------------------------------------------------------------------
Init ==
    /\ authState = [p \in Parties |-> None]
    /\ ourPublicValue = [p \in Parties |-> NoKey]
    /\ theirPublicValue = [p \in Parties |-> NoKey]
    /\ hashedGx = [p \in Parties |-> NoKey]
    /\ version = InitVersion
    /\ ourInstanceTag = [p \in Parties |-> 0]
    /\ keys = [p \in Parties |-> [ourCurrentDHKeys |-> NoKey,
                                  theirCurrentDHPubKey |-> NoKey,
                                  ourCounter |-> 0, ourKeyID |-> 0, theirKeyID |-> 0]]
    /\ msgState = [p \in Parties |-> "plainText"]
    /\ msgs = {}
    /\ nsent = [p \in Parties |-> 0]
    /\ faults = 0
    /\ used = {}
    /\ sends = [p \in Parties |-> 0]
    /\ installed = {}
    /\ completed = {}
    /\ panicked = {}

-----------------------------------------------------------------------------
(* Sending.                                                                *)

\* Conversation.Send: with OTR enabled and msgState plainText, the
\* requireEncryption policy makes Send return a query message instead of
\* the user's message.  Its other branches (plaintext, whitespace tag, data
\* message, finished error) leave the AKE and the key schedule unchanged.
SendQuery(p) ==
    /\ AllowedVersions[p] # {}
    /\ msgState[p] = "plainText"
    /\ RequireEncryption[p]
    /\ sends[p] < MaxSends
    /\ sends' = [sends EXCEPT ![p] = @ + 1]
    /\ Emit(p, msgs, QueryMsg(p))
    /\ UNCHANGED faults
    /\ UNCHANGED <<akeVars, version, ourInstanceTag, keys, msgState, used,
                   installed, completed>>

\* Conversation.Send of a message the user typed, in the branches that pass
\* it through unchanged: OTR disabled, or plainText without
\* requireEncryption (the whitespace tag appended by sendWhitespaceTag does
\* not change the query).  Here the typed text is a query message.
SendPlain(p, adv) ==
    /\ msgState[p] = "plainText"
    /\ AllowedVersions[p] = {} \/ ~RequireEncryption[p]
    /\ sends[p] < MaxSends
    /\ sends' = [sends EXCEPT ![p] = @ + 1]
    /\ Emit(p, msgs, TypedQueryMsg(p, adv))
    /\ UNCHANGED faults
    /\ UNCHANGED <<akeVars, version, ourInstanceTag, keys, msgState, used,
                   installed, completed>>

\* Conversation.Send in msgState encrypted: the user's message goes out as a
\* data message under the conversation's protocol version.
SendData(p) ==
    /\ AllowedVersions[p] # {}
    /\ msgState[p] = "encrypted"
    /\ sends[p] < MaxSends
    /\ sends' = [sends EXCEPT ![p] = @ + 1]
    /\ Emit(p, msgs, AkeMsg("Data", p, version[p], NoKey, NoKey))
    /\ UNCHANGED faults
    /\ UNCHANGED <<akeVars, version, ourInstanceTag, keys, msgState, used,
                   installed, completed>>

\* sendDHCommit at protocol version v: a new instance tag every time, then
\* dhCommitMessage draws r and x (storing our encryptedGx in the same field
\* that holds a peer's), and only if that succeeds the state moves to
\* AwaitingDHKey and ourCurrentDHKeys is cleared.  A short read of Rand in
\* dhCommitMessage returns errShortRandomRead after the tag has changed.
SendDHCommit(p, v, rest) ==
    /\ \E tag \in Tags : ourInstanceTag' = [ourInstanceTag EXCEPT ![p] = tag]
    /\ \/ /\ RandFails
          /\ Consume(rest)
          /\ UNCHANGED <<akeVars, keys, used>>
       \/ \E x \in Fresh :
          /\ used' = used \cup {x}
          /\ ourPublicValue' = [ourPublicValue EXCEPT ![p] = x]
          /\ hashedGx' = [hashedGx EXCEPT ![p] = x]
          /\ authState' = [authState EXCEPT ![p] = AwaitingDHKey]
          /\ keys' = [keys EXCEPT ![p].ourCurrentDHKeys = NoKey]
          /\ Emit(p, rest, AkeMsg("DHCommit", p, v, x, NoKey))
          /\ UNCHANGED theirPublicValue

-----------------------------------------------------------------------------
(* Receiving.                                                              *)

\* Mutant: a query that restarts the AKE also drops the session to plainText.
ReceiveQueryMessageDropsSession(p, m, rest) ==
    /\ m.type = "Query"
    /\ LET v == AcceptOTRRequest(AllowedVersions[p], m.adv) IN
         \/ /\ v = 0
            /\ Consume(rest)
            /\ UNCHANGED <<akeVars, version, ourInstanceTag, keys, used, msgState>>
         \/ /\ v # 0
            /\ version' = [version EXCEPT ![p] = v]
            /\ msgState' = [msgState EXCEPT ![p] = "plainText"]
            /\ SendDHCommit(p, v, rest)
    /\ UNCHANGED <<sends, installed, completed>>

\* Mutant: a query restarts the AKE only from authState None.
ReceiveQueryMessageOnlyAtNone(p, m, rest) ==
    /\ m.type = "Query"
    /\ LET v == AcceptOTRRequest(AllowedVersions[p], m.adv) IN
         \/ /\ v = 0 \/ authState[p] # None
            /\ Consume(rest)
            /\ UNCHANGED <<akeVars, version, ourInstanceTag, keys, used>>
         \/ /\ v # 0 /\ authState[p] = None
            /\ version' = [version EXCEPT ![p] = v]
            /\ SendDHCommit(p, v, rest)
    /\ UNCHANGED <<msgState, sends, installed, completed>>

\* receiveQueryMessage: errInvalidVersion when no version is acceptable;
\* otherwise the version is set and a DH-Commit is sent, in any authState.
ReceiveQueryMessage(p, m, rest) ==
    /\ m.type = "Query"
    /\ LET v == AcceptOTRRequest(AllowedVersions[p], m.adv) IN
         \/ /\ v = 0
            /\ Consume(rest)
            /\ UNCHANGED <<akeVars, version, ourInstanceTag, keys, used>>
         \/ /\ v # 0
            /\ version' = [version EXCEPT ![p] = v]
            /\ SendDHCommit(p, v, rest)
    /\ UNCHANGED <<msgState, sends, installed, completed>>

\* conversation.receive rejects a message whose header version differs from
\* c.protocolVersion() (errWrongProtocolVersion); receiveAKE then drops an
\* AKE message of a version the policy does not allow.
AcceptsVersion(p, m) ==
    /\ m.ver = version[p]
    /\ m.type \in {"Data", "Header"} \/ m.ver \in AllowedVersions[p]

\* The message is consumed and nothing else changes.
Ignore(rest) ==
    /\ Consume(rest)
    /\ UNCHANGED <<akeVars, version, ourInstanceTag, keys, msgState, used, sends,
                   installed, completed>>

\* The (authState, message) cells the state machine ignores: the message
\* is consumed, no reply, no state change.
IgnoredDHKey(p, m) ==
    m.type = "DHKey" /\ authState[p] \in {None, AwaitingRevealSig}

\* In AwaitingSig, a DH-Key other than the one answered is ignored.
IgnoredOtherDHKey(p, m) ==
    m.type = "DHKey" /\ authState[p] = AwaitingSig /\ m.gy # theirPublicValue[p]

IgnoredRevealSig(p, m) ==
    m.type = "RevealSig" /\ authState[p] \in {None, AwaitingDHKey, AwaitingSig}

IgnoredSig(p, m) ==
    m.type = "Sig" /\ authState[p] \in {None, AwaitingDHKey, AwaitingRevealSig}

\* Accept a DH-Commit as a responder: store the commitment, draw y and g^y,
\* reply with a DH-Key and wait for the Reveal-Sig.
RespondToDHCommit(p, m, rest) ==
    /\ \E y \in Fresh :
        /\ used' = used \cup {y}
        /\ ourPublicValue' = [ourPublicValue EXCEPT ![p] = y]
        /\ hashedGx' = [hashedGx EXCEPT ![p] = m.gx]
        /\ authState' = [authState EXCEPT ![p] = AwaitingRevealSig]
        /\ Emit(p, rest, AkeMsg("DHKey", p, version[p], NoKey, y))
    /\ UNCHANGED <<theirPublicValue, version, ourInstanceTag, keys, msgState,
                   sends, installed, completed>>

ReceiveDHCommitAtNone(p, m, rest) ==
    /\ authState[p] = None /\ m.type = "DHCommit"
    /\ RespondToDHCommit(p, m, rest)

\* Collision, their hash higher: forget our x and g^x and respond.
ReceiveDHCommitTheirsHigher(p, m, rest) ==
    /\ authState[p] = AwaitingDHKey /\ m.type = "DHCommit"
    /\ HashGx(ourPublicValue[p]) < HashGx(m.gx)
    /\ RespondToDHCommit(p, m, rest)

\* Collision, our hash higher: ignore theirs and resend our DH-Commit; the
\* tested transition is to AwaitingRevealSig.
ReceiveDHCommitOursHigher(p, m, rest) ==
    /\ authState[p] = AwaitingDHKey /\ m.type = "DHCommit"
    /\ HashGx(ourPublicValue[p]) > HashGx(m.gx)
    /\ authState' = [authState EXCEPT ![p] = AwaitingRevealSig]
    /\ Emit(p, rest, AkeMsg("DHCommit", p, version[p], ourPublicValue[p], NoKey))
    /\ UNCHANGED <<ourPublicValue, theirPublicValue, hashedGx, version, ourInstanceTag,
                   keys, msgState, used, sends, installed, completed>>

\* A new DH-Commit replaces the stored commitment; the DH-Key is resent
\* with the same y.
ReceiveDHCommitAtAwaitingRevealSig(p, m, rest) ==
    /\ authState[p] = AwaitingRevealSig /\ m.type = "DHCommit"
    /\ hashedGx' = [hashedGx EXCEPT ![p] = m.gx]
    /\ Emit(p, rest, AkeMsg("DHKey", p, version[p], NoKey, ourPublicValue[p]))
    /\ UNCHANGED <<authState, ourPublicValue, theirPublicValue, version, ourInstanceTag,
                   keys, msgState, used, sends, installed, completed>>

ReceiveDHCommitAtAwaitingSig(p, m, rest) ==
    /\ authState[p] = AwaitingSig /\ m.type = "DHCommit"
    /\ RespondToDHCommit(p, m, rest)

\* Mutant: the counter is increased instead of being set to 1.
InstallDHKeysIncrementing(p, our, their) ==
    [keys EXCEPT ![p].ourCurrentDHKeys = our, ![p].theirCurrentDHPubKey = their,
                 ![p].ourCounter = @ + 1, ![p].ourKeyID = 1]

\* The initiator's key schedule once the DH-Key is in: our and their current
\* DH keys, ourCounter and ourKeyID 1; theirKeyID waits for the Sig.
InstallDHKeys(p, our, their) ==
    [keys EXCEPT ![p].ourCurrentDHKeys = our, ![p].theirCurrentDHPubKey = their,
                 ![p].ourCounter = 1, ![p].ourKeyID = 1]

\* Mutant: the key schedule is written from theirPublicValue before the
\* received g^y is stored in it.
ReceiveDHKeyInstallsStale(p, m, rest) ==
    /\ authState[p] = AwaitingDHKey /\ m.type = "DHKey"
    /\ theirPublicValue' = [theirPublicValue EXCEPT ![p] = m.gy]
    /\ keys' = InstallDHKeys(p, ourPublicValue[p], theirPublicValue[p])
    /\ installed' = installed \cup {<<p, ourPublicValue[p], theirPublicValue[p]>>}
    /\ authState' = [authState EXCEPT ![p] = AwaitingSig]
    /\ Emit(p, rest, AkeMsg("RevealSig", p, version[p], ourPublicValue[p], m.gy))
    /\ UNCHANGED <<ourPublicValue, hashedGx, version, ourInstanceTag, msgState, used,
                   sends, completed>>

\* Our DH-Commit was answered: store g^y, install our and their DH keys in
\* the key schedule (ourCounter and ourKeyID 1, theirKeyID untouched) and
\* send the Reveal-Sig over (g^x, g^y).
ReceiveDHKeyAtAwaitingDHKey(p, m, rest) ==
    /\ authState[p] = AwaitingDHKey /\ m.type = "DHKey"
    /\ theirPublicValue' = [theirPublicValue EXCEPT ![p] = m.gy]
    /\ keys' = InstallDHKeys(p, ourPublicValue[p], m.gy)
    /\ installed' = installed \cup {<<p, ourPublicValue[p], m.gy>>}
    /\ authState' = [authState EXCEPT ![p] = AwaitingSig]
    /\ Emit(p, rest, AkeMsg("RevealSig", p, version[p], ourPublicValue[p], m.gy))
    /\ UNCHANGED <<ourPublicValue, hashedGx, version, ourInstanceTag, msgState, used,
                   sends, completed>>

\* The same DH-Key again: retransmit the Reveal-Sig already sent.
ReceiveDHKeyAtAwaitingSig(p, m, rest) ==
    /\ authState[p] = AwaitingSig /\ m.type = "DHKey"
    /\ m.gy = theirPublicValue[p]
    /\ Emit(p, rest, AkeMsg("RevealSig", p, version[p], ourPublicValue[p],
                                  theirPublicValue[p]))
    /\ UNCHANGED <<akeVars, version, ourInstanceTag, keys, msgState, used, sends,
                   installed, completed>>

\* r decrypts the committed g^x and its hash matches, and the MAC and
\* signature were made with keys derived from (g^x)^y for our y.
VerifyRevealSig(p, m) == m.gx = hashedGx[p] /\ m.gy = ourPublicValue[p]

\* The MAC and signature of a Sig were made over our g^x and their g^y.
VerifySig(p, m) == m.gx = ourPublicValue[p] /\ m.gy = theirPublicValue[p]

\* Back to AUTHSTATE_NONE with the AKE scratch zeroed.
ResetAKE(p) ==
    /\ authState' = [authState EXCEPT ![p] = None]
    /\ ourPublicValue' = [ourPublicValue EXCEPT ![p] = NoKey]
    /\ theirPublicValue' = [theirPublicValue EXCEPT ![p] = NoKey]
    /\ hashedGx' = [hashedGx EXCEPT ![p] = NoKey]

\* Responder success: install both DH keys and key IDs, go encrypted, reply
\* with the Sig.
ReceiveRevealSig(p, m, rest) ==
    /\ authState[p] = AwaitingRevealSig /\ m.type = "RevealSig"
    /\ VerifyRevealSig(p, m)
    /\ keys' = [keys EXCEPT ![p] = [ourCurrentDHKeys |-> ourPublicValue[p],
                                     theirCurrentDHPubKey |-> m.gx,
                                     ourCounter |-> 1, ourKeyID |-> 1, theirKeyID |-> 1]]
    /\ msgState' = [msgState EXCEPT ![p] = "encrypted"]
    /\ installed' = installed \cup {<<p, ourPublicValue[p], m.gx>>}
    /\ completed' = completed \cup {<<p, ourPublicValue[p], m.gx>>}
    /\ Emit(p, rest, AkeMsg("Sig", p, version[p], m.gx, ourPublicValue[p]))
    /\ ResetAKE(p)
    /\ UNCHANGED <<version, ourInstanceTag, used, sends>>

\* Mutant: the Sig completes the AKE but msgState stays plainText.
ReceiveSigStaysPlain(p, m, rest) ==
    /\ authState[p] = AwaitingSig /\ m.type = "Sig"
    /\ VerifySig(p, m)
    /\ keys' = [keys EXCEPT ![p].theirCurrentDHPubKey = theirPublicValue[p],
                            ![p].theirKeyID = 1]
    /\ installed' = installed \cup {<<p, keys[p].ourCurrentDHKeys, theirPublicValue[p]>>}
    /\ completed' = completed \cup {<<p, keys[p].ourCurrentDHKeys, theirPublicValue[p]>>}
    /\ Consume(rest)
    /\ ResetAKE(p)
    /\ UNCHANGED <<version, ourInstanceTag, msgState, used, sends>>

\* Mutant: the Sig's MAC and signature are not checked.
ReceiveSigUnverified(p, m, rest) ==
    /\ authState[p] = AwaitingSig /\ m.type = "Sig"
    /\ keys' = [keys EXCEPT ![p].theirCurrentDHPubKey = theirPublicValue[p],
                            ![p].theirKeyID = 1]
    /\ msgState' = [msgState EXCEPT ![p] = "encrypted"]
    /\ installed' = installed \cup {<<p, keys[p].ourCurrentDHKeys, theirPublicValue[p]>>}
    /\ completed' = completed \cup {<<p, keys[p].ourCurrentDHKeys, theirPublicValue[p]>>}
    /\ Consume(rest)
    /\ ResetAKE(p)
    /\ UNCHANGED <<version, ourInstanceTag, used, sends>>

\* Initiator success: their key ID and g^y are installed, go encrypted.
ReceiveSig(p, m, rest) ==
    /\ authState[p] = AwaitingSig /\ m.type = "Sig"
    /\ VerifySig(p, m)
    /\ keys' = [keys EXCEPT ![p].theirCurrentDHPubKey = theirPublicValue[p],
                            ![p].theirKeyID = 1]
    /\ msgState' = [msgState EXCEPT ![p] = "encrypted"]
    /\ installed' = installed \cup {<<p, keys[p].ourCurrentDHKeys, theirPublicValue[p]>>}
    /\ completed' = completed \cup {<<p, keys[p].ourCurrentDHKeys, theirPublicValue[p]>>}
    /\ Consume(rest)
    /\ ResetAKE(p)
    /\ UNCHANGED <<version, ourInstanceTag, used, sends>>

\* A verification failure returns an error and aborts the AKE: back to
\* None with the scratch zeroed; the key schedule is left alone.
AbortAKE(p, rest) ==
    /\ Consume(rest)
    /\ ResetAKE(p)
    /\ UNCHANGED <<version, ourInstanceTag, keys, msgState, used, sends, installed,
                   completed>>

\* A Reveal-Sig that fails verification in AwaitingRevealSig.
ReceiveBadRevealSig(p, m, rest) ==
    /\ authState[p] = AwaitingRevealSig /\ m.type = "RevealSig" /\ ~VerifyRevealSig(p, m)
    /\ AbortAKE(p, rest)

\* A Sig that fails verification in AwaitingSig.
ReceiveBadSig(p, m, rest) ==
    /\ authState[p] = AwaitingSig /\ m.type = "Sig" /\ ~VerifySig(p, m)
    /\ AbortAKE(p, rest)

\* A short read of Rand while drawing y for the DH-Key reply to a
\* DH-Commit in None: errShortRandomRead, the message is consumed.
ReceiveDHCommitShortRead(p, m, rest) ==
    /\ RandFails
    /\ authState[p] = None /\ m.type = "DHCommit"
    /\ Ignore(rest)

\* A short read of Rand while building the Reveal-Sig for a DH-Key in
\* AwaitingDHKey: errShortRandomRead, the message is consumed.
ReceiveDHKeyShortRead(p, m, rest) ==
    /\ RandFails
    /\ authState[p] = AwaitingDHKey /\ m.type = "DHKey"
    /\ Ignore(rest)

\* receiveAKE: the transition table of the authState.
ReceiveAKE(p, m, rest) ==
    \/ ReceiveDHCommitAtNone(p, m, rest)
    \/ ReceiveDHCommitOursHigher(p, m, rest)
    \/ ReceiveDHCommitTheirsHigher(p, m, rest)
    \/ ReceiveDHCommitAtAwaitingRevealSig(p, m, rest)
    \/ ReceiveDHCommitAtAwaitingSig(p, m, rest)
    \/ ReceiveDHKeyAtAwaitingDHKey(p, m, rest)
    \/ ReceiveDHKeyAtAwaitingSig(p, m, rest)
    \/ ReceiveRevealSig(p, m, rest)
    \/ ReceiveSig(p, m, rest)
    \/ ReceiveBadRevealSig(p, m, rest)
    \/ ReceiveBadSig(p, m, rest)
    \/ ReceiveDHCommitShortRead(p, m, rest)
    \/ ReceiveDHKeyShortRead(p, m, rest)
    \/ (IgnoredDHKey(p, m) \/ IgnoredOtherDHKey(p, m) \/ IgnoredRevealSig(p, m)
        \/ IgnoredSig(p, m)) /\ Ignore(rest)

\* conversation.receive: query messages go to receiveQueryMessage, the
\* others are version-checked; a data message is then left alone (its
\* decryption is a TODO) and the rest go to the AKE.
Receive(p) ==
    \E m \in msgs :
        /\ m.dst = p
        /\ Deliverable(m)
        /\ \E keep \in KeepChoices :
            /\ faults' = IF keep THEN faults + 1 ELSE faults
            /\ LET rest == IF keep THEN msgs ELSE msgs \ {m} IN
                 \/ ReceiveQueryMessage(p, m, rest)
                 \/ m.type # "Query" /\ version[p] # 0 /\ ~AcceptsVersion(p, m) /\ Ignore(rest)
                 \/ m.type = "Data" /\ AcceptsVersion(p, m) /\ Ignore(rest)
                 \/ m.type \notin {"Query", "Data", "Header"} /\ AcceptsVersion(p, m)
                    /\ ReceiveAKE(p, m, rest)

\* conversation.receive on a conversation created with a nil otrVersion:
\* c.protocolVersion() dereferences the nil interface before receiveAKE
\* could adopt the message's version, and the goroutine panics.  It also
\* panics on a message of two bytes in its own version: extractShort's ok
\* is dropped, the version check passes and message[2] is out of range.
ReceivePanics(p) ==
    \E m \in msgs :
        /\ m.dst = p /\ Deliverable(m)
        /\ \/ m.type # "Query" /\ version[p] = 0
           \/ m.type = "Header" /\ version[p] # 0 /\ AcceptsVersion(p, m)
        /\ panicked' = panicked \cup {p}
        /\ msgs' = msgs \ {m}
        /\ UNCHANGED <<akeVars, version, ourInstanceTag, keys, msgState, nsent, faults,
                       used, sends, installed, completed>>

\* The transport loses a message.
Lose ==
    /\ Lossy
    /\ faults < MaxFaults
    /\ faults' = faults + 1
    /\ \E m \in msgs : msgs' = msgs \ {m}
    /\ UNCHANGED nsent
    /\ UNCHANGED <<akeVars, version, ourInstanceTag, keys, msgState, used, sends,
                   installed, completed>>

\* What an attacker can forge to p as p's peer, in version v: a DH-Commit
\* or a DH-Key with a fresh public value of its own, or a bare header.  None
\* of them is authenticated; Reveal-Sig and Sig need the peer's signing key.
Forgeries(p, v) ==
    LET dh == UNION {{AkeMsg("DHCommit", Peer(p), v, e, NoKey),
                      AkeMsg("DHKey", Peer(p), v, NoKey, e)} : e \in Fresh}
    IN  {m \in dh \cup {AkeMsg("Header", Peer(p), v, NoKey, NoKey)} : m.type \in Injecting}

\* An attacker on the network sends p a forgery.  Its value is fresh:
\* replaying an honest value is already a duplication.  On a FIFO network
\* the forgery is spliced into the peer's stream, after what the peer has
\* sent so far.  A forgery in a version p does not speak is dropped by the
\* version check like a loss, so the attacker speaks p's version (either
\* one while p has none).
Inject ==
    /\ faults < MaxFaults
    /\ faults' = faults + 1
    /\ \E p \in Parties :
       \E v \in IF version[p] = 0 THEN {2, 3} ELSE {version[p]} :
       \E m \in Forgeries(p, v) :
        /\ used' = used \cup ({m.gx, m.gy} \ {NoKey})
        /\ Emit(Peer(p), msgs, m)
    /\ UNCHANGED <<akeVars, version, ourInstanceTag, keys, msgState, sends,
                   installed, completed>>

\* A call of Send by the user of a conversation that has not panicked.
UserSend(p) ==
    \/ SendQuery(p) \/ SendData(p)
    \/ \E adv \in UserQueries : SendPlain(p, adv)

\* The transport delivers a message to a conversation that has not panicked.
Deliver ==
    \E p \in Parties \ panicked :
        \/ Receive(p) /\ UNCHANGED panicked
        \/ ReceivePanics(p)

Next ==
    \/ \E p \in Parties \ panicked : UserSend(p) /\ UNCHANGED panicked
    \/ Deliver
    \/ Lose /\ UNCHANGED panicked
    \/ Inject /\ UNCHANGED panicked

\* The transport eventually delivers what is in flight; users never have to
\* send anything.
Spec == Init /\ [][Next]_vars /\ WF_vars(Deliver)

-----------------------------------------------------------------------------
(* Properties.                                                             *)

\* Authentication of the exchange: whenever a party completes an AKE with
\* keys (our, their), the peer has installed the mirrored keys (their, our)
\* -- stale, duplicated or reordered DH-Key, Reveal-Sig and Sig messages of
\* an earlier run never make a party complete with keys the peer never had.
Agreement ==
    \A c \in completed : <<Peer(c[1]), c[3], c[2]>> \in installed

\* A query message, once sent, leads to both conversations being encrypted
\* (the round trip Query, DH-Commit, DH-Key, Reveal-Sig, Sig completes).
Completion ==
    (\E m \in msgs : m.type = "Query") ~> (\A p \in Parties : msgState[p] = "encrypted")

\* Recovery by retry: nothing retransmits a lost message, so after the
\* network's last loss the user's next Send -- a new query -- is the only
\* way out; once such a query is in flight, both conversations end up
\* encrypted, whatever state the loss left the AKE in.
RetryRecovers ==
    (faults = MaxFaults /\ \E m \in msgs : m.type = "Query")
        ~> (\A p \in Parties : msgState[p] = "encrypted")

\* Invariant 4 of the key schedule: an encrypted conversation has our
\* current DH key pair and their current public key.
EncryptedHasKeys ==
    \A p \in Parties :
        msgState[p] = "encrypted" =>
            /\ keys[p].ourCurrentDHKeys # NoKey
            /\ keys[p].theirCurrentDHPubKey # NoKey

\* The keys an encrypted conversation holds are those of an AKE that
\* completed (authenticated), never keys from an unauthenticated DH-Key.
EncryptedKeysAuthenticated ==
    \A p \in Parties :
        msgState[p] = "encrypted" /\ keys[p].ourCurrentDHKeys # NoKey =>
            <<p, keys[p].ourCurrentDHKeys, keys[p].theirCurrentDHPubKey>> \in completed

\* A data message sent by an encrypted conversation passes the version
\* check of conversation.receive whenever its receiver is encrypted too:
\* the two ends of a session never disagree on the protocol version.
DataVersionAccepted ==
    \A m \in msgs :
        m.type = "Data" /\ msgState[m.dst] = "encrypted" => m.ver = version[m.dst]

\* conversation.receive never panics: every conversation the library
\* creates can take every message the transport hands it.
NoPanic == panicked = {}

\* The secrets {our, their} of p's entries in a history of key installs.
SecretsOf(h, p) == {{t[2], t[3]} : t \in {u \in h : u[1] = p}}

AbsAke == INSTANCE AkeAbstract WITH
    Vals <- Vals,
    derived <- [p \in Parties |-> SecretsOf(installed, p)],
    established <- [p \in Parties |-> SecretsOf(completed, p)],
    encrypted <- {p \in Parties : msgState[p] = "encrypted"}

\* The AKE implements its abstract promise (AkeAbstract): every step that
\* makes a conversation encrypted completes an exchange on a secret the
\* peer already put in its key schedule, no step undoes encryption, and
\* key installs and completions are never forgotten -- whatever order
\* DH-Commit, DH-Key, Reveal-Sig, Sig and queries arrive in.
AkeRefinement == AbsAke!Spec
====
