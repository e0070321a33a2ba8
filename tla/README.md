# TLA+ models of the otr3 Authenticated Key Exchange

This directory holds TLA+ models of the OTR AKE as implemented in this
repository (`src/context.go`, `src/send.go`, and the AKE tests in
`src/unnamed/part_000`), the TLC configurations that check them, and
`PROJECT.json`, which lists components, runs, mutants, the definition-to-source
map, findings and hazards.

## The system

A `conversation` (src/context.go:20-45) has five parts:

- the AKE scratch (`akeContext`: authState, our/their public values,
  encryptedGx/hashedGx, r, sigKey, instance tags);
- the shared `otrContext` (protocol version and Rand);
- the data-layer key schedule `keys`;
- `msgState`;
- the policies.

Two conversations talk over a transport that the library does not control.

| Part | Code | What it does |
|---|---|---|
| Version & Policy Resolver (C1) | `isQueryMessage` (context.go:83-87), `parseOTRQueryMessage`, `acceptOTRRequest` (tests at part_000:58-104), version check in `conversation.receive` (context.go:101-104) | Parses the versions a query advertises. Picks v3 if advertised and allowed, else v2, else errInvalidVersion. Rejects a message whose header version differs from `c.protocolVersion()`. |
| Wire Codec (C2) | byte-level MPI/DATA/header codec | Not modelled. Messages are records. |
| AKE Crypto (C3) | DH, hashes, MACs, signatures; reads of `Rand` | Abstracted: a DH value is a fresh integer. A short read of Rand is modelled where the code's tests meet one: `sendDHCommit`, the DH-Commit handler in None (part_000:706-716) and the DH-Key handler in AwaitingDHKey (646-659). Each returns an error and leaves the AKE as it was. Malformed-message parse errors are not modelled. |
| AKE State Machine (C4) | `receiveDHCommitMessage` … `receiveSigMessage` per authState (tests part_000:105-405), `receiveAKE` (407-630), `receiveQueryMessage` (23-56), `sendDHCommit` (send.go:40-56) | The 4×4 transition table: collision resolution, retransmission, ignore and abort paths. |
| Session Installer (C5) | key-schedule writes at DH-Key (part_000:264-279), Reveal-Sig (327-343, 590-603), Sig (616-630) | Writes the keys and flips msgState to encrypted. |
| Dispatch & Send | `conversation.receive` (context.go:91-118), `Conversation.Send` (send.go:8-28) | `receive` routes queries, data messages and AKE messages. `Send` returns a query while requireEncryption holds in plainText. It passes a typed message through otherwise, and emits a data message when encrypted. |
| Data messages, fragmentation | send.go:21-22, 30-38; context.go:109-112 | A data message is sent under the conversation's version. Its decryption on receipt is a TODO. `encode` and fragmentation are framing. |
| SMP | context.go:122-128, send.go:57-99 (tests) | Not modelled (see below). |

Only `sendDHCommit`, `receive`, `isQueryMessage` and `Send` have their code
under `src/`. For the handlers and the query parser, `src/` holds their
tests, which fix each transition's target state, reply and stored values.
The model follows those tests. Where a test says nothing, it follows spec.md;
those definitions are marked `spec_modelled` in the map. They are:

- the verification checks (`VerifyRevealSig`, `VerifySig`);
- the abort (`ResetAKE`) and the silent drop (`Ignore`);
- the hash order (`HashGx`);
- the digit scan of the query grammar;
- the abstract AKE.

## Module `OtrAke`

Per-party state is kept as functions over `Parties`:

| Variable | Code field |
|---|---|
| `authState` | `c.ake.state` |
| `ourPublicValue`, `theirPublicValue` | `c.ake.ourPublicValue`, `c.ake.theirPublicValue` |
| `hashedGx` | the g^x that `encryptedGx`/`hashedGx` commit to (one field for ours and theirs, as in the code) |
| `version` | `c.version` (0 = a nil `otrVersion`) |
| `ourInstanceTag` | `c.ourInstanceTag` |
| `keys` | `c.keys`: ourCurrentDHKeys, theirCurrentDHPubKey, ourCounter, ourKeyID, theirKeyID |
| `msgState` | `c.msgState` |
| `panicked` | the conversations whose `receive` has panicked |

Two further groups of variables:

- **Environment:** `msgs` (messages in flight), `nsent` (per-sender sequence numbers for a FIFO transport), `faults` (losses and duplications), `used` (values Rand has produced) and `sends` (Send calls).
- **History:** `installed` is every `<<p, our, their>>` written to p's key schedule. `completed` is the subset written by a completed AKE.

The crypto is abstracted in two ways:

- **DH values.** A public value is a fresh integer in `1..MaxDraws`, drawn from Rand. Its hash is ordered like the integer (`HashGx`). The values are chosen nondeterministically, so both collision orders are reached.
- **Messages.** A Reveal-Sig or Sig carries the pair `(gx, gy)` its MAC and signature were computed over. Verification is equality with the receiver's view. A message is therefore accepted exactly when an honest peer produced it for this run.

| Action | Code | What it models |
|---|---|---|
| `SendQuery(p)` | `Send` (send.go:8-15) | The requireEncryption branch in plainText returns a query advertising the allowed versions. |
| `SendPlain(p, adv)` | `Send` (send.go:8-20) | OTR is disabled, or the conversation is in plainText without requireEncryption: the user's text passes through. Here the text is a typed query from `UserQueries`. |
| `SendData(p)` | `Send` (send.go:21-22) | In msgState encrypted, the user's text goes out as a data message under `c.version`. |
| `Receive(p)` | `conversation.receive` (context.go:91-118) | Chooses a deliverable message and dispatches it (see below). A duplicating transport may keep the message for a later delivery. |
| `ReceivePanics(p)` | `conversation.receive` (context.go:101-102) | With a nil version, `c.protocolVersion()` is a call on a nil interface. The conversation panics and takes no further step. |
| `ReceiveQueryMessage` | `receiveQueryMessage` | `AcceptOTRRequest` picks the version, which is stored, then `SendDHCommit`, in any authState. |
| `SendDHCommit` | `sendDHCommit` (send.go:40-56) | Draws a new instance tag. Then either a short read of Rand fails `dhCommitMessage` after the tag has changed, or a fresh x is drawn, the state becomes AwaitingDHKey and `ourCurrentDHKeys` is cleared. |
| `ReceiveAKE` | `receiveAKE` | One disjunct per cell of the table, plus the error and ignore paths listed below. |
| `Lose` | transport | The transport drops a message. |

`Receive` dispatches as follows:

- A query goes to `ReceiveQueryMessage`.
- Anything else is version-checked (`AcceptsVersion`).
- A data message that passes is left alone, since the msgData case is a TODO.
- An AKE message that passes goes to `ReceiveAKE`.

`ReceiveAKE` has one disjunct per cell of the table:

- DH-Commit at None, at AwaitingDHKey (ours higher, theirs higher), at AwaitingRevealSig and at AwaitingSig;
- DH-Key at AwaitingDHKey and at AwaitingSig;
- Reveal-Sig;
- Sig.

Its error and ignore paths are disjuncts of their own:

- `ReceiveBadRevealSig` (part_000:345-350) and `ReceiveBadSig` (675-680):
  a Reveal-Sig or Sig that fails verification. Both go through `AbortAKE`,
  which resets the AKE to None and returns an error. That reset comes from
  the spec (§7), since the code under `src/` does not show it.
- `ReceiveDHCommitShortRead` and `ReceiveDHKeyShortRead`: Rand fails while
  the answer is built. The message is consumed and nothing else changes.
- `IgnoredDHKey` (216-233), `IgnoredOtherDHKey` (301-313),
  `IgnoredRevealSig` (352-371) and `IgnoredSig` (386-405): the cells that
  ignore a message.

`Next` is one of four steps:

- a user's `Send` (`UserSend`);
- a delivery (`Deliver`: `Receive` or `ReceivePanics`);
- a loss;
- an attacker's forgery (`Inject`).

A conversation that has panicked takes no further step. Constants select the
transport's behaviour:

- `Ordered`: FIFO per direction, via sequence numbers.
- `Lossy`: the transport may drop messages.
- `Duplicating`: the transport may deliver a message more than once.

- `Injecting`: the kinds of message an attacker on the network forges
  (`Forgeries`). These are a DH-Commit or DH-Key carrying a fresh public value
  of the attacker's own, and a "Header": two bytes holding only the protocol
  version. The OTR AKE authenticates neither DH message. The attacker cannot
  forge a Reveal-Sig or Sig, because they are signed with the peer's key. A
  forgery claims to come from the receiver's peer. On a FIFO network it is
  spliced into the peer's stream. It is in the receiver's version, because
  any other version is dropped by the version check just like a loss.

Losses, duplications and forgeries share the budget `MaxFaults`. On a
reordering transport, identical messages are one element of the set.
`ReceivePanics` has two causes:

- a conversation with a nil version receives a non-query message;
- a conversation receives a Header in its own version. `receive` drops the
  `ok` result of `extractShort`, passes the version check, and indexes
  `message[2]` out of range.

## Module `QueryParse`

This module holds the Version & Policy Resolver as pure operators, and
`OtrAke` extends it. A message is a sequence of one-character strings.

- `IsQueryMessage` is `isQueryMessage`: the message starts with `?OTR`.
- `ParseOTRQueryMessage` reads a `?` right after the marker as v1. A
  following `v` opens the digit list.
- The RECURSIVE `VersionDigits` scans that list up to the first non-digit.
- `AcceptOTRRequest` is `acceptOTRRequest` over the set of advertised
  versions.
- An ASSUME checks the seven vectors of `Test_parseOTRQueryMessage`
  (part_000:58-73). TLC evaluates it in every run.

`parseOTRQueryMessage` itself is not under `src/`: the module reproduces the
behaviour its tests fix. No run checks these operators on their own, because
a comparison with a second grammar written for the model would only compare
the model with itself. `MC_OtrAke` takes its typed queries
(`MCTypedQueries`) from the parser: the user types `?OTR?` and `?OTRv2?`.

## Module `AkeAbstract` and the refinement

`AkeAbstract` states what the AKE promises, without messages:

- a conversation **derives** secrets (the unordered pair of public values
  that fixes g^xy);
- it **establishes** one, and becomes encrypted, only when its peer has
  already derived it;
- nothing is taken back.

`OtrAke` instantiates it with a refinement mapping:

| Abstract | Concrete |
|---|---|
| `derived[p]` | `{our, their}` of p's entries in `installed` |
| `established[p]` | `{our, their}` of p's entries in `completed` |
| `encrypted` | the conversations whose `msgState` is encrypted |

`AkeRefinement == AbsAke!Spec` is checked as a PROPERTY. Every step of
`OtrAke` must therefore be one of:

- a `Derive`, which installs keys;
- an `Establish`, which completes on a secret the peer holds and turns the
  conversation encrypted;
- a stutter of the abstract variables.

## Properties

- **Agreement** (safety, `unreliable`, `rand_failures`, `versions`): every AKE a party
  completes with keys `(our, their)` is mirrored by the peer having
  installed `(their, our)`. This must hold despite:
  - stale, duplicated and reordered DH-Key, Reveal-Sig and Sig messages of
    earlier runs;
  - collision restarts;
  - Rand failures.
- **AkeRefinement** (`reliable`, `versions`, `retry`): the refinement above.
- **Completion** (liveness, `reliable`): once a query is in flight, both
  conversations eventually become encrypted.
- **RetryRecovers** (liveness, `retry`): after the transport's last loss, a
  query in flight leads to both conversations being encrypted. Nothing in the
  code retransmits, so this asks whether the user's retry repairs whatever a
  loss left.
- **EncryptedHasKeys**: an encrypted conversation has our and their current
  DH keys. This is spec invariant 4.
- **EncryptedKeysAuthenticated**: the keys an encrypted conversation holds
  come from a completed AKE.
- **DataVersionAccepted**: a data message in flight to an encrypted
  conversation carries that conversation's version, so `receive` accepts it.
- **NoPanic**: no conversation's `receive` panics, whatever the network or
  an attacker hands it.
- **TypeOK** (`reliable`): the type invariant. It bounds `ourCounter`, `ourKeyID` and
  `theirKeyID` to `0..1`, since the spec says all three are 1 after any AKE.

## Runs

| Run | cfg | Expect | Setting | Shows |
|---|---|---|---|---|
| reliable | MC_reliable.cfg | pass | A requires encryption, FIFO, no faults, 2 Sends | Every query leads to both conversations being encrypted, a second query included, and the AKE refines `AkeAbstract`. 5,903 states. |
| unreliable | MC_unreliable.cfg | pass | both require, 2 Sends each, loss, duplication, reordering and forged DH-Commit, DH-Key and Header messages with 2 faults; A and B symmetric | Agreement under every interleaving, against an active attacker. About 3.4M states up to symmetry, about 2 min 15 s. |
| rand_failures | MC_rand_failures.cfg | pass | as `unreliable`, with no attacker, but every read of Rand may come up short | Agreement through short reads in `sendDHCommit`, the DH-Commit handler and the DH-Key handler, combined with loss, duplication and reordering. About 2.2M states, under 2 min. |
| versions | MC_versions.cfg | pass | A requires; B has a nil version and its user types `?OTR?`/`?OTRv2?` | Agreement and refinement hold through version rejections, `errInvalidVersion`, data messages and re-negotiation. 267k states. |
| retry | MC_retry.cfg | pass | A requires, 3 Sends, FIFO, up to 2 losses | A query sent after the last loss always completes the AKE, and re-queries after losses refine the abstract AKE. 941k states, about 2 min. |
| collision_stall | MC_collision.cfg | violation | both require, 1 Send each, FIFO | Completion fails (finding 1). |
| requery_keys | MC_requery_keys.cfg | violation | both require, 1 Send each | EncryptedHasKeys fails (finding 2). |
| rekey_unauth | MC_rekey_unauth.cfg | violation | as above | EncryptedKeysAuthenticated fails (finding 3). |
| requery_stall | MC_requery_stall.cfg | violation | as `reliable`, but 3 Sends | Completion fails (finding 4). 127k states. |
| short_header | MC_short_header.cfg | violation | both at v3, FIFO, one forged Header | NoPanic fails in two steps (finding 5). |
| version_switch | MC_version_switch.cfg | violation | as in versions, both created at v3 | DataVersionAccepted fails (finding 6). |
| nil_version | MC_nil_version.cfg | violation | A has a nil version and requires encryption | NoPanic fails in three steps (finding 7). |

Between them, the passing runs fire every action and every disjunct:

- `reliable`, `versions` and `retry` cover the FIFO branches.
- `versions` also covers `SendData`, `ReceivePanics`, the data branch, and
  the rejected-version and no-version branches.
- `unreliable` covers reordering, duplication, both collision orders,
  failed verification, the ignored cells, `Inject` and the Header panic.
- `rand_failures` covers the three short reads of Rand.

`unreliable` and `rand_failures` are symmetric in A and B: the two have the same policies,
version and tag, and no definition tells them apart otherwise. So it is
checked under `SYMMETRY MCPartySymmetry`, which is sound for their
invariants.

`unreliable` and `rand_failures` are not checked for refinement. Refinement checking slows TLC to
about 0.5M states a minute, so those runs would exceed five minutes.

### Bounds

- `MaxDraws` (4–6) and `MaxMsgs` (9–12) never bind in the FIFO runs. They
  only keep the state space finite.
- `MaxSends = 2` lets a party query again after an AKE. That reaches the
  re-keying and version cases. With 2 Sends, `reliable` completes every
  AKE. A third Send before the AKE completes is what stalls it
  (`requery_stall`). So `reliable` stays at 2 Sends, where Completion
  holds, and the third Send is the violation run's own bound.
- `retry` has 3 Sends, so that a retry can follow each of two losses.
- `MaxFaults = 2` lets a stale message of an earlier run meet a newer run.
  In `unreliable` it also lets a forgery meet a loss, a duplicate, or a
  second forgery.
- Two tags let `sendDHCommit` change the tag. `unreliable` uses one tag,
  which keeps it small. Nothing under `src/` reads the tag.

### Fairness

`Spec` asserts weak fairness of `Deliver` only: a transport that delivers
eventually delivers what is in flight. The following are not required:

- Users never have to call `Send`.
- `Lose` and `Inject` are not fair.
- Nothing retransmits on its own. The code has no timers, and the spec says
  "retransmission is driven purely by receipt of duplicate peer messages".

So Completion is checked only where nothing is lost. Under loss,
`RetryRecovers` asks only about a query that the user chose to send after
the last loss.

Every AKE cfg sets `CHECK_DEADLOCK FALSE`. The library is reactive: with no
message in flight and no Send left, nothing can happen.

### Mutants

| Mutant | Bug it stands for | Breaks |
|---|---|---|
| `InstallDHKeysIncrementing` | the counter is increased, not set | TypeOK |
| `ReceiveSigStaysPlain` | the Sig handler forgets to flip msgState | Completion |
| `ReceiveSigUnverified` | the Sig's MAC and signature are unchecked | Agreement (`unreliable`, `rand_failures`), AkeRefinement (`retry`) |
| `ReceiveDHKeyInstallsStale` | keys are written from `theirPublicValue` before `g^y` is stored | Agreement (`versions`), AkeRefinement (`reliable`) |
| `ReceiveQueryMessageDropsSession` | a query resets an encrypted session to plainText | AkeRefinement (`versions`) |
| `ReceiveQueryMessageOnlyAtNone` | a query restarts the AKE only from None | RetryRecovers |

## Findings

1. **Collision stall** (`collision_stall`, part_000:191).
   - As tested, the ours-higher branch resends the DH-Commit and moves to
     AwaitingRevealSig. The OTR protocol stays in AwaitingDHKey instead
     (spec §9).
   - The peer answers the resent commit with a DH-Key, but
     AwaitingRevealSig ignores DH-Keys.
   - The trace ends with both parties in AwaitingRevealSig and nothing in
     flight.
2. **Re-query clears the keys of an encrypted session** (`requery_keys`,
   send.go:55).
   - A responder is encrypted while its peer still waits for the Sig. The
     peer is plainText, so its `Send` returns a query.
   - `sendDHCommit` then clears `ourCurrentDHKeys` while `msgState` stays
     encrypted.
3. **Unauthenticated keys installed** (`rekey_unauth`, part_000:264). The
   initiator writes the keys on receipt of the DH-Key, before anything is
   authenticated.
4. **Sending before the AKE completes leaves the session half-encrypted**
   (`requery_stall`, send.go:15). The transport is reliable FIFO, and only
   A requires encryption.
   - A's user calls Send three times before the AKE completes. Each call
     returns a query, and each query restarts B's AKE.
   - A, in AwaitingRevealSig, answers B's second DH-Commit by resending its
     DH-Key with the same g^y. B's third run, in AwaitingDHKey, takes that
     DH-Key and sends a Reveal-Sig over (its new g^x, A's old g^y).
   - A completes the second run and is encrypted. Its Sig then reaches B's
     third run and fails verification (part_000:632-680), so B aborts.
   - B's Reveal-Sig fails at A (part_000:345), so A's new run aborts too.
   - A is encrypted and never queries again. B does not require
     encryption. B stays plainText for good.
5. **Two bytes crash `receive`** (`short_header`, context.go:106).
   - `receive` discards the `ok` result of `extractShort` and indexes
     `message[2]`.
   - Anyone can send a message of two bytes, 0x00 0x03, to a v3
     conversation. It passes the version check, then the index panics.
   - The spec says a short buffer yields `errInvalidOTRMessage` (§4.2), and
     that the state machine must stay safe against adversarial inputs.
6. **A typed query switches the version of an encrypted session**
   (`version_switch`, context.go:102).
   - A, encrypted at v3, takes B's typed `?OTRv2?` and moves to v2.
   - B stays encrypted at v3.
   - B's v3 data messages are rejected with `errWrongProtocolVersion`.
7. **A nil version panics before it can be adopted** (`nil_version`,
   context.go:102).
   - The tests create conversations with `newConversation(nil, …)`.
   - The spec and the test at part_000:428-439 say that in state None with
     the version unset, the wire version is adopted.
   - But `receive` calls `c.protocolVersion()` on the nil interface first.
     A panics on B's DH-Commit.

## Not modelled, and why

- **Wire codec, hashing, MAC, DSA, AES:** byte-level detail below the
  abstraction.
- **SMP:** `receiveSMPMessage` is never called, because the msgData case of
  `receive` is a TODO. The SMP tests check big-number parameter generation.
- **`encode` and fragmentation:** framing of a data message. `fragment` is
  not under `src/`.
- **Send in msgState finished:** nothing under `src/` sets finished, so the
  branch is unreachable.
- **Instance-tag filtering on receipt:** a TODO (context.go:98-99). Messages
  carry no receiver tag.
- **Messages of fewer than two bytes:** `extractShort`, which reads the
  version, is not under `src/`. Only the two-byte Header, whose version
  `receive` does read, is modelled.
- **Reordering and liveness:** over a reordering transport, a Reveal-Sig
  that overtakes its DH-Commit aborts the AKE, and the peer waits in
  AwaitingSig (see the hazards). Completion is checked over FIFO transports
  only. The reordering run checks Agreement, which the abort does not
  break.
- **An attacker replaying honest values:** replaying an honest value is
  duplication, which is modelled. Reflecting a party's own g^x back at it
  would make the two hashes of the collision rule equal. That case is
  decided in code outside `src/`.
- **The dummy `conversation.send` and `newAKE`:** they change no state.

## Plan for later work

1. A pass run over a larger instance: both users query, 3 Sends, with loss.
   It would need the collision and re-query stalls fixed first. Until then
   it would only repeat findings 1 and 4.
