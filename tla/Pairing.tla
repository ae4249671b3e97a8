------------------------------ MODULE Pairing ------------------------------
(***************************************************************************)
(* How terminal clients get into the interactive frontend of one harness:  *)
(* the local token, one-time pairing codes, challenge-signature logins and *)
(* what a client keeps on disk between runs (interactive/auth.rs,          *)
(* `authenticate` in interactive/connection.rs, client.rs, net.rs and      *)
(* main.rs of the terminal client).                                        *)
(*                                                                         *)
(* A process is one run of the terminal client; the processes share one    *)
(* state directory, the case in which they meet.  A key stands for an      *)
(* Ed25519 key pair: a signature verifies exactly when the key that signed *)
(* is the key that was registered.  Key ids are indices into `keyRecords`, *)
(* the harness's in-memory registry.  A harness id is fresh in every run   *)
(* of the harness, so the registry file is never read back; its write can  *)
(* still fail.                                                             *)
(***************************************************************************)
EXTENDS Naturals, Sequences, FiniteSets

CONSTANTS
    Procs,        \* runs of the terminal client
    MaxCodes,     \* pairing codes the harness mints
    MaxKeys,      \* launches with --pair, each generating a key
    MaxMishaps    \* connections lost, authentication timeouts and failed writes

ASSUME PairingAssumption ==
    /\ IsFiniteSet(Procs)
    /\ {MaxCodes, MaxKeys, MaxMishaps} \subseteq Nat

Codes == 1 .. MaxCodes
NoKey == 0

VARIABLES
    codes,       \* [Codes -> {"unminted", "fresh", "expired", "gone"}]
    keyRecords,  \* the authorized keys, by key id
    proc,        \* where each process is: off, dialing, auth, saveId, remember, on, fatal
    spec,        \* the AuthSpec in the connect target of each process
    request,     \* the client's authentication message in flight, per process
    reply,       \* the server's answer in flight, per process
    challenge,   \* key id of the pending challenge on the connection, or NoKey
    keyFile,     \* the stored private key, or NoKey
    idFile,      \* the stored key id, or NoKey
    known,       \* whether the known-hosts file names the harness
    keys,        \* keys generated so far
    mishaps,     \* lost connections, timeouts and failed writes so far
    faulty,      \* whether a write has failed (history)
    redeemed,    \* who authenticated with each code (history)
    paired,      \* the last key that completed a pairing (history)
    overlap      \* whether two processes were pairing at once (history)

pairingVars == <<codes, keyRecords, proc, spec, request, reply, challenge, keyFile, idFile,
                 known, keys, mishaps, faulty, redeemed, paired, overlap>>

server == <<codes, keyRecords, challenge, redeemed>>
disk == <<keyFile, idFile, known, paired>>
budget == <<mishaps, faulty>>

Mishap == mishaps < MaxMishaps /\ mishaps' = mishaps + 1
WriteFails == Mishap /\ faulty' = TRUE

Quiet == [kind |-> "none"]
LocalToken == [kind |-> "token", key |-> NoKey, id |-> NoKey, code |-> NoKey]
PairSpec(code, key) == [kind |-> "pair", key |-> key, id |-> NoKey, code |-> code]
KeySpec(key, id) == [kind |-> "key", key |-> key, id |-> id, code |-> NoKey]

PairingInit ==
    /\ codes = [c \in Codes |-> "unminted"]
    /\ keyRecords = <<>>
    /\ proc = [p \in Procs |-> "off"]
    /\ spec = [p \in Procs |-> LocalToken]
    /\ request = [p \in Procs |-> Quiet]
    /\ reply = [p \in Procs |-> Quiet]
    /\ challenge = [p \in Procs |-> NoKey]
    /\ keyFile = NoKey
    /\ idFile = NoKey
    /\ known = FALSE
    /\ keys = 0
    /\ mishaps = 0 /\ faulty = FALSE
    /\ redeemed = [c \in Codes |-> {}]
    /\ paired = NoKey
    /\ overlap = FALSE

----------------------------------------------------------------------------
(* The terminal client: resolving what to connect to. *)

Goto(p, where) == proc' = [proc EXCEPT ![p] = where]

\* target_from_run_info: the run file names the token file.
LaunchLocal(p) ==
    /\ proc[p] = "off"
    /\ Goto(p, "dialing")
    /\ spec' = [spec EXCEPT ![p] = LocalToken]
    /\ UNCHANGED <<server, disk, budget, request, reply, keys, overlap>>

\* resolve_remote without flags: stops the process unless the fingerprint is
\* known and both the key and its id are on disk.
LaunchKey(p) ==
    /\ proc[p] = "off"
    /\ known /\ keyFile # NoKey /\ idFile # NoKey
    /\ Goto(p, "dialing")
    /\ spec' = [spec EXCEPT ![p] = KeySpec(keyFile, idFile)]
    /\ UNCHANGED <<server, disk, budget, request, reply, keys, overlap>>

\* resolve_remote with --pair: a fresh key replaces the stored one before the
\* code is tried.  A failed write stops the process; what it leaves is the
\* old file or a truncated one, which does not load.
LaunchPair(p) ==
    /\ proc[p] = "off" /\ keys < MaxKeys
    /\ keys' = keys + 1
    /\ overlap' = (overlap \/ \E q \in Procs \ {p} :
          proc[q] \notin {"off", "fatal"} /\ spec[q].kind = "pair")
    /\ \/ /\ keyFile' = keys + 1
          /\ \E c \in Codes :
                /\ codes[c] # "unminted"
                /\ spec' = [spec EXCEPT ![p] = PairSpec(c, keys + 1)]
          /\ Goto(p, "dialing")
          /\ UNCHANGED budget
       \/ /\ WriteFails
          /\ \E left \in {keyFile, NoKey} : keyFile' = left
          /\ UNCHANGED <<spec, proc>>
    /\ UNCHANGED <<server, idFile, known, paired, request, reply>>

\* client::connect up to the hello, then the first message the spec calls for
\* (authenticate_local, pair, or the challenge request of login_with_key).
Dial(p) ==
    /\ proc[p] = "dialing"
    /\ Goto(p, "auth")
    /\ request' = [request EXCEPT ![p] =
          IF spec[p].kind = "key" THEN [kind |-> "challenge", id |-> spec[p].id]
          ELSE spec[p]]
    /\ reply' = [reply EXCEPT ![p] = Quiet]
    /\ challenge' = [challenge EXCEPT ![p] = NoKey]
    /\ UNCHANGED <<codes, keyRecords, redeemed, spec, disk, budget, keys, overlap>>

----------------------------------------------------------------------------
(* The harness: one authentication message on the connection of p. *)

Answer(p, message) ==
    /\ request' = [request EXCEPT ![p] = Quiet]
    /\ reply' = [reply EXCEPT ![p] = message]

AuthOk(id) == [kind |-> "ok", id |-> id]
AuthError == [kind |-> "error"]

Deny(p) == Answer(p, AuthError) /\ UNCHANGED <<keyRecords, challenge, redeemed>>

HandleToken(p) ==
    /\ request[p].kind = "token"
    /\ Answer(p, AuthOk(NoKey))
    /\ UNCHANGED <<server, budget>>

\* PairingCodes::redeem: the code is removed either way.
Redeem(c) == codes' = [codes EXCEPT ![c] = "gone"]

\* The code is redeemed before the key is registered.  AuthorizedKeys::add puts
\* the record in memory first, so it stays there when the save fails.
HandlePair(p) ==
    LET c == request[p].code IN
    /\ request[p].kind = "pair"
    /\ Redeem(c)
    /\ \/ /\ codes[c] # "fresh"
          /\ Deny(p) /\ UNCHANGED budget
       \/ /\ codes[c] = "fresh"
          /\ keyRecords' = Append(keyRecords, request[p].key)
          /\ \/ /\ Answer(p, AuthOk(Len(keyRecords) + 1))
                /\ redeemed' = [redeemed EXCEPT ![c] = @ \cup {request[p].key}]
                /\ UNCHANGED budget
             \/ /\ WriteFails
                /\ Answer(p, AuthError)
                /\ UNCHANGED redeemed
          /\ UNCHANGED challenge

HandleChallenge(p) ==
    LET id == request[p].id IN
    /\ request[p].kind = "challenge"
    /\ \/ id \notin DOMAIN keyRecords /\ Deny(p)
       \/ /\ id \in DOMAIN keyRecords
          /\ challenge' = [challenge EXCEPT ![p] = id]
          /\ Answer(p, [kind |-> "challenge"])
          /\ UNCHANGED <<keyRecords, redeemed>>
    /\ UNCHANGED <<codes, budget>>

\* The pending challenge is used up whatever the signature is worth.
HandleSignature(p) ==
    LET id == request[p].id
        valid == challenge[p] = id /\ keyRecords[id] = request[p].key
    IN
    /\ request[p].kind = "signature"
    /\ challenge' = [challenge EXCEPT ![p] = NoKey]
    /\ Answer(p, IF valid THEN AuthOk(id) ELSE AuthError)
    /\ UNCHANGED <<codes, keyRecords, redeemed, budget>>

Authenticate(p) ==
    /\ HandleToken(p) \/ HandlePair(p) \/ HandleChallenge(p) \/ HandleSignature(p)
    /\ UNCHANGED <<proc, spec, disk, keys, overlap>>

\* AUTH_TIMEOUT passes before the next message arrives: the client is denied
\* as if its credentials were wrong.
AuthTimeout(p) ==
    /\ request[p] # Quiet /\ Mishap
    /\ Deny(p)
    /\ UNCHANGED <<codes, proc, spec, disk, keys, faulty, overlap>>

----------------------------------------------------------------------------
(* The terminal client: the answer, and what it keeps. *)

\* login_with_key signs the challenge with the key of its spec.
ReceiveChallenge(p) ==
    /\ proc[p] = "auth" /\ reply[p].kind = "challenge"
    /\ request' = [request EXCEPT ![p] =
          [kind |-> "signature", id |-> spec[p].id, key |-> spec[p].key]]
    /\ reply' = [reply EXCEPT ![p] = Quiet]
    /\ UNCHANGED <<server, disk, budget, proc, spec, keys, overlap>>

\* A local client has nothing to keep; the others persist before the
\* connection counts as made.
ReceiveOk(p) ==
    /\ proc[p] = "auth" /\ reply[p].kind = "ok"
    /\ Goto(p, CASE spec[p].kind = "token" -> "on"
                 [] spec[p].kind = "pair" -> "saveId"
                 [] spec[p].kind = "key" -> "remember")
    /\ UNCHANGED <<server, disk, budget, request, reply, spec, keys, overlap>>

\* FrontendError::Auth is fatal: the connection task ends.
ReceiveError(p) ==
    /\ proc[p] = "auth" /\ reply[p].kind = "error"
    /\ Goto(p, "fatal")
    /\ UNCHANGED <<server, disk, budget, request, reply, spec, keys, overlap>>

\* Mutant: an id already on disk is kept.
StoredIdOnce(p) == IF idFile # NoKey THEN idFile ELSE reply[p].id

\* What save_key_id leaves in the key id file.
StoredId(p) == reply[p].id

\* save_key_id; an error is not an authentication error, so the task dials
\* again with the spec it had.
SaveKeyId(p) ==
    /\ proc[p] = "saveId"
    /\ \/ /\ idFile' = StoredId(p)
          /\ Goto(p, "remember")
          /\ UNCHANGED budget
       \/ /\ WriteFails
          /\ \E left \in {idFile, NoKey} : idFile' = left
          /\ Goto(p, "dialing")
    /\ UNCHANGED <<server, keyFile, known, paired, request,
                   reply, spec, keys, overlap>>

\* After a pairing the spec becomes a challenge-signature login.
SpecAfter(p) == KeySpec(spec[p].key, reply[p].id)

\* remember_host, the last thing that can fail before the connection is made.
RememberHost(p) ==
    /\ proc[p] = "remember"
    /\ \/ /\ known' = TRUE
          /\ spec' = [spec EXCEPT ![p] = SpecAfter(p)]
          /\ paired' = IF spec[p].kind = "pair"
                       THEN spec[p].key ELSE paired
          /\ Goto(p, "on")
          /\ UNCHANGED budget
       \/ /\ WriteFails
          /\ \E left \in {known, FALSE} : known' = left
          /\ Goto(p, "dialing")
          /\ UNCHANGED <<spec, paired>>
    /\ UNCHANGED <<server, keyFile, idFile, request, reply, keys, overlap>>

----------------------------------------------------------------------------
(* The environment. *)

\* The connection is lost; the task dials again.
Drop(p) ==
    /\ proc[p] \in {"auth", "on"} /\ Mishap
    /\ Goto(p, "dialing")
    /\ request' = [request EXCEPT ![p] = Quiet]
    /\ reply' = [reply EXCEPT ![p] = Quiet]
    /\ UNCHANGED <<server, disk, faulty, spec, keys, overlap>>

\* The user ends the process, or it has ended with a fatal error.
Quit(p) ==
    /\ proc[p] # "off"
    /\ Goto(p, "off")
    /\ request' = [request EXCEPT ![p] = Quiet]
    /\ reply' = [reply EXCEPT ![p] = Quiet]
    /\ UNCHANGED <<server, disk, budget, spec, keys, overlap>>

\* request_pairing_code from a connected client, or --pairing-code at startup.
Mint(c) ==
    /\ codes[c] = "unminted" /\ \A b \in 1 .. c - 1 : codes[b] # "unminted"
    /\ codes' = [codes EXCEPT ![c] = "fresh"]
    /\ UNCHANGED <<keyRecords, challenge, redeemed, disk, budget, proc, spec, request,
                   reply, keys, overlap>>

\* PAIRING_CODE_TTL passes.
Expire(c) ==
    /\ codes[c] = "fresh"
    /\ codes' = [codes EXCEPT ![c] = "expired"]
    /\ UNCHANGED <<keyRecords, challenge, redeemed, disk, budget, proc, spec, request,
                   reply, keys, overlap>>

PairingNext ==
    \/ \E p \in Procs :
          \/ LaunchLocal(p) \/ LaunchKey(p) \/ LaunchPair(p)
          \/ Dial(p) \/ Authenticate(p) \/ AuthTimeout(p)
          \/ ReceiveChallenge(p) \/ ReceiveOk(p) \/ ReceiveError(p)
          \/ SaveKeyId(p) \/ RememberHost(p)
          \/ Drop(p) \/ Quit(p)
    \/ \E c \in Codes : Mint(c) \/ Expire(c)

----------------------------------------------------------------------------
(* Properties. *)

\* "Redeeming removes the code, so each code authenticates at most one client"
\* (auth.rs:24), however attempts, expiries, timeouts and retries interleave;
\* and what a completed pairing leaves on disk is enough to come back: the host
\* is known and the stored key id names the stored key at the harness.
\* Conditions of the latter: the stored key is the one of the last completed
\* pairing (a later launch with --pair replaces it before its code is tried,
\* main.rs:118), no two processes paired at the same time (their key and id
\* files can then cross), and no write failed.
PairedOnceAndForAll ==
    /\ \A c \in Codes : Cardinality(redeemed[c]) <= 1
    /\ (paired # NoKey /\ keyFile = paired /\ ~overlap /\ ~faulty)
          => /\ known
             /\ idFile \in DOMAIN keyRecords
             /\ keyRecords[idFile] = keyFile
=============================================================================
