----------------------------- MODULE SmbConnector -----------------------------
(***************************************************************************)
(* native_smb/NativeSmbConnector: how a connection comes about.  NEGOTIATE, *)
(* rounds of SESSION_SETUP with the tokens of NtlmV2TokenProvider, signing  *)
(* and encryption as layers put around the transport, TREE_CONNECT with one *)
(* encrypted retry.  Every exchange may fail or be cancelled; any failure   *)
(* but the one that is retried ends the attempt.                            *)
(*                                                                         *)
(* The server is an honest one that accepts the user: it makes up its mind  *)
(* when it is asked.  Keys are what they are derived from: the number of    *)
(* challenges answered and, for SMB 3.1.1, the messages hashed so far.      *)
(***************************************************************************)
EXTENDS Naturals, Sequences

CONSTANTS
  Dialects,     \* dialects the server may choose of those offered
  MaxRounds     \* maxSessionSetupRounds

ASSUME DialectsAssumption == Dialects \subseteq {"2.0.2", "2.1", "3.0", "3.0.2",
                                                 "3.1.1"}
ASSUME RoundsAssumption == MaxRounds \in Nat \ {0}

VARIABLES
  config,       \* the policies and the kind of user
  at,           \* the step of connect() that comes next
  negotiated,   \* NegotiatedConnection
  round,        \* SESSION_SETUP rounds so far
  messageId,    \* the next message id
  hash,         \* preauthIntegrityHash: the messages that went into it
  base,         \* m_sessionBaseKey: the challenge it answers, 0: none
  session,      \* the last SessionSetupResponse
  layers,       \* what is around the transport, the innermost first
  server,       \* the server: challenges sent, hash, its session, its share
  log           \* history: each request, with its id and the layers around it

vars == <<config, at, negotiated, round, messageId, hash, base, session, layers,
          server, log>>

Policy == {"Disabled", "Preferred", "Required"}

\* Password and Guest differ in the user's name only.
Auth == {"named", "Anonymous", "CurrentUser"}

supportsHmacSha256Signing == {"2.0.2", "2.1"}
supportsAesCcmEncryption == {"3.0", "3.0.2"}

NoSession == [more |-> FALSE, kind |-> "none", encrypt |-> FALSE,
              signed |-> FALSE]

Ended == {"connected", "failed"}

-----------------------------------------------------------------------------
Init == /\ config \in [signing : Policy, encryption : Policy, auth : Auth]
        /\ at = "negotiate"
        /\ negotiated = [dialect |-> "none", signingRequired |-> FALSE,
                         encryptionSupported |-> FALSE]
        /\ round = 0 /\ messageId = 1
        /\ hash = <<>> /\ base = 0
        /\ session = NoSession
        /\ layers = <<>>
        /\ server = [challenges |-> 0, hash |-> <<>>, kind |-> "none",
                     encrypt |-> FALSE, share |-> "unknown"]
        /\ log = <<>>

Sends(what, id) ==
  log' = Append(log, [what |-> what, id |-> id, layers |-> layers])

Fail == at' = "failed"

\* Cancelled, no or no usable reply, refused, a token that makes no sense; a last
\* reply to SESSION_SETUP without a session id.
Fails ==
  /\ at \in {"negotiate", "setup", "next", "secure", "tree", "retry"}
  /\ Fail
  /\ UNCHANGED <<config, negotiated, round, messageId, hash, base, session,
                 layers, server, log>>

\* A request and its reply, as both sides hash them.
Request(id) == <<"request", id>>
Reply(id) == <<"reply", id>>

(* Negotiator::negotiate, and the policy check after it *)

NegotiatesEncryption(n) ==
  n.encryptionSupported /\ n.dialect \in supportsAesCcmEncryption

\* The capabilities of NEGOTIATE and SESSION_SETUP.
OffersEncryption == config.encryption # "Disabled"

\* The server offers encryption only to a client that does.
Negotiate ==
  /\ at = "negotiate"
  /\ \E dialect \in Dialects, requires, encrypts \in BOOLEAN :
       LET n == [dialect |-> dialect,
                 signingRequired |-> requires \/ config.signing = "Required",
                 encryptionSupported |->
                   encrypts /\ OffersEncryption]
           messages == IF dialect = "3.1.1" THEN <<Request(0), Reply(0)>> ELSE <<>>
       IN /\ negotiated' = n
          /\ hash' = messages
          /\ server' = [server EXCEPT !.hash = messages]
          /\ at' = IF config.encryption = "Required" /\ ~NegotiatesEncryption(n)
                   THEN "failed" ELSE "initial"
  /\ Sends("NEGOTIATE", 0)
  /\ UNCHANGED <<config, round, messageId, base, session, layers>>

(* The rounds *)

InitialToken ==
  /\ at = "initial"
  /\ at' = IF config.auth = "CurrentUser" THEN "failed" ELSE "setup"
  /\ UNCHANGED <<config, negotiated, round, messageId, hash, base, session,
                 layers, server, log>>

\* What the server may answer.  A named user is challenged before it is accepted,
\* or is let in as a guest; the reply that accepts a user may be signed, and is if
\* signing is required.
Answers ==
  {[more |-> TRUE, kind |-> "none", encrypt |-> FALSE, signed |-> FALSE]}
  \cup {a \in [more : {FALSE}, kind : {"user", "guest", "null"},
               encrypt : BOOLEAN, signed : BOOLEAN] :
          /\ a.kind = "user" => config.auth = "named" /\ server.challenges > 0
          /\ a.kind = "null" => config.auth = "Anonymous"
          /\ a.signed => a.kind = "user"
          /\ a.kind = "user" /\ negotiated.signingRequired => a.signed
          /\ a.encrypt => negotiated.encryptionSupported}

\* Mutant: the final reply is hashed, too.
HashedAll(id, answer) ==
  IF negotiated.dialect = "3.1.1" THEN hash \o <<Request(id), Reply(id)>>
  ELSE hash

\* The final reply is not part of the hash.
Hashed(id, answer) ==
  IF negotiated.dialect # "3.1.1" THEN hash
  ELSE IF answer.more THEN hash \o <<Request(id), Reply(id)>>
  ELSE Append(hash, Request(id))

\* The server hashes what it receives, and what it answers while it goes on.
ServerHashed(id, answer) ==
  IF negotiated.dialect # "3.1.1" THEN server.hash
  ELSE server.hash \o (IF answer.more THEN <<Request(id), Reply(id)>>
                       ELSE <<Request(id)>>)

SessionSetup ==
  /\ at = "setup"
  /\ \E answer \in Answers :
       /\ session' = answer
       /\ hash' = Hashed(messageId, answer)
       /\ server' = [server EXCEPT !.hash = ServerHashed(messageId, answer),
                                   !.challenges = IF answer.more THEN @ + 1 ELSE @,
                                   !.kind = answer.kind,
                                   !.encrypt = answer.encrypt]
       /\ at' = IF answer.more THEN "next" ELSE "secure"
  /\ Sends("SESSION_SETUP", messageId)
  /\ messageId' = messageId + 1
  /\ UNCHANGED <<config, negotiated, round, base, layers>>

LastRound == round + 1 = MaxRounds

\* Mutant: the last round ends the loop like any other.
NextTokenUnlimited ==
  /\ at = "next"
  /\ base' = IF config.auth = "Anonymous" THEN base ELSE server.challenges
  /\ round' = round + 1
  /\ at' = IF LastRound THEN "secure" ELSE "setup"
  /\ UNCHANGED <<config, negotiated, messageId, hash, session, layers, server,
                 log>>

\* The token answers the last challenge, and with it the key changes; then the
\* round limit is looked at.
NextToken ==
  /\ at = "next"
  /\ base' = IF config.auth = "Anonymous" THEN base ELSE server.challenges
  /\ round' = round + 1
  /\ at' = IF LastRound THEN "failed" ELSE "setup"
  /\ UNCHANGED <<config, negotiated, messageId, hash, session, layers, server,
                 log>>

(* Keys and layers *)

\* What a key is derived with: SMB 3.1.1 takes the hash, the dialects before it
\* fixed labels.
DerivationContext(dialect, messages) == IF dialect = "3.1.1" THEN messages ELSE <<>>

\* HMAC signs with the session key itself, CMAC with a key derived from it.
SigningKey(dialect, key, messages) ==
  [base |-> key, derived |-> dialect \notin supportsHmacSha256Signing,
   context |-> DerivationContext(dialect, messages)]

CanEncrypt == /\ NegotiatesEncryption(negotiated)
              /\ session.kind \notin {"guest", "null"}

ShouldSign ==
  /\ negotiated.signingRequired \/ config.signing # "Disabled"
  /\ session.kind \notin {"guest", "null"}

\* verifySmb2DirectTcpFrameSignature of the final reply.
SignatureMatches ==
  /\ session.signed
  /\ SigningKey(negotiated.dialect, base, hash)
       = SigningKey(negotiated.dialect, server.challenges, server.hash)

Verified == session.signed \/ negotiated.signingRequired => SignatureMatches

EncryptFirst == session.encrypt \/ config.encryption = "Required"

\* Mutant: nothing is encrypted before the share asks for it.
SecureUnencrypted ==
  /\ at = "secure"
  /\ ShouldSign => base # 0 /\ Verified
  /\ layers' = IF ShouldSign THEN <<"sign">> ELSE <<>>
  /\ at' = "tree"
  /\ UNCHANGED <<config, negotiated, round, messageId, hash, base, session,
                 server, log>>

\* Encryption is put around signing: a request is encrypted first, and the
\* encrypted frame is signed.
Secure ==
  /\ at = "secure"
  /\ EncryptFirst => CanEncrypt
  /\ ShouldSign \/ EncryptFirst => base # 0
  /\ ShouldSign => Verified
  /\ layers' = (IF ShouldSign THEN <<"sign">> ELSE <<>>)
               \o (IF EncryptFirst THEN <<"encrypt">> ELSE <<>>)
  /\ at' = "tree"
  /\ UNCHANGED <<config, negotiated, round, messageId, hash, base, session,
                 server, log>>

\* ... no encryption, no key, or a signature that is wrong.
SecureFails ==
  /\ at = "secure"
  /\ \/ EncryptFirst /\ ~CanEncrypt
     \/ (ShouldSign \/ EncryptFirst) /\ base = 0
     \/ ShouldSign /\ ~Verified
  /\ Fail
  /\ UNCHANGED <<config, negotiated, round, messageId, hash, base, session,
                 layers, server, log>>

(* TREE_CONNECT *)

\* A frame the server can read.  Signing an encrypted frame writes the signature
\* over the header of the encryption and the beginning of what is encrypted.
Understood(around) == around \in {<<>>, <<"sign">>, <<"encrypt">>}

Encrypted == "encrypt" \in {layers[i] : i \in 1..Len(layers)}

\* "flagged": the share says that it wants encryption, "denying": it refuses who
\* does not encrypt, "closed": it refuses the user.
Shares == {"plain", "flagged", "denying", "closed"}

Grants(share) == \/ share \in {"plain", "flagged"}
                 \/ share = "denying" /\ Encrypted

\* enableEncryption.
Encrypting == Append(layers, "encrypt")

\* The tree is connected; a share that wants encryption gets it from now on.
TreeConnected(share) ==
  IF share # "flagged" \/ Encrypted
  THEN at' = "connected" /\ UNCHANGED layers
  ELSE IF CanEncrypt /\ base # 0
  THEN at' = "connected" /\ layers' = Encrypting
  ELSE Fail /\ UNCHANGED layers

\* Mutant: an encrypted retry that is refused is retried.
TreeDeniedAgain ==
  /\ at' = "tree"
  /\ layers' = IF Encrypted THEN layers ELSE Encrypting

\* Refused: one more attempt with encryption, if there is none yet.
TreeDenied ==
  IF config.encryption = "Preferred" /\ CanEncrypt /\ ~Encrypted /\ base # 0
  THEN at' = "retry" /\ layers' = Encrypting
  ELSE Fail /\ UNCHANGED layers

TreeConnect ==
  /\ at \in {"tree", "retry"}
  /\ Understood(layers)
  /\ \E share \in IF at = "retry" THEN {server.share} ELSE Shares :
       /\ server' = [server EXCEPT !.share = share]
       /\ IF Grants(share) THEN TreeConnected(share) ELSE TreeDenied
  /\ Sends("TREE_CONNECT", messageId)
  /\ messageId' = messageId + 1
  /\ UNCHANGED <<config, negotiated, round, hash, base, session>>

\* The attempt is over; nothing follows in this model.
Over == at \in Ended /\ UNCHANGED vars

Connect == \/ Negotiate \/ InitialToken \/ SessionSetup \/ NextToken
           \/ Secure \/ SecureFails \/ TreeConnect \/ Fails

Next == Connect \/ Over

Spec == Init /\ [][Next]_vars

-----------------------------------------------------------------------------
(* Properties. *)

\* Client and server derive their signing keys on their own, from what each has
\* hashed and from the last challenge: for a user the server has accepted they
\* agree, whatever the number of rounds.
KeysAgree ==
  at = "secure" /\ session.kind = "user" =>
    SigningKey(negotiated.dialect, base, hash)
      = SigningKey(negotiated.dialect, server.challenges, server.hash)

\* connect() goes on to the share only with a session the server has granted, not
\* because the rounds are used up.
AuthenticatedBeforeUse ==
  at \in {"tree", "retry", "connected"} => ~session.more /\ server.kind # "none"

\* A connection is handed out only with the encryption that its own policy, the
\* session or the share requires, and the share is not even named in clear if
\* policy or session require it; with signing, if either side requires it, except
\* for guests and anonymous users.
PoliciesAreKept ==
  /\ at = "connected" =>
       /\ EncryptFirst \/ server.share \in {"flagged", "denying"} => Encrypted
       /\ negotiated.signingRequired /\ session.kind = "user" => layers[1] = "sign"
  /\ \A i \in 1..Len(log) :
       log[i].what = "TREE_CONNECT" /\ EncryptFirst =>
         log[i].layers \in {<<"encrypt">>, <<"sign", "encrypt">>}

\* Every request of the attempt has the id after the one before it, the retry too,
\* the session is handed an id not yet sent, and the server cannot make the
\* attempt go on for ever.
RequestsAreNumbered ==
  /\ \A i \in 1..Len(log) : log[i].id = i - 1
  /\ at = "connected" => messageId = Len(log)
  /\ Len(log) <= MaxRounds + 3

\* What the task list says of encryption (TASKS.md, T-122: supported for SMB3 where
\* the server requires or allows it): a frame that is encrypted reaches the server
\* in a form it can read.
EncryptedIsUnderstood == Encrypted => Understood(layers)
=============================================================================
