-------------------------- MODULE SmbConnectorProofs --------------------------
(***************************************************************************)
(* The invariants of SmbConnector, for any dialects and any limit of the    *)
(* rounds.  None of them is inductive: Inv adds what connect() knows at     *)
(* each of its steps.                                                       *)
(***************************************************************************)
EXTENDS SmbConnector, SequenceTheorems, TLAPS

\* Where a set-up may be.
Steps == {"negotiate", "initial", "setup", "next", "secure", "tree", "retry",
          "connected", "failed"}

\* The layers around a message.
Around == {<<>>, <<"sign">>, <<"encrypt">>, <<"sign", "encrypt">>}

\* Messages of the handshake, as the hash counts them.
Message == {"request", "reply"} \X Nat

\* Entries of the log.
Entry == [what : {"NEGOTIATE", "SESSION_SETUP", "TREE_CONNECT"}, id : Nat,
          layers : Around]

\* Kinds of a session.
Kind == {"none", "user", "guest", "null"}

\* The types of the state.
Typed ==
  /\ config \in [signing : Policy, encryption : Policy, auth : Auth]
  /\ at \in Steps
  /\ negotiated \in [dialect : Dialects \cup {"none"}, signingRequired : BOOLEAN,
                     encryptionSupported : BOOLEAN]
  /\ round \in Nat /\ messageId \in Nat /\ base \in Nat
  /\ hash \in Seq(Message)
  /\ session \in [more : BOOLEAN, kind : Kind, encrypt : BOOLEAN,
                  signed : BOOLEAN]
  /\ layers \in Around
  /\ server \in [challenges : Nat, hash : Seq(Message), kind : Kind,
                 encrypt : BOOLEAN, share : Shares \cup {"unknown"}]
  /\ log \in Seq(Entry)

\* Both sides have hashed the same messages, and between two rounds the key is
\* that of the last challenge.
KeysInv ==
  /\ hash = server.hash
  /\ at \notin {"next", "failed"} /\ config.auth # "Anonymous" =>
       base = server.challenges
  /\ session.kind = "user" => config.auth = "named"

\* From the moment the rounds are over there is a session.
SessionInv ==
  at \in {"secure", "tree", "retry", "connected"} =>
    ~session.more /\ server.kind # "none"

\* How many requests have been sent when a step is reached.
CountInv ==
  /\ at = "negotiate" => Len(log) = 0 /\ messageId = 1 /\ round = 0
  /\ at = "initial" => Len(log) = 1 /\ messageId = 1 /\ round = 0
  /\ at = "setup" => Len(log) = round + 1 /\ round < MaxRounds
  /\ at \in {"next", "secure", "tree"} => Len(log) = round + 2 /\ round < MaxRounds
  /\ at = "retry" => Len(log) = round + 3 /\ round < MaxRounds
  /\ at \notin {"negotiate", "failed"} => messageId = Len(log)
  /\ Len(log) <= MaxRounds + 3

\* Messages are numbered from zero without a gap.
NumbersInv == \A i \in 1..Len(log) : log[i].id = i - 1

\* Layers are put around the transport once there is a session, encryption at once
\* if it is required.
LayersInv ==
  /\ at \in {"negotiate", "initial", "setup", "next", "secure"} => layers = <<>>
  /\ at \in {"tree", "retry", "connected"} =>
       /\ EncryptFirst => Encrypted
       /\ negotiated.signingRequired /\ session.kind = "user" =>
            layers \in {<<"sign">>, <<"sign", "encrypt">>}
  /\ at = "retry" => Encrypted
  /\ at = "connected" =>
       (server.share \in {"flagged", "denying"} => Encrypted)

\* The share is named only after that.
NamedInv ==
  \A i \in 1..Len(log) : log[i].what = "TREE_CONNECT" =>
    /\ at \in {"tree", "retry", "connected", "failed"}
    /\ EncryptFirst => log[i].layers \in {<<"encrypt">>, <<"sign", "encrypt">>}

\* The inductive invariant.
Inv == /\ Typed /\ KeysInv /\ SessionInv /\ CountInv /\ NumbersInv
       /\ LayersInv /\ NamedInv

-----------------------------------------------------------------------------
\* Being encrypted, as a matter of which layers there are.
LEMMA EncryptedLayers ==
  ASSUME layers \in Around
  PROVE  Encrypted <=> layers \in {<<"encrypt">>, <<"sign", "encrypt">>}
BY DEF Around, Encrypted

\* The same of the next state.
LEMMA EncryptedLayersNext ==
  ASSUME layers' \in Around
  PROVE  Encrypted' <=> layers' \in {<<"encrypt">>, <<"sign", "encrypt">>}
BY DEF Around, Encrypted

\* The layers of a connection that both signs and encrypts.
LEMMA BothLayers ==
  Append(<<"sign">>, "encrypt") = <<"sign", "encrypt">>
<1> DEFINE Layer == {"sign", "encrypt"}
           s == Append(<<"sign">>, "encrypt")
           t == <<"sign", "encrypt">>
<1>1. s \in Seq(Layer)
  OBVIOUS
<1>2. t \in Seq(Layer)
  OBVIOUS
<1>3. Len(s) = 2 /\ Len(t) = 2
  OBVIOUS
<1>4. s[1] = "sign" /\ s[2] = "encrypt" /\ t[1] = "sign" /\ t[2] = "encrypt"
  OBVIOUS
<1>5. \A i \in 1..2 : i = 1 \/ i = 2
  OBVIOUS
<1> HIDE DEF s, t, Layer
<1>6. \A i \in 1..Len(s) : s[i] = t[i]
  BY <1>3, <1>4, <1>5
<1>7. s = t
  BY ONLY <1>1, <1>2, <1>3, <1>6, SeqEqual
<1> QED
  BY <1>7 DEF s, t

\* enableEncryption, where there is none yet, keeps what there is.
LEMMA EncryptingLayers ==
  ASSUME layers \in Around, ~Encrypted
  PROVE  /\ Encrypting \in {<<"encrypt">>, <<"sign", "encrypt">>}
         /\ layers = <<"sign">> => Encrypting = <<"sign", "encrypt">>
<1>1. layers \in {<<>>, <<"sign">>}
  BY EncryptedLayers DEF Around
<1>2. Append(<<>>, "encrypt") = <<"encrypt">>
  OBVIOUS
<1>3. <<>> # <<"sign">>
  OBVIOUS
<1> QED
  BY <1>1, <1>2, <1>3, BothLayers DEF Encrypting

\* Client and server hash a round alike.
LEMMA HashedAlike ==
  ASSUME NEW id \in Nat, NEW answer, hash \in Seq(Message), hash = server.hash
  PROVE  /\ Hashed(id, answer) = ServerHashed(id, answer)
         /\ Hashed(id, answer) \in Seq(Message)
<1>1. Request(id) \in Message /\ Reply(id) \in Message
  BY DEF Request, Reply, Message
<1>2. Append(hash, Request(id)) = hash \o <<Request(id)>>
  BY <1>1
<1>3. /\ Append(hash, Request(id)) \in Seq(Message)
      /\ hash \o <<Request(id), Reply(id)>> \in Seq(Message)
  BY <1>1
<1> QED
  BY <1>2, <1>3 DEF Hashed, ServerHashed

\* A request that is sent is the last of the log.
LEMMA Sent ==
  ASSUME NEW what \in {"NEGOTIATE", "SESSION_SETUP", "TREE_CONNECT"},
         NEW id \in Nat, log \in Seq(Entry), layers \in Around, Sends(what, id)
  PROVE  /\ log' \in Seq(Entry)
         /\ Len(log') = Len(log) + 1
         /\ \A i \in 1..Len(log) : log'[i] = log[i]
         /\ log'[Len(log) + 1] = [what |-> what, id |-> id, layers |-> layers]
BY DEF Sends, Entry

\* It holds at the beginning,
LEMMA InvInit == Init => Inv
<1> SUFFICES ASSUME Init PROVE Inv
  OBVIOUS
<1>1. Typed
  BY DEF Init, Typed, Policy, Auth, Steps, Kind, Shares, NoSession, Around
<1>2. KeysInv /\ SessionInv
  BY DEF Init, KeysInv, SessionInv, NoSession
<1>3. CountInv /\ NumbersInv
  BY RoundsAssumption DEF Init, CountInv, NumbersInv
<1>4. LayersInv /\ NamedInv
  BY DEF Init, LayersInv, NamedInv
<1> QED
  BY <1>1, <1>2, <1>3, <1>4 DEF Inv

\* A request extends the numbering.
LEMMA SentIsNumbered ==
  ASSUME Inv, NEW what \in {"NEGOTIATE", "SESSION_SETUP", "TREE_CONNECT"},
         Sends(what, Len(log))
  PROVE  NumbersInv'
<1> DEFINE n == Len(log)
<1>0. log \in Seq(Entry) /\ layers \in Around
  BY DEF Inv, Typed
<1>1. n \in Nat
  BY <1>0
<1>2. /\ Len(log') = n + 1
      /\ \A i \in 1..n : log'[i] = log[i]
      /\ log'[n + 1].id = n
  <2>1. /\ Len(log') = n + 1
        /\ \A i \in 1..n : log'[i] = log[i]
        /\ log'[n + 1] = [what |-> what, id |-> n, layers |-> layers]
    BY <1>0, <1>1, Sent
  <2> QED
    BY <2>1
<1>3. \A i \in 1..n : log[i].id = i - 1
  BY DEF Inv, NumbersInv
<1> HIDE DEF n
<1> QED
  BY <1>1, <1>2, <1>3, SMTT(30) DEF NumbersInv

\* A request that does not name the share leaves it unnamed.
LEMMA SentBeforeTree ==
  ASSUME Inv, NEW what \in {"NEGOTIATE", "SESSION_SETUP"}, NEW id \in Nat,
         Sends(what, id), at \in {"negotiate", "setup"}
  PROVE  NamedInv'
<1> DEFINE n == Len(log)
<1>0. log \in Seq(Entry) /\ layers \in Around
  BY DEF Inv, Typed
<1>1. n \in Nat
  BY <1>0
<1>2. /\ Len(log') = n + 1
      /\ \A i \in 1..n : log'[i] = log[i]
      /\ log'[n + 1].what # "TREE_CONNECT"
  <2>1. /\ Len(log') = n + 1
        /\ \A i \in 1..n : log'[i] = log[i]
        /\ log'[n + 1] = [what |-> what, id |-> id, layers |-> layers]
    BY <1>0, <1>1, Sent
  <2> QED
    BY <2>1
<1>3. \A i \in 1..n : log[i].what # "TREE_CONNECT"
  BY DEF Inv, NamedInv
<1> HIDE DEF n
<1> QED
  BY <1>1, <1>2, <1>3 DEF NamedInv

\* and is kept by a negotiation,
LEMMA NegotiateKeepsInv == Inv /\ Negotiate => Inv'
<1> SUFFICES ASSUME Inv, Negotiate PROVE Inv'
  OBVIOUS
<1> USE DEF Inv
<1>1. Sends("NEGOTIATE", 0) /\ Len(log) = 0 /\ Len(log') = 1 /\ log' \in Seq(Entry)
  <2>1. Sends("NEGOTIATE", 0) /\ Len(log) = 0
    BY DEF Negotiate, CountInv
  <2>2. log \in Seq(Entry) /\ layers \in Around
    BY DEF Typed
  <2>3. log' \in Seq(Entry) /\ Len(log') = Len(log) + 1
    BY ONLY 0 \in Nat, "NEGOTIATE" \in {"NEGOTIATE", "SESSION_SETUP", "TREE_CONNECT"},
            <2>1, <2>2, Sent
  <2> QED
    BY <2>1, <2>3
<1>2. PICK dialect \in Dialects, requires \in BOOLEAN, encrypts \in BOOLEAN :
        /\ negotiated' = [dialect |-> dialect,
                          signingRequired |-> requires \/ config.signing = "Required",
                          encryptionSupported |-> encrypts /\ OffersEncryption]
        /\ hash' = IF dialect = "3.1.1" THEN <<Request(0), Reply(0)>> ELSE <<>>
        /\ server' = [server EXCEPT !.hash = hash']
        /\ at' \in {"failed", "initial"}
  BY DEF Negotiate
<1>3. Request(0) \in Message /\ Reply(0) \in Message
  BY DEF Request, Reply, Message
<1>4. hash' \in Seq(Message)
  BY <1>2, <1>3
<1>5. server' \in [challenges : Nat, hash : Seq(Message), kind : Kind,
                   encrypt : BOOLEAN, share : Shares \cup {"unknown"}]
  BY <1>2, <1>4 DEF Typed
<1>6. Typed'
  BY <1>1, <1>2, <1>4, <1>5 DEF Negotiate, Typed, Steps, OffersEncryption
<1>7. KeysInv'
  BY <1>2 DEF Negotiate, KeysInv, Typed
<1>8. SessionInv'
  BY <1>2 DEF SessionInv
<1>9. CountInv'
  BY <1>1, <1>2, RoundsAssumption DEF Negotiate, CountInv
<1>10. NumbersInv'
  BY <1>1, SentIsNumbered
<1>11. LayersInv'
  BY <1>2 DEF Negotiate, LayersInv
<1>12. NamedInv'
  BY <1>1, SentBeforeTree DEF Negotiate
<1> QED
  BY <1>6, <1>7, <1>8, <1>9, <1>10, <1>11, <1>12

\* a round of authentication,
LEMMA SessionSetupKeepsInv == Inv /\ SessionSetup => Inv'
<1> SUFFICES ASSUME Inv, SessionSetup PROVE Inv'
  OBVIOUS
<1> USE DEF Inv
<1>1. /\ Sends("SESSION_SETUP", Len(log)) /\ messageId = Len(log)
      /\ Len(log') = Len(log) + 1 /\ log' \in Seq(Entry) /\ Len(log) \in Nat
  BY Sent DEF SessionSetup, CountInv, Typed
<1>2. PICK answer \in Answers :
        /\ session' = answer
        /\ hash' = Hashed(messageId, answer)
        /\ server' = [server EXCEPT !.hash = ServerHashed(messageId, answer),
                        !.challenges = IF answer.more THEN @ + 1 ELSE @,
                        !.kind = answer.kind,
                        !.encrypt = answer.encrypt]
        /\ at' = IF answer.more THEN "next" ELSE "secure"
  BY DEF SessionSetup
<1>3. /\ answer \in [more : BOOLEAN, kind : Kind, encrypt : BOOLEAN, signed : BOOLEAN]
      /\ answer.kind = "user" => config.auth = "named"
      /\ ~answer.more => answer.kind # "none"
  <2>1. CASE answer = [more |-> TRUE, kind |-> "none", encrypt |-> FALSE,
                       signed |-> FALSE]
    BY <2>1 DEF Kind
  <2>2. CASE /\ answer \in [more : {FALSE}, kind : {"user", "guest", "null"},
                            encrypt : BOOLEAN, signed : BOOLEAN]
             /\ answer.kind = "user" => config.auth = "named"
    BY <2>2 DEF Kind
  <2>3. \/ answer = [more |-> TRUE, kind |-> "none", encrypt |-> FALSE,
                     signed |-> FALSE]
        \/ /\ answer \in [more : {FALSE}, kind : {"user", "guest", "null"},
                           encrypt : BOOLEAN, signed : BOOLEAN]
           /\ answer.kind = "user" => config.auth = "named"
    BY DEF Answers
  <2> QED
    BY <2>1, <2>2, <2>3
<1>4. hash' = ServerHashed(messageId, answer) /\ hash' \in Seq(Message)
  BY <1>2, HashedAlike DEF Typed, KeysInv
<1>5. /\ server' \in [challenges : Nat, hash : Seq(Message), kind : Kind,
                      encrypt : BOOLEAN, share : Shares \cup {"unknown"}]
      /\ server'.hash = hash' /\ server'.kind = answer.kind
      /\ ~answer.more => server'.challenges = server.challenges
  <2>1. server \in [challenges : Nat, hash : Seq(Message), kind : Kind,
                    encrypt : BOOLEAN, share : Shares \cup {"unknown"}]
    BY DEF Typed
  <2> DEFINE n == IF answer.more THEN server.challenges + 1
                  ELSE server.challenges
  <2>2. n \in Nat
    BY <2>1
  <2>3. server' = [server EXCEPT !.hash = hash', !.challenges = n,
                     !.kind = answer.kind, !.encrypt = answer.encrypt]
    BY <1>2, <1>4, <2>1
  <2>4. ~answer.more => n = server.challenges
    OBVIOUS
  <2>5. answer.kind \in Kind /\ answer.encrypt \in BOOLEAN
    BY <1>3
  <2> HIDE DEF n
  <2> QED
    BY ONLY <1>4, <2>1, <2>2, <2>3, <2>4, <2>5
<1>6. Typed'
  BY <1>1, <1>2, <1>3, <1>4, <1>5 DEF SessionSetup, Typed, Steps
<1>7. KeysInv'
  BY <1>2, <1>3, <1>5 DEF SessionSetup, KeysInv
<1>8. SessionInv'
  BY <1>2, <1>3, <1>5 DEF SessionInv
<1>9. CountInv'
  BY <1>1, <1>2, RoundsAssumption DEF SessionSetup, CountInv, Typed
<1>10. NumbersInv'
  BY <1>1, SentIsNumbered
<1>11. LayersInv'
  BY <1>2 DEF SessionSetup, LayersInv
<1>12. NamedInv'
  BY <1>1, SentBeforeTree DEF SessionSetup
<1> QED
  BY <1>6, <1>7, <1>8, <1>9, <1>10, <1>11, <1>12

\* The steps that only move on: a token is made, or the attempt fails.
LEMMA QuietStepKeepsInv ==
  Inv /\ (InitialToken \/ NextToken \/ Fails \/ SecureFails) => Inv'
<1> SUFFICES ASSUME Inv, InitialToken \/ NextToken \/ Fails \/ SecureFails
             PROVE  Inv'
  OBVIOUS
<1> USE DEF Inv
<1>1. UNCHANGED <<config, negotiated, messageId, hash, session, layers, server, log>>
  BY DEF InitialToken, NextToken, Fails, SecureFails
<1>2. /\ at' \in {"setup", "failed"}
      /\ at \in {"negotiate", "initial", "setup", "next", "secure", "tree", "retry"}
      /\ at' = "setup" => at \in {"initial", "next"}
  BY DEF InitialToken, NextToken, Fails, SecureFails, Fail
<1>3. /\ round' \in {round, round + 1} /\ base' \in {base, server.challenges}
      /\ at = "initial" => UNCHANGED <<round, base>>
      /\ at = "next" /\ at' = "setup" =>
           /\ round' = round + 1 /\ round' # MaxRounds
           /\ config.auth # "Anonymous" => base' = server.challenges
  BY <1>2 DEF InitialToken, NextToken, Fails, SecureFails, Fail, LastRound
<1>4. Typed'
  BY <1>1, <1>2, <1>3 DEF Typed, Steps
<1>5. KeysInv'
  BY <1>1, <1>2, <1>3 DEF KeysInv
<1>6. SessionInv'
  BY <1>2 DEF SessionInv
<1>7. CountInv'
  <2>1. CASE at' = "failed"
    BY <1>1, <2>1 DEF CountInv
  <2>2. CASE at' = "setup" /\ at = "initial"
    BY <1>1, <1>3, <2>2, RoundsAssumption DEF CountInv
  <2>3. CASE at' = "setup" /\ at = "next"
    <3>1. Len(log) = round + 2 /\ round < MaxRounds /\ messageId = Len(log)
      BY <2>3 DEF CountInv
    <3>2. round' = round + 1 /\ round' # MaxRounds /\ round \in Nat
      BY <1>3, <2>3 DEF Typed
    <3>3. Len(log') = round' + 1 /\ round' < MaxRounds /\ messageId' = Len(log')
      BY <1>1, <3>1, <3>2, RoundsAssumption
    <3> QED
      BY <1>1, <2>3, <3>3 DEF CountInv
  <2> QED
    BY <1>2, <2>1, <2>2, <2>3
<1>8. NumbersInv'
  BY <1>1 DEF NumbersInv
<1>9. LayersInv'
  BY <1>1, <1>2 DEF LayersInv
<1>10. NamedInv'
  BY <1>1, <1>2 DEF NamedInv, EncryptFirst
<1> QED
  BY <1>4, <1>5, <1>6, <1>7, <1>8, <1>9, <1>10

\* the choice of the layers,
LEMMA SecureKeepsInv == Inv /\ Secure => Inv'
<1> SUFFICES ASSUME Inv, Secure PROVE Inv'
  OBVIOUS
<1> USE DEF Inv
<1>1. /\ UNCHANGED <<config, negotiated, round, messageId, hash, base, session,
                     server, log>>
      /\ at = "secure" /\ at' = "tree"
  BY DEF Secure
<1>2. /\ layers' \in Around
      /\ EncryptFirst => layers' \in {<<"encrypt">>, <<"sign", "encrypt">>}
      /\ ShouldSign => layers' \in {<<"sign">>, <<"sign", "encrypt">>}
  <2>1. /\ <<"sign">> \o <<"encrypt">> = Append(<<"sign">>, "encrypt")
        /\ <<>> \o <<"encrypt">> = <<"encrypt">>
        /\ <<"sign">> \o <<>> = <<"sign">>
        /\ <<>> \o <<>> = <<>>
    OBVIOUS
  <2>2. <<"sign">> \o <<"encrypt">> = <<"sign", "encrypt">>
    BY <2>1, BothLayers
  <2>3. CASE ShouldSign /\ EncryptFirst
    <3>1. layers' = <<"sign">> \o <<"encrypt">>
      BY <2>3 DEF Secure
    <3> QED
      BY <2>2, <3>1 DEF Around
  <2>4. CASE ShouldSign /\ ~EncryptFirst
    <3>1. layers' = <<"sign">> \o <<>>
      BY <2>4 DEF Secure
    <3> QED
      BY <2>1, <2>4, <3>1 DEF Around
  <2>5. CASE ~ShouldSign /\ EncryptFirst
    <3>1. layers' = <<>> \o <<"encrypt">>
      BY <2>5 DEF Secure
    <3> QED
      BY <2>1, <2>5, <3>1 DEF Around
  <2>6. CASE ~ShouldSign /\ ~EncryptFirst
    <3>1. layers' = <<>> \o <<>>
      BY <2>6 DEF Secure
    <3> QED
      BY <2>1, <2>6, <3>1 DEF Around
  <2> QED
    BY <2>3, <2>4, <2>5, <2>6
<1>3. Typed'
  BY <1>1, <1>2 DEF Typed, Steps
<1>4. KeysInv'
  BY <1>1 DEF KeysInv
<1>5. SessionInv'
  BY <1>1 DEF SessionInv
<1>6. CountInv' /\ NumbersInv'
  BY <1>1 DEF CountInv, NumbersInv
<1>7. LayersInv'
  <2>1. EncryptFirst' => Encrypted'
    BY <1>1, <1>2, EncryptedLayersNext DEF EncryptFirst
  <2>2. negotiated.signingRequired /\ session.kind = "user" => ShouldSign
    BY DEF ShouldSign
  <2> QED
    BY <1>1, <1>2, <2>1, <2>2 DEF LayersInv
<1>8. NamedInv'
  BY <1>1 DEF NamedInv
<1> QED
  BY <1>3, <1>4, <1>5, <1>6, <1>7, <1>8

\* and the tree connect.
LEMMA TreeConnectKeepsInv == Inv /\ TreeConnect => Inv'
<1> SUFFICES ASSUME Inv, TreeConnect PROVE Inv'
  OBVIOUS
<1> USE DEF Inv
<1>1. /\ UNCHANGED <<config, negotiated, round, hash, base, session>>
      /\ at \in {"tree", "retry"} /\ messageId' = messageId + 1
      /\ Sends("TREE_CONNECT", Len(log)) /\ messageId = Len(log)
  BY DEF TreeConnect, CountInv
<1>2. log \in Seq(Entry) /\ layers \in Around /\ Len(log) \in Nat
  BY DEF Typed
<1>3. /\ log' \in Seq(Entry) /\ Len(log') = Len(log) + 1
      /\ \A i \in 1..Len(log) : log'[i] = log[i]
      /\ log'[Len(log) + 1] = [what |-> "TREE_CONNECT", id |-> Len(log), layers |-> layers]
  BY ONLY "TREE_CONNECT" \in {"NEGOTIATE", "SESSION_SETUP", "TREE_CONNECT"},
          <1>1, <1>2, Sent
<1>4. PICK share \in Shares \cup {"unknown"} :
        /\ server' = [server EXCEPT !.share = share]
        /\ IF Grants(share) THEN TreeConnected(share) ELSE TreeDenied
  BY DEF TreeConnect, Typed
<1>5. /\ at' \in {"retry", "connected", "failed"}
      /\ at' = "retry" => at = "tree" /\ layers' = Encrypting /\ ~Encrypted
      /\ at' = "connected" =>
           \/ UNCHANGED layers /\ (share \in {"flagged", "denying"} => Encrypted)
           \/ layers' = Encrypting /\ ~Encrypted
      /\ at' = "failed" => UNCHANGED layers
  BY <1>1, <1>4 DEF LayersInv, Grants, TreeConnected, TreeDenied, Fail
<1>6. layers' \in Around
  BY <1>2, <1>5, EncryptingLayers DEF Around
<1>7. /\ server' \in [challenges : Nat, hash : Seq(Message), kind : Kind,
                      encrypt : BOOLEAN, share : Shares \cup {"unknown"}]
      /\ server'.hash = server.hash /\ server'.challenges = server.challenges
      /\ server'.kind = server.kind /\ server'.share = share
  BY <1>4 DEF Typed
<1>8. Typed'
  BY <1>1, <1>3, <1>5, <1>6, <1>7 DEF Typed, Steps
<1>9. KeysInv'
  BY <1>1, <1>7 DEF KeysInv
<1>10. SessionInv'
  BY <1>1, <1>5, <1>7 DEF SessionInv
<1>11. CountInv'
  <2>1. /\ at = "tree" => Len(log) = round + 2
        /\ at = "retry" => Len(log) = round + 3
        /\ round < MaxRounds /\ messageId = Len(log)
    BY <1>1 DEF CountInv
  <2>2. round \in Nat /\ MaxRounds \in Nat
    BY RoundsAssumption DEF Typed
  <2>3. PICK n : n = Len(log)
    OBVIOUS
  <2>4. Len(log') = n + 1 /\ messageId' = n + 1 /\ n \in Nat
    BY <1>1, <1>2, <1>3, <2>3
  <2>5. n + 1 <= MaxRounds + 3
    BY <1>1, <2>1, <2>2, <2>3, <2>4
  <2>6. at' = "retry" => n + 1 = round + 3
    BY <1>5, <2>1, <2>2, <2>3
  <2> QED BY <1>1, <1>5, <2>1, <2>4, <2>5, <2>6 DEF CountInv
<1>12. NumbersInv'
  BY <1>1, SentIsNumbered
<1>13. EncryptFirst' = EncryptFirst /\ (EncryptFirst => Encrypted)
  BY <1>1 DEF EncryptFirst, LayersInv
<1>14. LayersInv'
  <2>1. UNCHANGED layers => Encrypted' = Encrypted
    BY DEF Encrypted
  <2>2. layers' = Encrypting /\ ~Encrypted => Encrypted'
    BY <1>2, <1>6, EncryptingLayers, EncryptedLayersNext
  <2> DEFINE Signed == {<<"sign">>, <<"sign", "encrypt">>}
  <2>3. negotiated.signingRequired /\ session.kind = "user" => layers \in Signed
    BY <1>1 DEF LayersInv
  <2>4. CASE UNCHANGED layers
    BY <1>1, <1>5, <1>7, <1>13, <2>1, <2>2, <2>3, <2>4 DEF LayersInv
  <2>5. CASE layers' = Encrypting /\ ~Encrypted
    <3>1. layers \in Signed => layers' \in Signed
      BY <1>2, <2>5, EncryptedLayers, EncryptingLayers
    <3> QED
      BY <1>1, <1>5, <1>7, <2>2, <2>3, <2>5, <3>1 DEF LayersInv
  <2> QED
    BY <1>5, <2>4, <2>5
<1>15. NamedInv'
  <2> DEFINE n == Len(log)
             Safe == {<<"encrypt">>, <<"sign", "encrypt">>}
  <2>1. \A i \in 1..n : log'[i].what = "TREE_CONNECT" /\ EncryptFirst =>
                        log'[i].layers \in Safe
    BY <1>3 DEF NamedInv
  <2>2. log'[n + 1].layers = layers
    BY <1>3
  <2>3. EncryptFirst => log'[n + 1].layers \in Safe
    BY <1>2, <1>13, <2>2, EncryptedLayers
  <2>4. n \in Nat /\ Len(log') = n + 1
    BY <1>2, <1>3
  <2> HIDE DEF n, Safe
  <2>5. \A i \in 1..Len(log') : log'[i].what = "TREE_CONNECT" /\ EncryptFirst =>
                        log'[i].layers \in Safe
    BY <2>1, <2>3, <2>4
  <2> QED
    BY <1>5, <1>13, <2>5 DEF NamedInv, Safe
<1> QED
  BY <1>8, <1>9, <1>10, <1>11, <1>12, <1>14, <1>15

\* Whatever the server does and wherever the attempt is cut off, connect() knows
\* at each of its steps what Inv says.
THEOREM InvHolds == Spec => []Inv
<1>1. Init => Inv
  BY InvInit
<1>2. Inv /\ [Next]_vars => Inv'
  <2> SUFFICES ASSUME Inv, [Next]_vars PROVE Inv'
    OBVIOUS
  <2>1. CASE Connect
    BY <2>1, NegotiateKeepsInv, SessionSetupKeepsInv, QuietStepKeepsInv,
       SecureKeepsInv, TreeConnectKeepsInv DEF Connect
  <2>2. CASE UNCHANGED vars
    BY <2>2 DEF vars, Inv, Typed, KeysInv, SessionInv, CountInv, NumbersInv,
                LayersInv, NamedInv, EncryptFirst, Encrypted
  <2> QED
    BY <2>1, <2>2 DEF Next, Over
<1> QED
  BY <1>1, <1>2, PTL DEF Spec

-----------------------------------------------------------------------------
\* The signing keys of client and server agree for every user the server accepts,
\* for every dialect and every number of rounds (NativeSmbConnector, ntlmv2).
THEOREM SigningKeysAgree == Spec => []KeysAgree
<1>1. Inv => KeysAgree
  BY DEF Inv, KeysInv, KeysAgree, Auth
<1> QED
  BY <1>1, InvHolds, PTL

\* No share is asked for without a session the server has granted.
THEOREM NoShareWithoutSession == Spec => []AuthenticatedBeforeUse
<1>1. Inv => AuthenticatedBeforeUse
  BY DEF Inv, SessionInv, AuthenticatedBeforeUse
<1> QED
  BY <1>1, InvHolds, PTL

\* The encryption and the signing that policy, session or share require are there
\* when the connection is handed out, and encryption before the share is named.
THEOREM NoConnectionBelowPolicy == Spec => []PoliciesAreKept
<1>1. Inv => PoliciesAreKept
  <2> SUFFICES ASSUME Inv PROVE PoliciesAreKept
    OBVIOUS
  <2>1. <<"sign">>[1] = "sign" /\ <<"sign", "encrypt">>[1] = "sign"
    OBVIOUS
  <2> QED
    BY <2>1 DEF Inv, LayersInv, NamedInv, PoliciesAreKept
<1> QED
  BY <1>1, InvHolds, PTL

\* The requests of an attempt are numbered without a gap, whatever the round limit,
\* and there are at most three more of them than rounds.
THEOREM AttemptIsNumberedAndBounded == Spec => []RequestsAreNumbered
<1>1. Inv => RequestsAreNumbered
  BY DEF Inv, CountInv, NumbersInv, RequestsAreNumbered
<1> QED
  BY <1>1, InvHolds, PTL
=============================================================================
