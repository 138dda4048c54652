------------------------------ MODULE SmbCodec ------------------------------
(***************************************************************************)
(* The message codecs: native_smb/Protocol.cpp and, for what travels in    *)
(* its buffers, DfsReferral.cpp, Dcerpc.cpp and SrvsRpc.cpp, and the       *)
(* tokens of NtlmMessages.cpp in the DER of SpnegoToken.cpp.               *)
(*                                                                         *)
(* A request is built, the server finds its parts at the offsets the       *)
(* request declares, and lays out a reply; the reply may arrive cut short  *)
(* or with one field changed; the decoder then checks it field by field    *)
(* and walks its list of entries.  Bytes are kept as positions: a message  *)
(* is its size, the fields the decoder looks at, and the cells of its list *)
(* at the position where each begins.  What the decoder reads where no     *)
(* cell begins is arbitrary.  `reach' is the end of the last byte read.    *)
(***************************************************************************)
EXTENDS Integers, Sequences, FiniteSets, SequencesExt

CONSTANTS
  Texts,    \* names: records [utf8 |-> bytes, utf16 |-> code units]
  Sizes,    \* sizes of raw payloads, in bytes
  Dialects, \* numbers of dialects a client offers
  Lists,    \* the lists of names a server answers with: sequences of Texts
  Responses,    \* sizes of an NTLM response
  None      \* no value: a text that cannot be converted, a refused request

ASSUME CodecAssumption ==
  /\ Sizes \subseteq Nat /\ Dialects \subseteq Nat \ {0}
  /\ \A t \in Texts : t.utf8 \in Seq(Nat) /\ t.utf16 \in Seq(Nat)
  /\ \A list \in Lists : list \in Seq(Texts)

VARIABLES
  pc,     \* "idle", "sent", "reply", "walk", "done"
  req,    \* the request as built, or None
  asked,  \* the command of the request that was sent
  m,      \* the reply, or None
  damage, \* what happened to it on the way: "none", "cut" or "changed"
  pos,    \* where the next cell is read
  end,    \* where the list's buffer ends
  left,   \* cells still announced by a count
  outer,  \* ends of the DER values around the one that is read, the nearest first
  got,    \* the names decoded so far
  ok,     \* the decoder's verdict, once pc = "done"
  reach   \* end of the last byte the decoder has read

codecVars == <<pc, req, asked, m, damage, pos, end, left, outer, got, ok, reach>>

Header == 64
Larger(a, b) == IF a > b THEN a ELSE b
Smaller(a, b) == IF a < b THEN a ELSE b
Aligned(n, k) == ((n + k - 1) \div k) * k
Total(widths) == FoldSeq(+, 0, widths)

-----------------------------------------------------------------------------
(* Text: UTF-8 in the program, UTF-16LE on the wire.                        *)

appendUtf8CodePoint(c) ==
  LET low(k) == 128 + ((c \div k) % 64)
  IN  CASE c < 128 -> <<c>>
        [] c \in 128..2047 -> <<192 + (c \div 64), low(1)>>
        [] c \in 2048..65535 -> <<224 + (c \div 4096), low(64), low(1)>>
        [] OTHER -> <<240 + (c \div 262144), low(4096), low(64), low(1)>>

\* How many bytes the first byte of a UTF-8 sequence announces; 0: none may.
Announced(b) == CASE b < 128 -> 1
                  [] b \in 192..223 -> 2
                  [] b \in 224..239 -> 3
                  [] b \in 240..247 -> 4
                  [] OTHER -> 0

CodePoint(s) ==
  LET lead == <<s[1], s[1] % 32, s[1] % 16, s[1] % 8>>[Len(s)]
  IN  FoldLeft(LAMBDA c, b : (c * 64) + (b % 64), lead, Tail(s))

\* A surrogate pair without the offset of the supplementary planes.
UnitsUnadjusted(c) ==
  IF c <= 65535 THEN <<c>>
  ELSE <<55296 + ((c \div 1024) % 1024), 56320 + (c % 1024)>>

Units(c) ==
  IF c <= 65535 THEN <<c>>
  ELSE <<55296 + ((c - 65536) \div 1024), 56320 + ((c - 65536) % 1024)>>

encodeUtf16Le(text) ==
  LET n == Len(text)
      rest[i \in 1..n + 1] ==
        IF i = n + 1 THEN <<>>
        ELSE LET k == Announced(text[i])
                 c == CodePoint(SubSeq(text, i, i + k - 1))
             IN  IF k = 0 \/ i + k - 1 > n THEN None
                 ELSE IF \E j \in i + 1..i + k - 1 : text[j] \notin 128..191
                 THEN None
                 ELSE IF c > 1114111 \/ rest[i + k] = None THEN None
                 ELSE Units(c) \o rest[i + k]
  IN  rest[1]

decodeUtf16Le(units) ==
  LET n == Len(units)
      high(i) == units[i] \in 55296..56319
      low(i) == i <= n /\ units[i] \in 56320..57343
      rest[i \in 1..n + 1] ==
        IF i = n + 1 THEN <<>>
        ELSE LET k == IF high(i) THEN 2 ELSE 1
                 c == IF high(i)
                      THEN 65536 + ((units[i] - 55296) * 1024)
                             + (units[i + 1] - 56320)
                      ELSE units[i]
             IN  IF low(i) \/ (high(i) /\ ~low(i + 1)) THEN None
                 ELSE IF rest[i + k] = None THEN None
                 ELSE appendUtf8CodePoint(c) \o rest[i + k]
  IN  rest[1]

\* The bytes a text takes on the wire.
Wide(t) == 2 * Len(encodeUtf16Le(t.utf8))

-----------------------------------------------------------------------------
(* Requests.  A part is a run of bytes the request announces: `off' and     *)
(* `declared' are what its fields say, `at' and `len' where the builder put *)
(* it.  `units' are the code units it holds, `want' those the text has.     *)

Part(off, at, declared, len) ==
  [off |-> off, at |-> at, declared |-> declared, len |-> len,
   units |-> <<>>, want |-> <<>>]
TextPart(off, at, t) ==
  [Part(off, at, Wide(t), Wide(t)) EXCEPT !.units = encodeUtf16Le(t.utf8),
                                          !.want = t.utf16]

\* A message with the fields `widths' after the header, and its one part.
Message(command, structure, widths, part, tail) ==
  [command |-> command, structure |-> structure, fixed |-> Total(widths),
   size |-> Header + Total(widths) + part.len + tail, parts |-> {part},
   length |-> 0, charge |-> 1]
Bare(command, structure, widths) ==
  Message(command, structure, widths, Part(0, 0, 0, 0), 0)
Raw(off, at, n) == Part(IF n = 0 THEN 0 ELSE off, at, n, n)
Charged(r, n) ==
  [r EXCEPT !.length = n,
            !.charge = IF n > 0 THEN 1 + ((n - 1) \div 65536) ELSE 1]

buildNegotiateRequest(n, smb311, encryption) ==
  LET fixed == <<2, 2, 2, 2, 4, 16, 4, 2, 2>>
      offset == ((Header + 36 + (n * 2) + 7) \div 8) * 8
      start == Aligned(Header + Total(fixed) + (n * 2), 8)
      contexts == IF ~smb311 THEN {}
                  ELSE {Part(offset, start, 38, 2 + 2 + 2 + 32)} \cup
                       (IF encryption
                        THEN {Part(Aligned(offset + 8 + 38, 8),
                                   Aligned(start + 8 + 38, 8), 4, 2 + 2)}
                        ELSE {})
  IN  [Bare("Negotiate", 36, fixed) EXCEPT
         !.parts = contexts,
         !.size = IF ~smb311 THEN Header + Total(fixed) + (n * 2)
                  ELSE IF encryption THEN start + 48 + 16 ELSE start + 48]
buildSessionSetupRequest(n) ==
  IF n > 65535 THEN None
  ELSE LET f == <<2, 1, 1, 4, 4, 2, 2, 8>>
       IN  Message("SessionSetup", 25, f, Part(Header + 24, Header + Total(f), n, n), 0)
buildTreeConnectRequest(t) ==
  LET f == <<2, 2, 2, 2>>
  IN  Message("TreeConnect", 9, f, TextPart(Header + 8, Header + Total(f), t), 0)
buildTreeDisconnectRequest == Bare("TreeDisconnect", 4, <<2, 2>>)
buildLogoffRequest == Bare("Logoff", 4, <<2, 2>>)
\* An empty name leaves one byte, so that the variable part is not empty.
buildCreateRequest(t) ==
  LET f == <<2, 1, 1, 4, 8, 8, 4, 4, 4, 4, 4, 2, 2, 4, 4>>
  IN  Message("Create", 57, f, TextPart(Header + 56, Header + Total(f), t),
              IF Wide(t) = 0 THEN 1 ELSE 0)
buildCloseRequest == Bare("Close", 24, <<2, 2, 4, 16>>)
buildReadRequest(length) ==
  Charged(Message("Read", 49, <<2, 1, 1, 4, 8, 16, 4, 4, 4, 2, 2>>,
                  Part(0, 0, 0, 0), 1), length)
buildWriteRequest(n) ==
  LET f == <<2, 2, 4, 8, 16, 4, 4, 2, 2, 4>>
  IN  Charged(Message("Write", 49, f, Raw(Header + 48, Header + Total(f), n), 0), n)
buildIoctlRequest(n) ==
  LET f == <<2, 2, 4, 16, 4, 4, 4, 4, 4, 4, 4, 4>>
  IN  Message("Ioctl", 57, f, Raw(Header + 56, Header + Total(f), n),
              IF n = 0 THEN 1 ELSE 0)
buildSetInfoRequest(n) ==
  LET f == <<2, 1, 1, 4, 2, 2, 4, 16>>
  IN  Message("SetInfo", 33, f, Raw(Header + 32, Header + Total(f), n), 0)
buildQueryInfoRequest(n) ==
  LET f == <<2, 1, 1, 4, 2, 2, 4, 4, 4, 16>>
  IN  Message("QueryInfo", 41, f, Raw(Header + 40, Header + Total(f), n), 0)
buildQueryDirectoryRequest(t) ==
  LET f == <<2, 1, 1, 4, 16, 2, 2, 4>>
      p == TextPart(Header + 32, Header + Total(f), t)
  IN  Message("QueryDirectory", 33, f,
              [p EXCEPT !.off = IF Wide(t) = 0 THEN 0 ELSE @], 0)
buildChangeNotifyRequest(length) ==
  Charged(Bare("ChangeNotify", 32, <<2, 2, 4, 16, 4, 4>>), length)

(* Payloads of those requests, their parts counted from their own start.    *)

Payload(size, parts) == [size |-> size, parts |-> parts]

buildSymbolicLinkReparseBuffer(s, p) ==
  LET fixed == Total(<<4, 2, 2, 2, 2, 2, 2, 4>>)
      size == fixed + Wide(s) + Wide(p)
  IN  Payload(size, {Part(8, 8, 12 + Wide(s) + Wide(p), size - 8),
                     TextPart(20, fixed, s),
                     TextPart(20 + Wide(s), fixed + Wide(s), p)})
\* The same layout for a rename and for a hard link.
buildFileRenameInformation(t) ==
  Payload(Larger(20 + Wide(t), 24), {TextPart(20, 1 + 7 + 8 + 4, t)})
buildSrvCopyChunkRequest(k) ==
  Payload(32 + (k * 24), {Part(32, 24 + 4 + 4, k * 24, k * (8 + 8 + 4 + 4))})
buildDfsGetReferralRequest(t) == Payload(2 + Wide(t) + 2, {TextPart(2, 2, t)})
\* Two attributes, the first padded to a multiple of four.
buildFileFullEaInformation(t, n) ==
  LET one == 8 + Len(t.utf8) + 1 + n
      padded == one + ((4 - (one % 4)) % 4)
  IN  Payload(padded + one, {Part(Aligned(one, 4), padded, one, one)})
\* normalizeServerName's text as an NDR string, then seven more words.
buildNetrShareEnumRequestStub(t) ==
  LET string == Aligned(12 + Wide(t) + 2, 4)
      words == (Wide(t) \div 2) + 1
  IN  Payload(4 + string + 28,
              {TextPart(4 + 12, 4 + Total(<<4, 4, 4>>), t),
               Part(16, 16, 2 * words, Wide(t) + 2)})
buildDcerpcBindPdu ==
  LET size == Total(<<1, 1, 1, 1, 4, 2, 2, 4, 2, 2, 4, 1, 1, 2, 2, 1, 1, 20, 20>>)
  IN  Payload(size, {Part(0, 0, 72, size)})
buildDcerpcRequestPdu(stub) ==
  LET fixed == Total(<<1, 1, 1, 1, 4, 2, 2, 4, 4, 2, 2>>)
      size == fixed + stub.size
  IN  Payload(size, {Part(0, 0, (16 + 8 + stub.size) % 65536, size)}
                    \cup {[p EXCEPT !.off = @ + 24, !.at = @ + fixed] : p \in stub.parts})

(* Tokens: DER values around an NTLM message.                               *)

Shifted(parts, off, at) == {[p EXCEPT !.off = @ + off, !.at = @ + at] : p \in parts}
Then(p, q) == Payload(p.size + q.size, p.parts \cup Shifted(q.parts, p.size, p.size))

\* A length below 128 is a byte, others follow the number of their bytes.
appendDerLength(n) ==
  CASE n < 128 -> <<n>>
    [] n \in 128..255 -> <<129, n>>
    [] OTHER -> <<130, n \div 256, n % 256>>
readDerLength(bytes) ==
  IF bytes[1] < 128 THEN bytes[1]
  ELSE FoldLeft(LAMBDA n, b : (n * 256) + b, 0, SubSeq(bytes, 2, bytes[1] - 127))

derTlv(content) ==
  LET bytes == appendDerLength(content.size)
      head == 1 + Len(bytes)
  IN  Payload(head + content.size,
              {Part(IF bytes[1] < 128 THEN 2 ELSE bytes[1] - 126, head,
                    readDerLength(bytes), content.size)}
              \cup Shifted(content.parts, head, head))
derOid(n) == derTlv(Payload(n, {}))

buildSpnegoNegTokenInit(token) ==
  LET mechTypes == derTlv(derTlv(derOid(10)))
      mechToken == derTlv(derTlv(token))
  IN  derTlv(Then(derOid(6), derTlv(derTlv(Then(mechTypes, mechToken)))))
buildSpnegoNegTokenResp(token) == derTlv(derTlv(derTlv(derTlv(token))))

\* encodeUnicodeUpper: letters of ASCII only.
Upper(t) ==
  LET upper(c) == IF c \in 97..122 THEN c - 32 ELSE c
  IN  [utf8 |-> [i \in DOMAIN t.utf8 |-> upper(t.utf8[i])],
       utf16 |-> [i \in DOMAIN t.utf16 |-> upper(t.utf16[i])]]

buildNtlmNegotiateMessage(domain, workstation) ==
  LET d == Upper(domain)
      w == Upper(workstation)
      fixed == Total(<<8, 4, 4, 8, 8, 8>>)
  IN  Payload(fixed + Wide(d) + Wide(w),
              {TextPart(40, fixed, d), TextPart(40 + Wide(d), fixed + Wide(d), w)})

\* Domain, user, then the two responses; without a workstation and a session key.
buildNtlmAuthenticateMessage(domain, user, version, lm, nt) ==
  LET fixed == Total(<<8, 4, 8, 8, 8, 8, 8, 8, 4, IF version THEN 8 ELSE 0>>)
      first == 64 + (IF version THEN 8 ELSE 0)
      names == Wide(domain) + Wide(user)
  IN  Payload(fixed + names + lm + nt,
              {TextPart(first, fixed, domain),
               TextPart(first + Wide(domain), fixed + Wide(domain), user),
               Part(first + names, fixed + names, lm, lm),
               Part(first + names + lm, fixed + names + lm, nt, nt)})

\* A request with its payload, unless the builder refuses it.
Carrying(r, payload) ==
  IF r = None THEN None
  ELSE LET base == CHOOSE p \in r.parts : TRUE
       IN  [r EXCEPT !.parts = @ \cup {[p EXCEPT !.off = base.off + @, !.at = base.at + @] :
                                         p \in payload.parts}]

Buildable ==
  LET named == {t \in Texts : t.utf8 # <<>>} \* the others are refused
      links == {buildSymbolicLinkReparseBuffer(s, p) : s, p \in named}
      stubs == {buildDcerpcRequestPdu(buildNetrShareEnumRequestStub(t)) : t \in Texts}
      infos == {buildFileRenameInformation(t) : t \in named}
                 \cup {buildFileFullEaInformation(t, n) : t \in named, n \in 0..4}
      copies == {buildSrvCopyChunkRequest(k) : k \in 1..2}
      paths == {buildDfsGetReferralRequest(t) : t \in Texts}
      initial == {buildSpnegoNegTokenInit(buildNtlmNegotiateMessage(s, t)) :
                    s, t \in Texts}
      answers == {buildSpnegoNegTokenResp(
                    buildNtlmAuthenticateMessage(t, t, version, lm, nt)) :
                      t \in Texts, version \in BOOLEAN, lm \in {1, 24}, nt \in Responses}
  IN  UNION {
        {buildNegotiateRequest(n, d, e) : n \in Dialects, d, e \in BOOLEAN},
        {buildTreeConnectRequest(t) : t \in named},
        {buildCreateRequest(t) : t \in Texts},
        {buildQueryDirectoryRequest(t) : t \in Texts},
        {buildTreeDisconnectRequest, buildLogoffRequest, buildCloseRequest},
        UNION {{buildSessionSetupRequest(n), buildReadRequest(n), buildWriteRequest(n),
                buildQueryInfoRequest(n), buildChangeNotifyRequest(n)} : n \in Sizes},
        {Carrying(buildSessionSetupRequest(p.size), p) : p \in initial \cup answers},
        {Carrying(buildIoctlRequest(p.size), p) : p \in links \cup copies \cup paths},
        {Carrying(buildSetInfoRequest(p.size), p) : p \in infos},
        {Carrying(buildWriteRequest(p.size), p) : p \in stubs \cup {buildDcerpcBindPdu}}}

encodeDirectTcpFrame(size) ==
  IF size > 16777215 THEN None
  ELSE <<0, (size \div 65536) % 256, (size \div 256) % 256, size % 256>>
decodeDirectTcpPayloadLength(h) == (h[2] * 65536) + (h[3] * 256) + h[4]

\* An exchanger builds its request and frames it; neither may throw.
SendRequest ==
  /\ pc = "idle"
  /\ \E r \in Buildable :
       /\ r # None
       /\ encodeDirectTcpFrame(r.size) # None
       /\ req' = r /\ asked' = r.command
  /\ pc' = "sent"
  /\ UNCHANGED <<m, damage, pos, end, left, outer, got, ok, reach>>

-----------------------------------------------------------------------------
(* Replies, as a server lays them out [MS-SMB2, MS-FSCC, MS-DFSC, MS-SRVS]. *)

Structures ==
  [Negotiate |-> 65, SessionSetup |-> 9, TreeConnect |-> 16, TreeDisconnect |-> 4,
   Logoff |-> 4, Create |-> 89, Close |-> 60, Read |-> 17, Write |-> 17,
   Ioctl |-> 49, SetInfo |-> 2, QueryInfo |-> 9, QueryDirectory |-> 9,
   ChangeNotify |-> 9]

\* A reply without a buffer.  An odd structure size counts one byte of it.
Answer(command) ==
  [command |-> command, smb2 |-> TRUE, flag |-> TRUE, status |-> "SUCCESS",
   structure |-> Structures[command], offered |-> TRUE,
   size |-> Header + Structures[command] - (Structures[command] % 2),
   bufs |-> <<>>, kind |-> "none", cells |-> <<>>, count |-> 0, array |-> None,
   frag |-> 0, container |-> TRUE, per |-> 2, resume |-> FALSE, granted |-> TRUE,
   names |-> <<>>]

\* The buffer an IOCTL answers with is the second one.
With(a, kind, n) ==
  LET b == [off |-> a.size, len |-> n]
  IN  [a EXCEPT !.kind = kind, !.size = @ + n,
                !.bufs = IF a.command = "Ioctl" THEN <<[off |-> 0, len |-> 0], b>>
                         ELSE <<b>>]

\* Where cells of certain sizes begin, the first at `from'.
Starts(from, sizes) ==
  LET start[i \in 1..Len(sizes)] ==
        IF i = 1 THEN from ELSE start[i - 1] + sizes[i - 1]
  IN  start

\* The cells of a reply, from pairs of a position and a cell.
Placed(pairs) ==
  [p \in {e[1] : e \in pairs} |-> (CHOOSE e \in pairs : e[1] = p)[2]]
CellsOf(starts, cells) == Placed({<<starts[i], cells[i]>> : i \in DOMAIN starts})

Cell(next, len, extra, units) ==
  [next |-> next, len |-> len, extra |-> extra, units |-> units]

\* FILE_ID_BOTH_DIR_INFORMATION and FILE_NOTIFY_INFORMATION: each entry gives
\* the distance to the next one, the last one 0.
Chain(a, kind, fixed, align, list) ==
  LET n == Len(list)
      used(i) == fixed + (2 * Len(list[i].utf16))
      sizes == [i \in 1..n |-> IF i = n THEN used(i) ELSE Aligned(used(i), align)]
      starts == Starts(a.size, sizes)
      cells == [i \in 1..n |-> Cell(IF i = n THEN 0 ELSE sizes[i], 2 * Len(list[i].utf16),
                                    0, list[i].utf16)]
  IN  [With(a, kind, IF n = 0 THEN 0 ELSE starts[n] + sizes[n] - a.size) EXCEPT
         !.cells = CellsOf(starts, cells), !.names = [i \in 1..n |-> list[i].utf8]]

\* FILE_FULL_EA_INFORMATION: names of single bytes, values of i bytes.
Attributes(a, list) ==
  LET n == Len(list)
      used(i) == 8 + Len(list[i].utf8) + 1 + i
      sizes == [i \in 1..n |-> IF i = n THEN used(i) ELSE Aligned(used(i), 4)]
      starts == Starts(a.size, sizes)
      cells == [i \in 1..n |-> Cell(IF i = n THEN 0 ELSE sizes[i], Len(list[i].utf8), i,
                                    list[i])]
  IN  [With(a, "ea", IF n = 0 THEN 0 ELSE starts[n] + sizes[n] - a.size) EXCEPT
         !.cells = CellsOf(starts, cells), !.names = [i \in 1..n |-> list[i].utf8]]

\* RESP_GET_DFS_REFERRAL, version 4: the entries, then their strings.
Referrals(a, list) ==
  LET n == Len(list)
      sizes == [i \in 1..n |-> (2 * Len(list[i].utf16)) + 2]
      starts == Starts(a.size + 8, [i \in 1..n |-> 34])
      strings == Starts(a.size + 8 + (n * 34), sizes)
      cells == [i \in 1..n |-> Cell(34, strings[i] - starts[i], 34, list[i].utf16)]
  IN  [With(a, "dfs", IF n = 0 THEN 8 ELSE strings[n] + sizes[n] - a.size) EXCEPT
         !.cells = CellsOf(starts, cells), !.count = n,
         !.names = [i \in 1..n |-> list[i].utf8]]

\* A response PDU with the shares, each with `per' strings: its name, and the name
\* again as its comment; the pointers to the others are null, and so may be the one
\* to an empty container.
Shares(a, list, per, resume, container) ==
  LET n == Len(list)
      k == per * n
      text(i) == list[IF per = 2 THEN (i + 1) \div 2 ELSE i]
      words(i) == Len(text(i).utf16) + 1
      sizes == [i \in 1..k |-> Aligned(12 + (2 * words(i)), 4)]
      head == (IF container THEN 20 ELSE 12) + (IF n = 0 THEN 0 ELSE 4 + (12 * n))
      first == a.size + 24 + head
      starts == Starts(first, sizes)
      cells == [i \in 1..k |-> Cell(0, words(i), words(i), text(i).utf16)]
      strings == IF k = 0 THEN 0 ELSE starts[k] + sizes[k] - first
      frag == 24 + head + strings + (IF resume THEN 16 ELSE 12)
  IN  [With(a, "shares", frag) EXCEPT
         !.cells = CellsOf(starts, cells), !.count = n, !.frag = frag,
         !.array = IF n = 0 THEN None ELSE n, !.container = container, !.per = per,
         !.resume = resume, !.names = [i \in 1..k |-> text(i).utf8]]

\* A bind_ack PDU with one result; its secondary address takes n bytes.
BindAck(a, n) ==
  LET frag == Aligned(26 + n, 4) + 4 + 24
  IN  [With(a, "bind", frag) EXCEPT !.count = n, !.array = 1, !.frag = frag]

\* The bytes that a DER length has beyond the first, and the size of a value with
\* content of so many bytes.
LengthSize(n) == IF n < 128 THEN 0 ELSE IF n < 256 THEN 1 ELSE 2
ValueSize(n) == 2 + LengthSize(n) + n

\* NegTokenResp with its state, a mechanism and an NTLM challenge, or the challenge
\* as it is.  A DER value is a cell: the size of its content, the bytes its length has beyond the first, and its
\* kind; so are the challenge (the sizes of target information and name) and the
\* pairs of the target information (size and number).
Primitive == 0
Constructed == 1
OctetString == 2
Ntlmssp == 8
Challenge(a, name, long, raw) ==
  LET wide == 2 * Len(name.utf16)
      info == 4 + 8 + 4 + (IF long THEN 100 ELSE 0)
      ntlm == 56 + wide + info
      first == ValueSize(ValueSize(1)) + ValueSize(ValueSize(10)) \* negState and supportedMech
      inner == first + ValueSize(ValueSize(ntlm))
      p1 == a.size
      p2 == p1 + 2 + LengthSize(ValueSize(inner))       \* the sequence
      p3 == p2 + 2 + LengthSize(inner)                  \* negState
      p4 == p3 + ValueSize(ValueSize(1))                \* supportedMech
      p5 == p4 + ValueSize(ValueSize(10))               \* responseToken
      p6 == p5 + 2 + LengthSize(ValueSize(ntlm))        \* its octet string
      p7 == IF raw THEN p1 ELSE p6 + 2 + LengthSize(ntlm)   \* the challenge
      p8 == p7 + 56 + wide                              \* target information
      p9 == p8 + (IF long THEN 100 ELSE 0)
      value(p, n, type) == <<p, Cell(n, LengthSize(n), type, None)>>
      values == {value(p1, ValueSize(inner), Constructed), value(p2, inner, Constructed),
                 value(p3, ValueSize(1), Constructed), value(p3 + 2, 1, Primitive),
                 value(p4, ValueSize(10), Constructed), value(p4 + 2, 10, Primitive),
                 value(p5, ValueSize(ntlm), Constructed), value(p6, ntlm, OctetString)}
  IN  [With(a, "token", IF raw THEN ntlm ELSE ValueSize(ValueSize(inner))) EXCEPT
         !.status = "MORE_PROCESSING", !.names = <<name.utf8>>,
         !.cells = Placed((IF raw THEN {} ELSE values)
                          \cup {<<p7, Cell(info, wide, Ntlmssp, name.utf16)>>,
                                <<p9, Cell(8, 7, 0, None)>>, <<p9 + 12, Cell(0, 0, 0, None)>>}
                          \cup (IF long THEN {<<p8, Cell(96, 1, 0, None)>>} ELSE {}))]

AnswersTo(command) ==
  LET a == Answer(command)
      status(s) == {[a EXCEPT !.status = s]}
  IN  CASE command = "QueryDirectory" ->
             {Chain(a, "dir", 104, 8, list) : list \in Lists} \cup status("NO_MORE_FILES")
        [] command = "ChangeNotify" ->
             {Chain(a, "notify", 12, 4, list) : list \in Lists} \cup status("NOTIFY_ENUM_DIR")
        [] command = "QueryInfo" ->
             {Attributes(a, list) : list \in Lists}
               \cup {With(a, "basic", 40), With(a, "standard", 24)}
        [] command = "Ioctl" ->
             {Referrals(a, list) : list \in Lists} \cup {With(a, "copychunk", 12)}
        [] command = "Read" ->
             {Shares(a, list, per, resume, c \/ list # <<>>) :
                list \in Lists, per \in 0..2, resume, c \in BOOLEAN} \cup {BindAck(a, n) : n \in 0..3}
               \cup {With(a, "bytes", n) : n \in {0, 5}}
        [] command = "SessionSetup" ->
             {With(a, "bytes", 3)}
               \cup {Challenge(a, list[1], long, raw) :
                       list \in {l \in Lists : Len(l) > 1}, long, raw \in BOOLEAN}
        [] command = "Negotiate" -> {With(a, "bytes", n) : n \in {0, 3}}
        [] OTHER -> {a}

ServeReply ==
  /\ pc = "sent"
  /\ m' \in AnswersTo(asked)
  /\ pc' = "reply" /\ req' = None
  /\ UNCHANGED <<asked, damage, pos, end, left, outer, got, ok, reach>>

\* The reply ends early: a server or a proxy sent less than it announced.
Cut ==
  /\ pc = "reply" /\ damage = "none"
  /\ \E n \in 0..m.size - 1 : m' = [m EXCEPT !.size = n]
  /\ damage' = "cut"
  /\ UNCHANGED <<pc, req, asked, pos, end, left, outer, got, ok, reach>>

\* One field is not what the server meant.
Change ==
  /\ pc = "reply" /\ damage = "none"
  /\ \/ m' \in {[m EXCEPT !.command = "Echo"], [m EXCEPT !.flag = FALSE],
                [m EXCEPT !.status = "ACCESS_DENIED"], [m EXCEPT !.smb2 = FALSE],
                [m EXCEPT !.structure = @ + 1], [m EXCEPT !.offered = FALSE],
                [m EXCEPT !.count = @ + 1], [m EXCEPT !.count = 0],
                [m EXCEPT !.count = @ + 1, !.array = m.count + 1],
                [m EXCEPT !.frag = @ + 1], [m EXCEPT !.frag = 16], [m EXCEPT !.frag = 36],
                [m EXCEPT !.array = 0], [m EXCEPT !.container = FALSE],
                [m EXCEPT !.per = 0], [m EXCEPT !.per = 2],
                [m EXCEPT !.resume = ~@], [m EXCEPT !.granted = FALSE]}
     \/ \E i \in DOMAIN m.bufs :
          \/ \E n \in {0, 63, 64, 65, m.size, m.size + 1} : m' = [m EXCEPT !.bufs[i].off = n]
          \/ \E n \in {0, 1, m.bufs[i].len + 1, m.size} : m' = [m EXCEPT !.bufs[i].len = n]
     \/ \E p \in DOMAIN m.cells :
          \/ \E n \in {0, 1, 4, 8, m.cells[p].next + 1, m.cells[p].next + 4, m.size} :
               m' = [m EXCEPT !.cells[p].next = n]
          \/ \E n \in {0, 1, m.cells[p].len + 1, m.cells[p].len + 2, m.size} :
               m' = [m EXCEPT !.cells[p].len = n]
  /\ m' # m
  /\ damage' = "changed"
  /\ UNCHANGED <<pc, req, asked, pos, end, left, outer, got, ok, reach>>

-----------------------------------------------------------------------------
(* The decoders.  Each checks the header, the command, the direction, the   *)
(* status, the size of the fixed part, the structure size and the buffers,  *)
(* in this order; what differs is in its row.                               *)

Row(fixed, structure, accepts) ==
  [fixed |-> fixed, structure |-> structure, accepts |-> accepts, ends |-> {},
   always |-> FALSE]
Success == {"SUCCESS"}

\* An empty security buffer has to be in bounds as well.
decodeNegotiateResponse == [Row(64, 65, Success) EXCEPT !.always = TRUE]
decodeSessionSetupResponse == Row(8, 9, Success \cup {"MORE_PROCESSING"})
decodeTreeConnectResponse == Row(16, 16, Success)
decodeTreeDisconnectResponse == Row(4, 4, Success)
decodeLogoffResponse == Row(4, 4, Success)
decodeCreateResponse == Row(88, 89, Success)
decodeCloseResponse == Row(60, 60, Success)
decodeReadResponse == Row(16, 17, Success)
decodeWriteResponse == Row(16, 17, Success)
decodeIoctlResponse == Row(48, 49, Success)
decodeSetInfoResponse == Row(2, 2, Success)
decodeQueryInfoResponse == Row(8, 9, Success)
decodeQueryDirectoryResponse == [Row(8, 9, Success) EXCEPT !.ends = {"NO_MORE_FILES"}]
decodeChangeNotifyResponse == Row(8, 9, Success \cup {"NOTIFY_ENUM_DIR"})

Decoder ==
  [Negotiate |-> decodeNegotiateResponse, SessionSetup |-> decodeSessionSetupResponse,
   TreeConnect |-> decodeTreeConnectResponse, TreeDisconnect |-> decodeTreeDisconnectResponse,
   Logoff |-> decodeLogoffResponse, Create |-> decodeCreateResponse,
   Close |-> decodeCloseResponse, Read |-> decodeReadResponse, Write |-> decodeWriteResponse,
   Ioctl |-> decodeIoctlResponse, SetInfo |-> decodeSetInfoResponse,
   QueryInfo |-> decodeQueryInfoResponse, QueryDirectory |-> decodeQueryDirectoryResponse,
   ChangeNotify |-> decodeChangeNotifyResponse]

\* decodeSmb2SyncHeader, and what every decoder asks of the header.
decodeSmb2SyncHeader ==
  m.size >= Header /\ m.smb2 /\ m.command = asked /\ m.flag

\* The check that trusts the length the server gives.
InBoundsByOffset(b) ==
  \/ b.len = 0 /\ ~Decoder[asked].always
  \/ b.off >= Header /\ b.off <= m.size

\* bufferInBounds, as the decoders of one buffer write it out.
InBounds(b) ==
  \/ b.len = 0 /\ ~Decoder[asked].always
  \/ b.off >= Header /\ b.off + b.len <= m.size

Reads(n) == reach' = Larger(reach, n)
Ends(verdict) ==
  /\ pc' = "done" /\ ok' = verdict
  /\ UNCHANGED <<req, asked, m, damage, pos, end, left, outer>>
Fails == Ends(FALSE) /\ UNCHANGED got
Goes(p, e, n) ==
  /\ pc' = "walk" /\ pos' = p /\ end' = e /\ left' = n
  /\ UNCHANGED <<req, asked, m, damage, outer, got, ok>>

\* The reply is refused before its buffers are looked at.
Refuse ==
  /\ pc = "reply"
  /\ LET d == Decoder[asked]
         fixed == Header + d.fixed
     IN  \/ ~decodeSmb2SyncHeader /\ Reads(IF m.size < Header THEN 0 ELSE Header)
         \/ /\ decodeSmb2SyncHeader
            /\ m.status \notin d.accepts \cup d.ends \/ (m.status \in d.accepts /\ m.size < fixed)
            /\ Reads(Header)
         \/ /\ decodeSmb2SyncHeader /\ m.status \in d.accepts /\ m.size >= fixed
            /\ \/ m.structure # d.structure
               \/ asked = "Negotiate" /\ ~m.offered
               \/ \E i \in DOMAIN m.bufs : ~InBounds(m.bufs[i])
            /\ Reads(fixed)
  /\ Fails

\* STATUS_NO_MORE_FILES ends a listing; nothing after the header is read.
NoMoreFiles ==
  /\ pc = "reply" /\ decodeSmb2SyncHeader /\ m.status \in Decoder[asked].ends
  /\ Reads(Header)
  /\ Ends(TRUE) /\ UNCHANGED got

\* The envelope holds: its fields, and the buffers it copies, are read.
Accepted ==
  LET d == Decoder[asked]
  IN  /\ decodeSmb2SyncHeader /\ m.status \in d.accepts
      /\ m.size >= Header + d.fixed /\ m.structure = d.structure
      /\ asked = "Negotiate" => m.offered
      /\ \A i \in DOMAIN m.bufs : InBounds(m.bufs[i])

\* The buffer with the payload, and the bytes of it that are copied.
Buffer == IF m.bufs = <<>> THEN [off |-> 0, len |-> 0] ELSE Last(m.bufs)
BufferEnd == Buffer.off + Buffer.len
\* The end of the first n bytes of the payload, when any are read.
Within(n) == IF n = 0 THEN 0 ELSE Buffer.off + n
Fixed == Header + Decoder[asked].fixed
Copied == Larger(Fixed, Within(Buffer.len))

\* Payloads of a fixed layout: the whole reply is decoded.
FixedSize == [basic |-> 40, standard |-> 24, copychunk |-> 12, bytes |-> 0, none |-> 0]
DecodeFixed ==
  /\ pc = "reply" /\ Accepted /\ m.kind \in DOMAIN FixedSize
  /\ LET fits == Buffer.len >= FixedSize[m.kind]
     IN  /\ Reads(Larger(Copied, Within(IF fits THEN FixedSize[m.kind] ELSE 0)))
         /\ Ends(fits) /\ UNCHANGED got

\* QUERY_DIRECTORY, CHANGE_NOTIFY and extended attributes: a chain of entries.
StartChain ==
  /\ pc = "reply" /\ Accepted /\ m.kind \in {"dir", "notify", "ea"}
  /\ Reads(Fixed)
  /\ Goes(Buffer.off, BufferEnd, 0)

decodeDfsReferralResponse ==
  /\ pc = "reply" /\ Accepted /\ m.kind = "dfs"
  /\ Reads(Copied)
  /\ \/ Buffer.len < 8 /\ Fails
     \/ Buffer.len >= 8 /\ Goes(Buffer.off + 8, BufferEnd, m.count)

\* validateCommonHeader: one fragment, no longer than what was read.
validateCommonHeader(least) ==
  Buffer.len >= 16 /\ m.frag >= Larger(16, least) /\ m.frag <= Buffer.len

\* There has to be a result (count: the size of the address before it), and it has
\* to accept the context.
decodeDcerpcBindAck ==
  /\ pc = "reply" /\ Accepted /\ m.kind = "bind"
  /\ LET fits == /\ validateCommonHeader(36)
                 /\ 26 + m.count <= m.frag
                 /\ Aligned(26 + m.count, 4) + 4 + 24 <= m.frag
                 /\ m.array # 0
     IN  /\ Reads(Larger(Fixed, Within(IF fits THEN Aligned(26 + m.count, 4) + 28 ELSE 0)))
         /\ Ends(fits /\ m.granted) /\ UNCHANGED got

\* decodeDcerpcResponse, then decodeNetrShareEnumResponseStub up to the strings.
StartShares ==
  /\ pc = "reply" /\ Accepted /\ m.kind = "shares"
  /\ LET listed == m.container /\ m.array # None
         need == (IF m.container THEN 20 ELSE 12) + (IF listed THEN 4 + (12 * m.count) ELSE 0)
         fits == /\ validateCommonHeader(24)
                 /\ need <= m.frag - 24
                 /\ IF listed THEN m.array >= m.count ELSE m.container => m.count = 0
     IN  /\ Reads(Larger(Fixed, Within(IF fits THEN 24 + need ELSE 0)))
         /\ \/ ~fits /\ Fails
            \/ fits /\ Goes(Buffer.off + 24 + need, Buffer.off + m.frag,
                            IF listed THEN m.per * m.count ELSE 0)

-----------------------------------------------------------------------------
(* The walks, one cell a step.                                              *)

\* What stands where no cell begins.
Garbage == {Cell(n, l, x, None) : n \in {0, 1, 36, 108}, l \in {0, 1, 2, 200}, x \in {0, 34}}
CellsAt == IF pos \in DOMAIN m.cells THEN {m.cells[pos]} ELSE Garbage

\* DER has no alignment: a value that fills the one around it, or is a byte too long.
DerGarbage ==
  {Cell(Larger(0, end - pos - n), l, x, None) :
     n \in {1, 2}, l \in {0, 9}, x \in {Primitive, Constructed}}
ValuesAt == IF pos \in DOMAIN m.cells THEN {m.cells[pos]} ELSE DerGarbage

\* The text of `length' bytes at a cell: the server's, or whatever is there.
TextAt(c, length) ==
  IF c.units # None /\ length = 2 * Len(c.units) THEN {decodeUtf16Le(c.units)}
  ELSE IF length % 2 = 1 THEN {None} ELSE {None, <<>>}

EntrySize == [dir |-> 104, notify |-> 12, ea |-> 8]

\* The check that asks for a byte between two entries.
NextIsBadOrTight(c) ==
  /\ c.next # 0
  /\ \/ m.kind = "notify" /\ c.next % 4 # 0
     \/ c.next <= EntrySize[m.kind] + (IF m.kind = "ea" THEN 0 ELSE c.len)
     \/ pos + c.next > end

\* The distance to the next entry is not one.
NextIsBad(c) ==
  /\ c.next # 0
  /\ \/ m.kind = "notify" /\ c.next % 4 # 0
     \/ c.next < EntrySize[m.kind] + (IF m.kind = "ea" THEN 0 ELSE c.len)
     \/ pos + c.next > end

Take(name) == got' = Append(got, name)
Follow(c) ==
  IF c.next = 0 THEN Ends(TRUE)
  ELSE /\ pos' = pos + c.next
       /\ UNCHANGED <<pc, req, asked, m, damage, end, left, outer, ok>>

Truncated ==
  /\ pc = "walk" /\ m.kind \in DOMAIN EntrySize /\ pos < end /\ end - pos < EntrySize[m.kind]
  /\ UNCHANGED reach /\ Fails

NextName ==
  /\ pc = "walk" /\ m.kind \in {"dir", "notify"}
  /\ pos < end /\ end - pos >= EntrySize[m.kind]
  /\ \E c \in CellsAt :
       LET nameEnd == pos + EntrySize[m.kind] + c.len
       IN  \/ /\ nameEnd > end \/ NextIsBad(c)
              /\ Reads(pos + EntrySize[m.kind]) /\ Fails
           \/ /\ nameEnd <= end /\ ~NextIsBad(c)
              /\ Reads(nameEnd)
              /\ \E t \in TextAt(c, c.len) :
                   IF t = None THEN Fails ELSE Take(t) /\ Follow(c)

\* decodeFileFullEaInformation: the byte after the name has to be NUL.
NextAttribute ==
  /\ pc = "walk" /\ m.kind = "ea" /\ pos < end /\ end - pos >= EntrySize.ea
  /\ \E c \in CellsAt :
       LET entryEnd == pos + EntrySize.ea + c.len + 1 + c.extra
           whole == c.units # None /\ c.len = Len(c.units.utf8)
       IN  \/ entryEnd > end /\ Reads(pos + EntrySize.ea) /\ Fails
           \/ /\ entryEnd <= end /\ Reads(entryEnd)
              /\ \/ (~whole \/ NextIsBad(c)) /\ Fails
                 \/ /\ ~NextIsBad(c)
                    /\ Take(IF whole THEN c.units.utf8 ELSE <<>>) /\ Follow(c)

ChainEnds ==
  /\ pc = "walk" /\ m.kind \in DOMAIN EntrySize /\ pos >= end
  /\ UNCHANGED <<reach, got>> /\ Ends(TRUE)

\* decodeReferralEntry and readReferralString; cell: the entry's size and
\* version's least size, and where its string begins.
NextReferral ==
  /\ pc = "walk" /\ m.kind = "dfs" /\ left > 0
  /\ \/ pos + 4 > end /\ UNCHANGED reach /\ Fails
     \/ /\ pos + 4 <= end
        /\ \E c \in CellsAt :
             LET string == pos + c.len
                 stop == IF c.units = None THEN end ELSE string + (2 * Len(c.units)) + 2
                 sound == c.next # 0 /\ pos + c.next <= end /\ c.extra > 0 /\ c.next >= c.extra
             IN  \/ ~sound /\ Reads(pos + 4) /\ Fails
                 \/ sound /\ string >= end /\ Reads(pos + c.extra) /\ Fails
                 \/ /\ sound /\ string < end
                    /\ \E t \in IF damage = "changed" THEN {None, <<>>}
                                ELSE IF stop > end THEN {None} ELSE TextAt(c, 2 * Len(c.units)) :
                         /\ Reads(IF stop > end THEN end ELSE Larger(stop, pos + c.extra))
                         /\ IF t = None THEN Fails
                            ELSE /\ Take(t)
                                 /\ pos' = pos + c.next /\ left' = left - 1
                                 /\ UNCHANGED <<pc, req, asked, m, damage, end, outer, ok>>

ReferralsEnd ==
  /\ pc = "walk" /\ m.kind = "dfs" /\ left = 0
  /\ UNCHANGED <<reach, got>> /\ Ends(TRUE)

\* NdrCursor::readUtf16String: three counts, the text with its NUL, padding.
NextString ==
  /\ pc = "walk" /\ m.kind = "shares" /\ left > 0
  /\ \/ pos + 12 > end /\ UNCHANGED reach /\ Fails
     \/ /\ pos + 12 <= end
        /\ \E c \in CellsAt :
             LET stop == pos + 12 + (2 * c.len)
                 stub == Buffer.off + 24
                 next == stub + Aligned(stop - stub, 4)
             IN  \/ (c.len > c.extra \/ stop > end) /\ Reads(pos + 12) /\ Fails
                 \/ /\ c.len <= c.extra /\ stop <= end /\ Reads(stop)
                    /\ \E t \in TextAt(c, Larger(0, (2 * c.len) - 2)) :
                         IF t = None \/ next > end THEN Fails
                         ELSE /\ Take(t) /\ pos' = next /\ left' = left - 1
                              /\ UNCHANGED <<pc, req, asked, m, damage, end, outer, ok>>

\* The total, the resume handle unless it is null, and the status after the shares.
SharesEnd ==
  /\ pc = "walk" /\ m.kind = "shares" /\ left = 0
  /\ LET stop == pos + (IF m.resume THEN 16 ELSE 12)
     IN  \/ stop > end /\ UNCHANGED reach /\ Fails
         \/ stop <= end /\ Reads(stop) /\ Ends(m.granted) /\ UNCHANGED got

(* findNtlmOctetString, then decodeNtlmChallengeMessage.                    *)

startsWithNtlmSignature(from, to) ==
  to - from >= 8 /\ from \in DOMAIN m.cells /\ m.cells[from].extra = Ntlmssp

\* A token need not be wrapped.
StartToken ==
  /\ pc = "reply" /\ Accepted /\ m.kind = "token"
  /\ Reads(Copied)
  /\ Goes(Buffer.off, BufferEnd,
          IF startsWithNtlmSignature(Buffer.off, BufferEnd) THEN 2 ELSE 1)

\* A value that does not hold the token, or not a sound one, is passed over; the
\* outermost one ends the search.
PassOver ==
  IF outer = <<>> THEN Fails
  ELSE /\ pos' = end /\ end' = Head(outer) /\ outer' = Tail(outer)
       /\ UNCHANGED <<pc, req, asked, m, damage, left, got, ok>>

Enter(from, to, n, ends) ==
  /\ pos' = from /\ end' = to /\ left' = n /\ outer' = ends
  /\ UNCHANGED <<pc, req, asked, m, damage, got, ok>>

NextValue ==
  /\ pc = "walk" /\ m.kind = "token" /\ left = 1
  /\ IF pos >= end THEN UNCHANGED reach /\ PassOver
     ELSE \E c \in ValuesAt :
       LET from == pos + 2 + c.len
           to == from + c.next
           nests == c.extra \notin {Primitive, OctetString}
       IN  IF pos + 1 >= end THEN Reads(pos + 1) /\ PassOver
           ELSE IF c.len > 8 \/ from > end THEN Reads(pos + 2) /\ PassOver
           ELSE IF to > end THEN Reads(from) /\ PassOver
           ELSE /\ Reads(to)
                /\ IF c.extra # Primitive /\ startsWithNtlmSignature(from, to)
                   THEN Enter(from, to, 2, outer)
                   ELSE IF nests /\ Len(outer) < 16
                   THEN Enter(from, to, 1, <<end>> \o outer)
                   ELSE Enter(to, end, 1, outer)

\* readSecurityBuffer of name and target information.
decodeNtlmChallengeMessage ==
  /\ pc = "walk" /\ m.kind = "token" /\ left = 2
  /\ LET c == m.cells[pos]
         name == pos + 56 + c.len
         info == pos + 56 + (2 * Len(c.units))
     IN  IF end - pos < 48 THEN Reads(pos + 8) /\ Fails
         ELSE IF (c.len > 0 /\ name > end) \/ (c.next > 0 /\ info + c.next > end)
         THEN Reads(pos + 48) /\ Fails
         ELSE /\ Reads(pos + 48)
              /\ \E t \in TextAt(c, c.len) :
                   IF t = None THEN Fails
                   ELSE /\ Take(t)
                        /\ IF c.next = 0 THEN Ends(TRUE)
                           ELSE /\ pos' = info /\ end' = info + c.next /\ left' = 3
                                /\ UNCHANGED <<pc, req, asked, m, damage, outer, ok>>

\* timestampFromTargetInfo: up to the timestamp or the terminator.
NextPair ==
  /\ pc = "walk" /\ m.kind = "token" /\ left = 3
  /\ IF pos + 4 > end THEN UNCHANGED reach /\ Fails
     ELSE \E c \in CellsAt :
       IF pos + 4 + c.next > end THEN Reads(pos + 4) /\ Fails
       ELSE IF c.len = 7 /\ c.next = 8
       THEN Reads(pos + 12) /\ Ends(TRUE) /\ UNCHANGED got
       ELSE /\ Reads(pos + 4)
            /\ IF c.len = 0 THEN Ends(TRUE) /\ UNCHANGED got
               ELSE IF c.len = 7 THEN Fails
               ELSE Enter(pos + 4 + c.next, end, 3, outer)

Forget ==
  /\ pc = "done"
  /\ pc' = "idle" /\ m' = None /\ damage' = "none"
  /\ pos' = 0 /\ end' = 0 /\ left' = 0 /\ outer' = <<>> /\ got' = <<>> /\ reach' = 0
  /\ asked' = None /\ ok' = FALSE /\ req' = None

CodecInit ==
  /\ pc = "idle" /\ req = None /\ asked = None /\ m = None /\ damage = "none"
  /\ pos = 0 /\ end = 0 /\ left = 0 /\ outer = <<>> /\ got = <<>> /\ ok = FALSE /\ reach = 0

CodecNext ==
  \/ SendRequest \/ ServeReply \/ Cut \/ Change
  \/ Refuse \/ NoMoreFiles \/ DecodeFixed \/ StartChain
  \/ decodeDfsReferralResponse \/ decodeDcerpcBindAck \/ StartShares
  \/ Truncated \/ NextName \/ NextAttribute \/ ChainEnds
  \/ NextReferral \/ ReferralsEnd \/ NextString \/ SharesEnd
  \/ StartToken \/ NextValue \/ decodeNtlmChallengeMessage \/ NextPair
  \/ Forget

CodecSpec == CodecInit /\ [][CodecNext]_codecVars

-----------------------------------------------------------------------------
(* Properties.                                                              *)

\* What a decoder is given: the message; of a message that was accepted its fixed
\* part and the buffer that is copied; of a DCE/RPC PDU in it the one fragment.
Given ==
  IF ~Accepted THEN m.size
  ELSE IF m.kind \in {"bind", "shares"} THEN Larger(Fixed, Within(Smaller(m.frag, Buffer.len)))
  ELSE Copied

\* Whatever a reply holds, and wherever it was cut, no decoder copies a buffer from
\* behind its end or reads past what it was given: the buffer checks of Protocol.cpp
\* and the checks of each list cover every byte that is looked at afterwards.
ReadsInBounds ==
  m # None => reach <= Given /\ (Accepted => Copied <= m.size)

\* A reply laid out as the protocol says is decoded, with the names the server
\* sent, list by list and character by character; and one that lost its end is
\* never taken for a shorter list.
RepliesComeBack ==
  pc = "done" =>
    /\ damage = "none" => ok
    /\ ok /\ damage \in {"none", "cut"} => got = m.names

\* The server finds every part of a request where the request says it is: the
\* offsets the builders write are the positions at which they append, lengths
\* fit their fields, the fixed part is the one its structure size announces,
\* the credits pay for the payload, text arrives as the Unicode standard writes
\* it, and the frame is as long as its header says.
RequestsArrive ==
  pc = "sent" =>
    /\ \A p \in req.parts : p.len > 0 => p.off = p.at /\ p.declared = p.len
    /\ \A p \in req.parts : p.units = p.want
    /\ req.fixed = req.structure - (req.structure % 2)
    /\ req.charge * 65536 >= req.length
    /\ decodeDirectTcpPayloadLength(encodeDirectTcpFrame(req.size)) = req.size
=============================================================================
