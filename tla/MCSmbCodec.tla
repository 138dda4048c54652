---------------------------- MODULE MCSmbCodec ----------------------------
(* Characters at the edges of every encoded length, as the Unicode standard *)
(* writes them.                                                             *)
EXTENDS SmbCodec

Text(a, b) == [utf8 |-> a, utf16 |-> b]
Empty == Text(<<>>, <<>>)
Ascii == Text(<<97>>, <<97>>)
Chars == {Ascii, Text(<<127>>, <<127>>), Text(<<194, 128>>, <<128>>),
          Text(<<223, 191>>, <<2047>>), Text(<<224, 160, 128>>, <<2048>>),
          Text(<<237, 159, 191>>, <<55295>>), Text(<<238, 128, 128>>, <<57344>>),
          Text(<<239, 191, 191>>, <<65535>>), Text(<<240, 144, 128, 128>>, <<55296, 56320>>),
          Text(<<240, 159, 152, 128>>, <<55357, 56832>>),
          Text(<<244, 143, 191, 191>>, <<56319, 57343>>)}
Joined(s, t) == Text(s.utf8 \o t.utf8, s.utf16 \o t.utf16)
Smiley == Text(<<240, 159, 152, 128>>, <<55357, 56832>>)

MCTexts == {Empty} \cup Chars \cup {Joined(Ascii, c) : c \in Chars}
MCLists ==
  LET names == {Ascii, Joined(Ascii, Ascii), Joined(Ascii, Smiley)}
  IN  {<<>>} \cup {<<c>> : c \in Chars} \cup {<<s, t>> : s, t \in names}
       \cup {<<Ascii, Joined(Ascii, Smiley), Ascii>>}
\* Around the sizes at which a DER length takes another byte.
MCResponses == {0} \cup 20..48 \cup 150..180
MCSizes == {0, 1, 65535, 65536, 65537, 131073, 16777103, 16777104}
=============================================================================
