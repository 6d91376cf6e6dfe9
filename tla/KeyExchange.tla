----------------------------- MODULE KeyExchange -----------------------------
(***************************************************************************)
(* KeyExchange.cpp: a public key as text that users mail to one another.   *)
(***************************************************************************)
EXTENDS Base64

CONSTANT PublicKeyBytes  \* crypto_kx_PUBLICKEYBYTES: 32 in libsodium

ASSUME PublicKeyBytesAssumption == PublicKeyBytes \in Nat \ {0}

\* "FANTOM-PUBKEY-V1:", in two characters none of which is base64.
Header == <<71, 72>>

ExportPublicKey(key) == Header \o ToBase64(key)

\* QString::trimmed.
Trimmed(s) ==
  LET Ink == {i \in DOMAIN s : s[i] # Space}
  IN  IF Ink = {} THEN <<>> ELSE SubSeq(s, Min(Ink), Max(Ink))

\* QString::split at newlines.
LinesOf(text) ==
  FoldLeft(LAMBDA ls, c : IF c = NewLine
                          THEN Append(ls, <<>>)
                          ELSE Append(Front(ls), Append(Last(ls), c)),
           << <<>> >>, text)

\* Mutant: only lines with # are comments.
IsCommentHash(line) == line # <<>> /\ line[1] = Hash

IsComment(line) ==
  \/ line # <<>> /\ line[1] = Hash
  \/ Len(line) >= 2 /\ line[1] = Slash /\ line[2] = Slash

StripCommentsAndWhitespace(text) ==
  FlattenSeq(SelectSeq([i \in DOMAIN LinesOf(text) |-> Trimmed(LinesOf(text)[i])],
                       LAMBDA line : ~IsComment(line)))

NoKey == <<>>
ImportPublicKey(text) ==
  LET cleaned == StripCommentsAndWhitespace(text)
      raw     == CASE IsPrefix(Header, cleaned) ->
                        FromBase64(SubSeq(cleaned, Len(Header) + 1, Len(cleaned)))
                   [] ~IsPrefix(Header, cleaned) /\ Len(cleaned) >= 4
                        /\ \A i \in DOMAIN cleaned : cleaned[i] \in Alphabet \union {Pad} ->
                        FromBase64(cleaned)
                   [] OTHER -> NoKey
  IN  IF Len(raw) = PublicKeyBytes THEN raw ELSE NoKey
=============================================================================
