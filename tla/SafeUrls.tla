------------------------------- MODULE SafeUrls -------------------------------
(***************************************************************************)
(* What the projector makes of the text of one URL                         *)
(* (versioning/diagnostic_projection): which of its decoded layers has a   *)
(* host, that host, its path as it may be shown, whether a secret hides    *)
(* either, and the identity its fingerprint is computed from.  A text is   *)
(* the items of the recognizer, so that its parts keep their offsets.      *)
(*                                                                         *)
(* Left out are ports, IP literals, IDNA, dot segments, white space about a*)
(* decoded host and the letters' case: a host is a word of symbols none of *)
(* which has a meaning in a URL.                                           *)
(***************************************************************************)
EXTENDS UrlRecognizer

Marked(marker) == <<[sym |-> marker, from |-> NoOffset, to |-> NoOffset, escaped |-> FALSE]>>
RedactedUrl == Marked("<redacted>")
RedactedSecret == Marked("<secret>")
RedactedHost == Marked("<redacted-host>")
RedactedPath == Marked("/<redacted-path>")
OversizedToken == Marked("[sanitized oversized token]")
IncompleteToken == Marked("[sanitized incomplete token]")

Delimiters == {"/", "?", "#"}
Word(item) == item.sym \notin Delimiters \cup Terminators \cup {":", "@", "%"}
Places(items, symbols) == {i \in 1..Len(items) : items[i].sym \in symbols}
UpTo(items, symbols) ==
  LET at == Places(items, symbols) IN IF at = {} THEN items ELSE SubSeq(items, 1, Min(at) - 1)
AfterLast(items, symbol) ==
  LET at == Places(items, {symbol}) IN IF at = {} THEN items ELSE SubSeq(items, Max(at) + 1, Len(items))
Within(s, t) == \E i \in 1..Len(t) + 1 : IsPrefix(s, SubSeq(t, i, Len(t)))

\* The text and its URL_DECODE_LAYER_LIMIT decoded views; a text no pass
\* changes any more is its own next view.
LayersOf(items) ==
  LET view[d \in 0..Layers - 1] == IF d = 0 THEN items ELSE Unquote(view[d - 1]) IN view
DecodedAt(items, depth) == LayersOf(items)[depth]

\* urlsplit: the scheme, the authority and the path of a text, and whether it
\* has the first two.
SchemeOf(items) == UpTo(items, {":"})
AfterScheme(items) == SubSeq(items, Len(SchemeOf(items)) + Len(Separator) + 1, Len(items))
HasAuthority(items) ==
  /\ SchemeOf(items) # <<>> /\ \A item \in ToSet(SchemeOf(items)) : Word(item)
  /\ IsPrefix(SymbolsOf(SchemeOf(items)) \o Separator, SymbolsOf(items))
Authority(items) == UpTo(AfterScheme(items), Delimiters)
PathOf(items) ==
  UpTo(SubSeq(AfterScheme(items), Len(Authority(items)) + 1, Len(AfterScheme(items))), {"?", "#"})

\* _normalized_host: the host, or nothing.
LiteralHost(items) ==
  LET host == AfterLast(Authority(items), "@")
  IN IF HasAuthority(items) /\ \A item \in ToSet(host) : Word(item) THEN host ELSE <<>>

\* _candidate_url_layer: the first view with a host; a set of at most one depth.
UrlDepth(items) == Earliest({d \in 0..Layers - 1 : LiteralHost(DecodedAt(items, d)) # <<>>})
UrlLayer(items) == DecodedAt(items, Min(UrlDepth(items)))

\* _is_escape_complete.
EscapeAt(items, i) == i + 2 <= Len(items) /\ <<items[i + 1].sym, items[i + 2].sym>> \in DOMAIN Escapes
EscapesComplete(items) == \A i \in Places(items, {"%"}) : EscapeAt(items, i)

\* _normalize_percent_encoding: an escaped word symbol is that symbol, every
\* other escape stays what it is.
Normalized(path) ==
  LET rest[i \in 1..Len(path) + 1] ==
        IF i > Len(path) THEN <<>>
        ELSE IF path[i].sym # "%" THEN <<path[i]>> \o rest[i + 1]
        ELSE LET decoded == Unquote(SubSeq(path, i, i + 2))
             IN (IF Word(decoded[1]) THEN decoded ELSE SubSeq(path, i, i + 2)) \o rest[i + 3]
  IN rest[1]

\* _path_contains_secret, either way round and in every view.
PathHidden(path, secrets) ==
  \E s \in secrets : \E d \in 0..Layers - 1 :
    LET view == SymbolsOf(DecodedAt(path, d)) IN Within(s, view) \/ Within(view, s)

\* _canonical_safe_path and _safe_host_path.
Canonical(path) == IF path = <<>> THEN <<Item("/", NoOffset)>> ELSE Normalized(path)
SafeForm(path, canonical, secrets) ==
  IF EscapesComplete(path) /\ \A form \in {path, canonical} : ~PathHidden(form, secrets) THEN canonical ELSE RedactedPath
SafePath(path, secrets) == SafeForm(path, Canonical(path), secrets)

\* _host_contains_secret, with the hosts a secret itself is the URL or the
\* authority of.
HostsOf(text) == {SymbolsOf(LiteralHost(text)), SymbolsOf(AfterLast(UpTo(text, Delimiters), "@"))}
HostHidden(host, secrets) ==
  \E s \in secrets :
    \/ \E d \in 0..Layers - 1 : host \in HostsOf(DecodedAt([i \in 1..Len(s) |-> Item(s[i], i)], d))
    \/ Within(host, s) \/ Within(s, host)

\* _is_complete_url_literal over the views: the host of a URL the stream ends in
\* is whole when it has a dot.
CompleteAtEnd(items) ==
  \E d \in 0..Layers - 1 : LET view == DecodedAt(items, d) IN
    EscapesComplete(view) /\ "." \in ToSet(SymbolsOf(LiteralHost(view)))

\* _raw_host_start: past the last "@" of the authority, decoded to its layer.
HostStart(layer, detected, boundary) ==
  Max({detected} \cup {item.to : item \in {i \in ToSet(layer) : i.sym = "@" /\ i.to <= boundary}})

\* _canonical_url_identity: scheme, host and path, and nothing else of the URL.
Identity(layer) == <<SymbolsOf(SchemeOf(layer)), SymbolsOf(LiteralHost(layer)), SymbolsOf(PathOf(layer))>>
=============================================================================
