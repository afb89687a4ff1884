------------------------- MODULE DiagnosticProjector -------------------------
(***************************************************************************)
(* The projector of diagnostic text (versioning/diagnostic_coordinator and *)
(* DiagnosticProjector): what is shown of a stream of which the recognizer *)
(* tells the URLs and the secrets.  It keeps the text it has not decided   *)
(* about, at most PendingLimit of it, and gives two products: the text of  *)
(* its display, and the one without any URL.                               *)
(***************************************************************************)
EXTENDS SafeUrls

CONSTANT PendingLimit       \* PENDING_LIMIT_BYTES, in symbols

\* __init__ and _init_coordination.
NewProjector(secrets, display) ==
  [rec |-> NewRecognizer(secrets), display |-> display, secrets |-> secrets,
   buffer |-> <<>>, start |-> 0, url |-> <<>>, overflow |-> FALSE, eof |-> FALSE,
   lastSecretEnd |-> NoOffset, selectedStart |-> NoOffset, selectedEnd |-> 0,
   out |-> <<>>, safe |-> <<>>,
   hosts |-> <<>>, hostPaths |-> <<>>, displays |-> <<>>, prints |-> <<>>]

Seen(p) == p.rec.consumed
PendingSize(p) == Len(p.buffer)
SourceTo(p, end) == SubSeq(p.buffer, 1, Min({end - p.start, Len(p.buffer)}))
Source(p) == p.buffer
OrElse(offset, other) == IF offset # NoOffset THEN offset ELSE other
AddNew(seq, value) == IF value \in ToSet(seq) THEN seq ELSE Append(seq, value)

\* _both, _safe_emit and _commit.
Show(p, items) == [p EXCEPT !.out = @ \o items]
Both(p, items) == [p EXCEPT !.out = @ \o items, !.safe = @ \o items]
CommitTo(p, end) ==
  LET to == Max({p.start, Min({end, Seen(p)})})
  IN [p EXCEPT !.start = to, !.buffer = SubSeq(@, to - p.start + 1, Len(@)), !.rec = Consume(@, to)]
ReleaseTo(p, end) == IF end > p.start THEN CommitTo(Both(p, SourceTo(p, end)), end) ELSE p

\* A possible bug: what may still be a secret does not hold the display back.
NeverHeld(p, boundary, final, decoded) == TRUE
\* _settled: no secret begun before the boundary may still come to be.
SecretsSettled(p, boundary, final, decoded) ==
  final \/ \A o \in SecretHold(p.rec, decoded, NoOffset, NoOffset) : o >= boundary

\* _coverage: a secret, decoded or not, lies in part between the two offsets.
Covered(p, start, end) ==
  start < end /\ \E m \in SecretRecords(p.rec, TRUE) : m.start < end /\ m.end > start

\* _settle_components: the host as soon as it is known to be whole, then the path.
Incomplete(p, final, abort) ==
  LET u == p.url[1]
      prefix == {o \in SecretHold(p.rec, TRUE, NoOffset, NoOffset) :
                   ~\E m \in SecretRecords(p.rec, TRUE) : m.start <= o /\ m.end >= Seen(p)}
  IN abort \/ (final /\ \E o \in prefix : o < OrElse(u.pathEnd, OrElse(u.end, Seen(p))))

\* A secret is in the host, or lies over it.
HostConcealed(p, layer, boundary) ==
  \/ HostHidden(SymbolsOf(LiteralHost(layer)), p.url[1].secrets)
  \/ Covered(p, HostStart(layer, p.url[1].detected, boundary), boundary)
WithHost(p, shown) == [Show(p, shown) EXCEPT !.url[1].hostDone = TRUE, !.url[1].host = shown]
ShownHost(p, layer, boundary) == IF HostConcealed(p, layer, boundary) THEN RedactedHost ELSE LiteralHost(layer)
SettleHost(p, boundary) ==
  LET source == SourceTo(p, OrElse(p.url[1].end, Seen(p)))
  IN IF ~p.url[1].eligible \/ UrlDepth(source) = {}
     THEN [Show(p, RedactedUrl) EXCEPT !.url[1].hostDone = TRUE, !.url[1].pathDone = TRUE]
     ELSE WithHost(p, ShownHost(p, UrlLayer(source), boundary))

WithPath(p, path) ==
  [Show(p, path) EXCEPT !.url[1].pathDone = TRUE, !.displays = AddNew(@, <<SymbolsOf(p.url[1].host), SymbolsOf(path)>>)]
ShownPath(p, path, boundary, pathEnd) ==
  IF path # <<>> /\ Covered(p, boundary, pathEnd) THEN RedactedPath ELSE SafePath(path, p.url[1].secrets)
SettlePath(p, boundary, pathEnd) ==
  WithPath(p, ShownPath(p, PathOf(UrlLayer(SourceTo(p, OrElse(p.url[1].end, Seen(p))))), boundary, pathEnd))

\* ... each as soon as its end is known and no secret may still come before it.
HostSettled(p, boundary, final) ==
  IF ~p.url[1].hostDone /\ SecretsSettled(p, boundary, final, TRUE) THEN SettleHost(p, boundary) ELSE p
PathSettled(p, boundary, pathEnd, final) ==
  IF /\ p.url[1].hostDone /\ ~p.url[1].pathDone /\ pathEnd # NoOffset
     /\ SecretsSettled(p, pathEnd, final, TRUE)
  THEN SettlePath(p, boundary, pathEnd) ELSE p
Settle(p, final, abort) ==
  LET u == p.url[1]
      boundary == OrElse(u.authorityEnd, u.end)
      pathEnd == OrElse(u.pathEnd, u.end)
  IN CASE p.display = "redacted" \/ u.pathDone -> p
       [] p.display # "redacted" /\ ~u.pathDone /\ Incomplete(p, final, abort) ->
            [Show(p, IncompleteToken) EXCEPT !.url[1].pathDone = TRUE]
       [] OTHER -> IF boundary = NoOffset THEN p
                   ELSE PathSettled(HostSettled(p, boundary, final), boundary, pathEnd, final)

\* _record_url: what is known of a whole URL; nothing when a secret is in its
\* host or ends where it begins.
WithFacts(p, layer, host, path) ==
  [p EXCEPT !.hosts = AddNew(@, host), !.hostPaths = AddNew(@, <<host, SymbolsOf(path)>>),
            !.prints = IF path = RedactedPath THEN @ ELSE Append(@, Identity(layer))]
RecordedPath(p, path, boundary, pathEnd) ==
  IF Covered(p, boundary, pathEnd) THEN RedactedPath ELSE SafePath(path, p.url[1].secrets)
RecordLayer(p, layer, boundary, pathEnd) ==
  IF HostConcealed(p, layer, boundary) THEN p
  ELSE WithFacts(p, layer, SymbolsOf(LiteralHost(layer)), RecordedPath(p, PathOf(layer), boundary, pathEnd))
RecordUrl(p, source) ==
  LET u == p.url[1]
  IN IF \/ ~u.eligible \/ UrlDepth(source) = {}
        \/ p.eof /\ u.end = Seen(p) /\ ~CompleteAtEnd(source)
     THEN p ELSE RecordLayer(p, UrlLayer(source), OrElse(u.authorityEnd, u.end), OrElse(u.pathEnd, u.end))

\* How a round of _drain_coordinated ends: with another one, or with the loop.
Continue(p) == [proj |-> p, another |-> TRUE]
Break(p) == [proj |-> p, another |-> FALSE]

\* A round with a URL open: it ends with its token, or with the
\* secret that reaches out of it.
CloseUrl(p, final, abort) ==
  LET u == p.url[1]
      end == Max({u.end} \cup {m.end : m \in {n \in SecretRecords(p.rec, FALSE) : n.start < u.end}})
  IN IF u.end = NoOffset \/ ~SecretsSettled(p, u.end, final, FALSE) THEN Break(p)
     ELSE Continue([CommitTo(IF abort THEN p ELSE RecordUrl(p, SourceTo(p, u.end)), end) EXCEPT !.url = <<>>])
DrainUrl(p, final, abort) == CloseUrl(Settle(p, final, abort), final, abort)

\* The secret that is to be shown next, the longest of those that begin first;
\* one already shown may have grown.
NextSecret(p) ==
  LET records == {m \in SecretRecords(p.rec, FALSE) : m.start >= p.selectedEnd \/ m.start = p.selectedStart}
  IN {m \in records : \A n \in records \ {m} : m.start < n.start \/ (m.start = n.start /\ m.end > n.end)}

ShowSecret(p, secret) ==
  LET q == ReleaseTo(p, secret.start)
      shown == secret.start >= q.start
      next == [(IF shown THEN Both(q, RedactedSecret) ELSE q) EXCEPT
                 !.selectedStart = IF shown THEN secret.start ELSE @,
                 !.selectedEnd = Max({@, secret.end}),
                 !.lastSecretEnd = IF Last(secret.pattern) \in Terminators THEN NoOffset ELSE secret.end]
  IN CommitTo(next, secret.end)

\* _find_terminator, in the buffer from an offset on; a set of at most one.
TerminatorFrom(p, offset) ==
  Earliest({i.from : i \in {j \in ToSet(p.buffer) : j.from >= offset /\ j.sym \in Terminators}})

\* The depth at which a URL is read, and _recover_component_boundaries.
DetectedDepth(source) ==
  LET Reads(layer) == HasAuthority(layer) /\ SymbolsOf(SchemeOf(layer)) \in Schemes
      depths == {d \in 0..Layers - 1 : Reads(DecodedAt(source, d))}
  IN IF depths = {} THEN 0 ELSE Min(depths)
BoundariesIn(url, layer) ==
  LET inside == {i \in ToSet(layer) : i.from >= url.detected /\ (url.end = NoOffset \/ i.from < url.end)}
      First(symbols) == LET at == {i.from : i \in {j \in inside : j.sym \in symbols}}
                        IN IF at = {} THEN NoOffset ELSE Min(at)
  IN [url EXCEPT !.authorityEnd = First(Delimiters), !.pathEnd = First({"?", "#"})]
Recover(url, source) == IF url.eligible THEN BoundariesIn(url, DecodedAt(source, url.depth)) ELSE url

\* A URL is found: its marker, and what is known of its parts already.
NewUrl(p, match, secrets, final) ==
  LET eligible == match.start = p.start /\ p.lastSecretEnd < match.start
      ends == TerminatorFrom(p, p.start)
  IN [start |-> match.start, detected |-> match.separatorEnd, eligible |-> eligible,
      end |-> IF ends # {} THEN Min(ends) ELSE IF final THEN Seen(p) ELSE NoOffset,
      authorityEnd |-> NoOffset, pathEnd |-> NoOffset, hostDone |-> FALSE, pathDone |-> FALSE,
      host |-> <<>>, depth |-> IF eligible THEN DetectedDepth(Source(p)) ELSE 0, secrets |-> secrets]
WithUrl(p, url) ==
  [p EXCEPT !.safe = @ \o RedactedUrl, !.out = IF p.display = "redacted" THEN @ \o RedactedUrl ELSE @,
            !.url = <<Recover(url, Source(p))>>]
MarkUrl(p, match, secrets, final) == WithUrl(p, NewUrl(p, match, secrets, final))
OpenUrl(p, match, final, abort) ==
  LET previous == IF final /\ ~abort THEN Source(p) ELSE Front(Source(p))
      withheld == match.start > p.start /\ Len(previous) >= match.separatorEnd - p.start
      secrets == IF withheld THEN {s \in p.secrets : ~IsPrefix(SymbolsOf(previous), s)} ELSE p.secrets
  IN [proj |-> Settle(MarkUrl(ReleaseTo(p, match.start), match, secrets, final), final, abort), another |-> final]

\* _entered_separator.
EnteredSeparator(source) ==
  \E d \in 0..Layers - 1 : Places(DecodedAt(source, d), {":", "/"}) # {}

\* Neither a URL nor a secret: the text up to what may still become one.
PlainText(p, prefix, final, abort) ==
  LET holds == prefix \cup UrlHold(p.rec)
      sensitive == prefix # {} \/ (UrlHold(p.rec) # {} /\ (abort \/ EnteredSeparator(Source(p))))
  IN IF final THEN CommitTo(Both(p, IF sensitive THEN IncompleteToken ELSE Source(p)), Seen(p))
     ELSE ReleaseTo(p, IF holds = {} THEN Seen(p) ELSE Min(holds))

\* The incomplete marker for what is held when nothing more comes.
GiveUp(p, end) == CommitTo(Both(p, IncompleteToken), end)

\* A round without one.
DrainText(p, final, abort) ==
  LET matches == EarliestCandidate(p.rec)
      match == CHOOSE c \in matches : TRUE
      secrets == NextSecret(p)
      secret == CHOOSE m \in secrets : TRUE
      held == SecretHold(p.rec, FALSE, p.selectedEnd, p.selectedStart)
      prefix == IF final /\ ~abort /\ matches # {} THEN {o \in held : o >= match.start} ELSE held
      secretFirst == secrets # {} /\ (matches = {} \/ secret.start < match.start)
      heldBeforeSecret == secrets # {} /\ \E o \in prefix : o < secret.start
      heldBeforeUrl == matches # {} /\ secrets = {} /\ \E o \in prefix : o < match.start
      shown == ShowSecret(p, secret)
      end == TerminatorFrom(ReleaseTo(p, secret.start), match.start)
      before == CASE heldBeforeUrl ->
                       [GiveUp(ReleaseTo(p, Min(prefix)), match.start) EXCEPT !.lastSecretEnd = match.start]
                  [] secretFirst -> shown
                  [] OTHER -> p
  IN CASE heldBeforeSecret -> Break(IF final THEN GiveUp(p, Seen(p)) ELSE ReleaseTo(p, Min(prefix)))
       [] heldBeforeUrl /\ ~final -> Break(ReleaseTo(p, Min(prefix)))
       [] secretFirst /\ ~heldBeforeSecret /\ (matches = {} \/ \E o \in end : o <= secret.end) -> Continue(shown)
       [] OTHER -> IF matches = {} THEN Break(PlainText(p, prefix, final, abort))
                   ELSE OpenUrl(before, match, final, abort)

\* _drain_coordinated: rounds as long as anything is pending.
Round(p, final, abort) == IF p.url # <<>> THEN DrainUrl(p, final, abort) ELSE DrainText(p, final, abort)
RECURSIVE Drain(_, _, _)
Drain(round, final, abort) ==
  IF round.another /\ PendingSize(round.proj) > 0
  THEN Drain(Round(round.proj, final, abort), final, abort) ELSE round.proj

\* What the symbol just fed tells of the open URL.
NoteBoundaries(p, symbol) ==
  LET u == p.url[1]
      event == {i \in Structural(p.rec, u.depth + 1) : i.from >= u.detected}
      first == (CHOOSE i \in event : TRUE)
  IN CASE p.url = <<>> -> p
       [] p.url # <<>> /\ u.end # NoOffset -> p
       [] p.url # <<>> /\ u.end = NoOffset /\ symbol \in Terminators -> [p EXCEPT !.url[1].end = Seen(p) - 1]
       [] OTHER -> IF event = {} THEN p
                   ELSE [p EXCEPT !.url[1].authorityEnd = OrElse(@, first.from),
                                  !.url[1].pathEnd = IF first.sym \in {"?", "#"} THEN OrElse(@, first.from) ELSE @]

\* discard_pending, and _begin_overflow: what is held is given up, and the
\* stream goes on with its next token.
DiscardPending(p) == [CommitTo(p, Seen(p)) EXCEPT !.url = <<>>, !.overflow = TRUE]
BeginOverflow(p) ==
  DiscardPending(
    IF p.url = <<>> THEN Both(p, OversizedToken)
    ELSE IF p.display # "redacted" /\ ~p.url[1].pathDone THEN Show(p, OversizedToken) ELSE p)

\* _feed of one symbol: of a token given up only the terminator is taken.
Taken(p, fed, symbol) ==
  LET skipped == CommitTo(fed, Seen(fed))
      owner == IF p.overflow THEN [skipped EXCEPT !.overflow = FALSE, !.start = @ - 1] ELSE fed
      owned == [owner EXCEPT !.buffer = Append(@, Item(symbol, Seen(p)))]
  IN IF p.overflow /\ symbol \notin Terminators THEN Break(skipped) ELSE Continue(NoteBoundaries(owned, symbol))
FeedSymbol(p, symbol) ==
  LET q == IF ~p.overflow /\ PendingSize(p) + 1 > PendingLimit THEN BeginOverflow(p) ELSE p
  IN Drain(Taken(q, [q EXCEPT !.rec = Recognize(@, symbol)], symbol), FALSE, FALSE)
ProjectText(p, text) == FoldLeft(FeedSymbol, [p EXCEPT !.out = <<>>, !.safe = <<>>], text)

\* finish: what is pending is decided about, unless its token was given up.
CloseAtEnd(p) == IF p.url = <<>> THEN p ELSE [p EXCEPT !.url[1].end = OrElse(@, Seen(p))]
FinishProjector(p, abort) ==
  LET ended == [p EXCEPT !.out = <<>>, !.safe = <<>>, !.eof = TRUE, !.rec = EndRecognizer(@), !.overflow = FALSE]
  IN Drain(IF p.overflow THEN Break(ended) ELSE Continue(CloseAtEnd(ended)), TRUE, abort)

\* take_facts, take_host_paths and take_host_path_displays.
WithoutFacts(p) == [p EXCEPT !.hosts = <<>>, !.prints = <<>>, !.hostPaths = <<>>, !.displays = <<>>]
=============================================================================
