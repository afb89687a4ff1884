------------------------- MODULE NpmDiagnosticStream -------------------------
(***************************************************************************)
(* One stream of npm's output (versioning/npm_diagnostic_stream), from the *)
(* framer to the lines a sink is given: the projector's products, cut into *)
(* lines, each with the hosts and fingerprints that were found in it, and  *)
(* the one text that is kept and shown as it comes.                        *)
(*                                                                         *)
(* The framer is modelled in SafeLines: here a source is what it hands     *)
(* over, in pieces, with its marker for a line it cut.  The recognition of *)
(* npm's fetch lines (npm_fetch) is left out, and with it what groups them.*)
(***************************************************************************)
EXTENDS DiagnosticProjector

CONSTANTS Displays,      \* NetworkUrlDisplay
          Streams,       \* [secrets, source] of the streams looked at
          TailLimit      \* TAIL_BYTES, in symbols

Cut == "[oversized line]"

\* "plain" is a second stream, which the properties compare with the first: it
\* has the same text, but shows no URLs and is given whole lines.
VARIABLES stream, source, place, plain
streamVars == <<stream, source, place, plain>>

\* NpmDiagnosticStream.__init__; "live" is what has been released of the line
\* as it came, "lines" are the finalized ones.
NewStream(secrets, mode) ==
  [mode |-> mode, proj |-> NewProjector(secrets, IF mode = "host-path" THEN "host-path" ELSE "redacted"),
   line |-> <<>>, selected |-> <<>>, live |-> <<>>, hosts |-> <<>>, prints |-> <<>>,
   overflowed |-> FALSE, tail |-> <<>>, released |-> <<>>, lines |-> <<>>, eof |-> FALSE, aborted |-> FALSE]

\* _append_tail.
Bounded(items) == SubSeq(items, Max({1, Len(items) - TailLimit + 1}), Len(items))
RetainItems(s, items) == [s EXCEPT !.tail = Bounded(@ \o items), !.released = @ \o items]
Selected(s, items) == RetainItems([s EXCEPT !.selected = @ \o items], items)
\* _local_prefix_chunks.
ShowLive(s, items) == [s EXCEPT !.live = @ \o SelectSeq(items, LAMBDA item : item.sym # Newline)]

\* _reset_line_facts, and _resync_line_facts for a line without anything.
ResetLine(s) ==
  [s EXCEPT !.line = <<>>, !.selected = <<>>, !.live = <<>>, !.hosts = <<>>, !.prints = <<>>, !.overflowed = FALSE]
ResyncLine(s) == [s EXCEPT !.selected = <<>>, !.hosts = <<>>, !.prints = <<>>]

\* _selected_local_text and _finalize_line.
LocalText(s, terminated) ==
  IF s.mode = "redacted" THEN s.line
  ELSE IF terminated /\ s.selected # <<>> /\ Last(s.selected).sym = Newline THEN Front(s.selected)
  ELSE s.selected
FinalizeLine(s, terminated) ==
  ResetLine([s EXCEPT !.lines = Append(@,
    [text |-> s.line, hosts |-> s.hosts, prints |-> s.prints, overflowed |-> s.overflowed,
     local |-> LocalText(s, terminated), live |-> s.live])])
LineOpen(s) == s.line # <<>> \/ s.hosts # <<>> \/ s.prints # <<>>

\* _emit_prefix and _emit_projected.
EmitItem(s, item) ==
  LET kept == IF s.mode = "redacted" THEN RetainItems(s, <<item>>) ELSE s
      prefixed == [kept EXCEPT !.line = Append(@, item)]
  IN IF item.sym = Newline THEN IF LineOpen(s) THEN FinalizeLine(kept, TRUE) ELSE ResyncLine(kept)
     ELSE IF s.mode = "redacted" THEN ShowLive(prefixed, <<item>>) ELSE prefixed
EmitProjected(s, items) == FoldLeft(EmitItem, s, items)

\* _absorb_projector_facts and _drain_retained_facts.
AbsorbFacts(s) ==
  [s EXCEPT !.hosts = FoldLeft(AddNew, @, s.proj.hosts), !.prints = @ \o s.proj.prints, !.proj = WithoutFacts(@)]
\* A possible bug: a line's facts are taken up after the line has been emitted.
EmitFirst(s, items) == AbsorbFacts(EmitProjected(s, items))
Emit(s, items) == EmitProjected(AbsorbFacts(s), items)

\* What the projector released: the display's own text is kept and shown, the
\* other product makes the lines.
Projected(s, p, shown) ==
  LET fed == [s EXCEPT !.proj = p]
      kept == IF s.mode = "host-path" THEN Selected(fed, p.out) ELSE fed
  IN Emit(IF s.mode = "host-path" /\ shown THEN ShowLive(kept, p.out) ELSE kept, IF s.mode = "host-path" THEN p.safe ELSE p.out)

\* _emit_neutralized of a piece that ends with its line, or before.
FeedPiece(s, text) ==
  LET items == [i \in 1..Len(text) |-> Item(text[i], Seen(s.proj) + i - 1)]
      kept == IF s.mode = "exact" THEN ShowLive(Selected(s, items), items) ELSE s
  IN Projected(kept, ProjectText(s.proj, text), TRUE)

\* ... and of the framer's marker.
FeedCut(s) ==
  LET marked == [s EXCEPT !.overflowed = TRUE, !.proj = DiscardPending(@)]
      kept == IF s.mode = "redacted" THEN marked ELSE ShowLive(Selected(marked, Marked(Cut)), Marked(Cut))
  IN EmitProjected(kept, Marked(Cut))

\* finish.
CloseLine(s) == IF LineOpen(s) THEN FinalizeLine(s, FALSE) ELSE s
FinishNpm(s, abort) ==
  CloseLine(Projected([s EXCEPT !.eof = TRUE, !.aborted = abort], FinishProjector(s.proj, abort), FALSE))

\* A piece is one symbol, or all that is left of the line.
PieceEnds(text, from) ==
  LET ends == {i \in from..Len(text) : text[i] \in {Newline, Cut} \/ i = Len(text) \/ text[i + 1] = Cut}
  IN {from, Min(ends)}
FeedThrough(s, text, from, to) == IF text[from] = Cut THEN FeedCut(s) ELSE FeedPiece(s, SubSeq(text, from, to))

\* "plain" is fed a line when all of it is there, or when the stream ends in it.
LineEnd(text, i) == Max(PieceEnds(text, i))
LineFrom(text, i) == Min({j \in 1..i : LineEnd(text, j) = LineEnd(text, i)})
FeedLine(s, text, i) == FeedThrough(s, text, LineFrom(text, i), i)
LineHeld == place > 0 /\ LineEnd(source, place) # place

StreamInit ==
  \E described \in Streams, mode \in Displays :
    /\ stream = NewStream(described.secrets, mode)
    /\ plain = NewStream(described.secrets, "redacted")
    /\ source = described.source /\ place = 0
FeedAction ==
  /\ ~stream.eof /\ place < Len(source)
  /\ \E to \in PieceEnds(source, place + 1) :
       /\ stream' = FeedThrough(stream, source, place + 1, to)
       /\ plain' = IF LineEnd(source, to) = to THEN FeedLine(plain, source, to) ELSE plain
       /\ place' = to
  /\ UNCHANGED source
\* The end of the stream, or a reader that fails or is cancelled.
FinishAction ==
  /\ ~stream.eof
  /\ \E abort \in BOOLEAN :
       /\ ~abort => place = Len(source)
       /\ stream' = FinishNpm(stream, abort)
       /\ plain' = FinishNpm(IF LineHeld THEN FeedLine(plain, source, place) ELSE plain, abort)
  /\ UNCHANGED <<source, place>>
StreamNext == FeedAction \/ FinishAction
StreamSpec == StreamInit /\ [][StreamNext]_streamVars

-----------------------------------------------------------------------------
\* What a sink is told of the lines.
LineFacts(s) == [i \in 1..Len(s.lines) |->
  <<SymbolsOf(s.lines[i].text), s.lines[i].hosts, s.lines[i].prints, s.lines[i].overflowed>>]

\* The lines a sink is given depend neither on the display nor on where the
\* stream was cut into pieces (npm_diagnostic_stream.py, diagnostic_coordinator.py).
SameLines == stream.eof => LineFacts(stream) = LineFacts(plain)

\* What the stream has been given, its views as wholes, and the URLs and the
\* secrets there are in them.
Given == SelectSeq(SubSeq(source, 1, place), LAMBDA c : c # Cut)
Views ==
  LET view[d \in 0..Layers] == IF d = 0 THEN [i \in 1..Len(Given) |-> Item(Given[i], i - 1)] ELSE Unquote(view[d - 1])
  IN view
Spans(view, symbols) ==
  {[start |-> view[i - Len(symbols) + 1].from, end |-> view[i].to, at |-> i - Len(symbols) + 1] :
     i \in {j \in 1..Len(view) : EndsIn(view, j, symbols)}}
Found ==
  LET views == Views
      \* The last decode may make a separator, but no scheme.
      Urls(d, s) == {c \in Spans(views[d], s \o Separator) :
                       d = Layers => \A i \in c.at..c.at + Len(s) - 1 : ~views[d][i].escaped}
  IN [candidates |-> UNION {Urls(d, s) : d \in 1..Layers, s \in Schemes},
      literal |-> UNION {Spans(views[0], t) : t \in stream.proj.secrets},
      decoded |-> UNION {Spans(views[d], t) : d \in 1..Layers - 1, t \in stream.proj.secrets}]
TokenEnd(offset) == Min({Len(Given)} \cup {i - 1 : i \in {j \in offset + 1..Len(Given) : Given[j] \in Terminators}})
UrlText(c) == [i \in 1..TokenEnd(c.start) - c.start |-> Item(Given[c.start + i], c.start + i - 1)]
OffsetsOf(items) == {item.from : item \in ToSet(items)} \ {NoOffset}
Everything(field) == LET all[i \in 0..Len(stream.lines)] == IF i = 0 THEN <<>> ELSE all[i - 1] \o stream.lines[i][field]
                     IN all[Len(stream.lines)]

\* No secret is in what is shown, and of no URL anything but its host and path,
\* of which nothing is part of a secret, decoded or not.
HidesSecrets(items, found) == \A m \in found.literal : ~(m.start..m.end - 1 \subseteq OffsetsOf(items))
\* Of a scheme the first letter is let go with a "%" before it that begins no
\* escape, as long as the decoders still hold both; and so is what comes before
\* a secret that ends in the scheme or in its separator.
LetGo(c, found) ==
  LET before == [i \in 1..c.start |-> Item(Given[i], i - 1)]
      afterPercent == c.start > 0 /\ \E d \in 0..Layers - 1 : Last(DecodedAt(before, d)).sym = "%"
  IN (IF afterPercent THEN {c.start} ELSE {})
       \cup UNION {c.start..m.start - 1 : m \in {n \in found.literal : n.end <= c.end}}
OfUrl(items, c, found) == (OffsetsOf(items) \cap (c.start..TokenEnd(c.start) - 1)) \ LetGo(c, found)
HidesUrls(items, found) == \A c \in found.candidates : OfUrl(items, c, found) = {}
\* A decoded secret counts when it begins in the URL.
SecretsOf(c, found) == found.literal \cup {m \in found.decoded : m.start >= c.start}
Leaks ==
  LET found == Found
      text == Everything("text")
      local == Everything("local")
      Visible(c) == IF UrlDepth(UrlText(c)) = {} THEN {}
                    ELSE OffsetsOf(LiteralHost(UrlLayer(UrlText(c)))) \cup OffsetsOf(PathOf(UrlLayer(UrlText(c))))
  IN <<HidesSecrets(text, found), HidesUrls(text, found),
       stream.mode # "exact" => HidesSecrets(local, found),
       stream.mode = "host-path" => \A c \in found.candidates :
          LET shown == OfUrl(local, c, found)
          IN shown \subseteq Visible(c) /\ \A m \in SecretsOf(c, found) : shown \cap (m.start..m.end - 1) = {}>>
NothingLeaks == stream.eof => Leaks = <<TRUE, TRUE, TRUE, TRUE>>

\* Every token with a URL leaves one marker.
Markers(items) == Cardinality({i \in 1..Len(items) : items[i] = RedactedUrl[1]})
GivenUp == Cut \in ToSet(source) \/ OversizedToken[1] \in ToSet(Everything("text"))
OneMarkerEach ==
  (stream.eof /\ ~stream.aborted /\ ~GivenUp)
    => Markers(Everything("text")) = Cardinality({TokenEnd(c.start) : c \in Found.candidates})

\* Facts come with a marker, and only of whole URLs free of secrets.
FactsOfCleanUrls ==
  stream.eof => \A i \in 1..Len(stream.lines) : LET l == stream.lines[i]  found == Found IN
    /\ Len(l.prints) <= Markers(l.text) /\ Len(l.hosts) <= Markers(l.text)
    /\ \A host \in ToSet(l.hosts) : \E c \in found.candidates :
         /\ UrlDepth(UrlText(c)) # {}
         /\ LET text == LiteralHost(UrlLayer(UrlText(c))) IN
              /\ SymbolsOf(text) = host
              /\ ~\E m \in SecretsOf(c, found) : \E item \in ToSet(text) : item.from \in m.start..m.end - 1
         /\ ~\E m \in found.literal : m.end = c.start

\* What is shown as it comes is what the line then has, and is kept once.
ShownOnce ==
  /\ \A i \in 1..Len(stream.lines) : IsPrefix(stream.lines[i].live, stream.lines[i].local)
  /\ stream.eof => SelectSeq(Everything("local"), LAMBDA i : i.sym # Newline)
                     = SelectSeq(stream.released, LAMBDA i : i.sym # Newline)
=============================================================================
