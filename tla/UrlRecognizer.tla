---------------------------- MODULE UrlRecognizer ----------------------------
(***************************************************************************)
(* The recognizer of diagnostic text (versioning/diagnostic_recognizer):   *)
(* one symbol at a time it finds the supported URLs of a stream and its    *)
(* registered secrets, through a chain of layers each of which             *)
(* percent-decodes the one before.  What it holds is a record; the         *)
(* operators give the record after a call, or what a query answers.        *)
(*                                                                         *)
(* A symbol stands for a character, without its case.  What the cursors of *)
(* the automata (aho_corasick) and the provenance remember is a window of  *)
(* each layer: its last symbols, each with its place in the stream.        *)
(***************************************************************************)
EXTENDS Integers, Sequences, FiniteSets, SequencesExt, FiniteSetsExt

CONSTANTS Schemes,      \* SUPPORTED_SCHEMES, sequences of symbols
          Layers,       \* _LAYERS
          Escapes       \* the symbol each pair of hexadecimal digits decodes to

ASSUME RecognizerAssumption == Layers \in Nat \ {0, 1} /\ \A s \in Schemes : Len(s) > 0

Newline == "NL"
Terminators == {" ", Newline}
Separator == <<":", "/", "/">>
SchemeUrls == {s \o Separator : s \in Schemes}
NoOffset == -1

\* A symbol of a layer, from the offset "from" of the stream to before "to".
Item(symbol, from) == [sym |-> symbol, from |-> from, to |-> from + 1, escaped |-> FALSE]
SymbolsOf(items) == [i \in 1..Len(items) |-> items[i].sym]
ProperPrefix(s, t) == Len(s) < Len(t) /\ IsPrefix(s, t)
\* The first of some offsets; a set of at most one.
Earliest(offsets) == IF offsets = {} THEN {} ELSE {Min(offsets)}

\* _Transducer.feed: what of the symbols held and the new ones is released,
\* decoded, and what stays held until its escape is whole.
Unescape(items) ==
  LET n == Len(items)
      Pair(i) == <<items[i + 1].sym, items[i + 2].sym>>
      from[i \in 1..n + 1] ==
        IF i > n \/ (items[i].sym = "%" /\ i + 2 > n) THEN [out |-> <<>>, held |-> SubSeq(items, i, n)]
        ELSE IF items[i].sym = "%" /\ Pair(i) \in DOMAIN Escapes
             THEN LET symbol == [sym |-> Escapes[Pair(i)], from |-> items[i].from, to |-> items[i + 2].to, escaped |-> TRUE]
                  IN [from[i + 3] EXCEPT !.out = <<symbol>> \o @]
             ELSE [from[i + 1] EXCEPT !.out = <<[items[i] EXCEPT !.escaped = FALSE]>> \o @]
  IN from[1]

\* A whole text decoded once (_Transducer.flush at its end; _decode_percent).
Flushed(decoder) == decoder.out \o decoder.held
Unquote(items) == Flushed(Unescape(items))

\* The longest a scheme with its separator or a secret is: older symbols of a
\* layer make no difference any more.
LongestPattern(secrets) == Max({Len(t) : t \in SchemeUrls \cup secrets})

\* windows[k] is the end of what layer k was given, fresh[k] how much of it is
\* new, and held[k] the escape the decoder before layer k + 1 waits to read on.
\* The matcher of layer k decodes the layer once more, in a buffer buf[k] of its
\* own, into atoms[k], of which newAtoms[k] are new.
NewRecognizer(secrets) ==
  [secrets |-> secrets, window |-> LongestPattern(secrets) + 2 * Layers,
   windows |-> [k \in 1..Layers |-> <<>>], fresh |-> [k \in 1..Layers |-> 0],
   held |-> [k \in 1..Layers - 1 |-> <<>>],
   atoms |-> [k \in 1..Layers |-> <<>>], newAtoms |-> [k \in 1..Layers |-> 0],
   buf |-> [k \in 1..Layers |-> <<>>],
   candidates |-> {}, tokenStarts |-> {}, prefixStarts |-> {}, secretStarts |-> {}, literalStarts |-> {},
   literal |-> {}, speculative |-> {}, finalized |-> {},
   committed |-> 0, consumed |-> 0]

\* Layer k gets new symbols, which its matcher reads; at the end of a token the
\* decoders release all they hold, the matchers nothing (_flush_token).
Latest(r, items) == SubSeq(items, Max({1, Len(items) - r.window + 1}), Len(items))
Receive(r, k, items) ==
  LET read == Unescape(r.buf[k] \o items)
  IN [r EXCEPT !.fresh[k] = Len(items), !.windows[k] = IF items = <<>> THEN @ ELSE Latest(r, @ \o items),
               !.newAtoms[k] = Len(read.out), !.atoms[k] = IF read.out = <<>> THEN @ ELSE Latest(r, @ \o read.out),
               !.buf[k] = read.held]
Cascade(r, item) ==
  LET through[k \in 1..Layers] ==
        IF k = 1 THEN [rec |-> Receive(r, 1, <<item>>), out |-> <<item>>]
        ELSE LET before == through[k - 1]
                 read == Unescape(r.held[k - 1] \o before.out)
                 decoder == IF item.sym \in Terminators THEN [out |-> Flushed(read), held |-> <<>>] ELSE read
             IN [rec |-> [Receive(before.rec, k, decoder.out) EXCEPT !.held[k - 1] = decoder.held], out |-> decoder.out]
  IN through[Layers].rec

\* The places of what is new at the end of a window.
NewPlaces(items, fresh) == Len(items) - fresh + 1..Len(items)
EndsIn(items, i, symbols) == Len(symbols) <= i /\ SymbolsOf(SubSeq(items, i - Len(symbols) + 1, i)) = symbols

\* A possible bug: a scheme decoded once too often is taken.
AnyScheme(k, atoms) == TRUE
\* _scheme_match_allowed: the last layer's own decode may not make a scheme.
SchemeAllowed(k, atoms) == k = Layers => \A i \in 1..Len(atoms) : ~atoms[i].escaped

\* _LayerMatcher._atom, _drain_queue and _record_match: the candidates that the
\* new atoms of layer k complete; of the schemes that end at a colon the longest.
NewCandidates(r, k) ==
  LET atoms == r.atoms[k]
      Ending(i) == {u \in SchemeUrls : EndsIn(atoms, i, u)
                      /\ SchemeAllowed(k, SubSeq(atoms, i - Len(u) + 1, i - Len(Separator)))}
  IN {[start |-> Min({atoms[i - Len(u) + 1].from : u \in Ending(i)}), separatorEnd |-> atoms[i].to, layer |-> k] :
        i \in {j \in NewPlaces(atoms, r.newAtoms[k]) : atoms[j].sym = Last(Separator) /\ Ending(j) # {}}}

\* What the held beginning of an escape may still become.
Opening(held) == {Escapes[pair] : pair \in {p \in DOMAIN Escapes : Len(held) < 2 \/ p[1] = held[2].sym}}

\* _LayerMatcher._feed_prefix and prefix_state: where what the atoms of layer k
\* end in may still become a scheme and its separator.
ViablePrefixes(r, k) ==
  LET atoms == r.atoms[k]
      n == Len(atoms)
      capped == k = Layers
      Grown(u, length) ==
        /\ EndsIn(atoms, n, SubSeq(u, 1, length))
        /\ capped => \A j \in n - length + 1..n : atoms[j].escaped => atoms[j].sym \in {":", "/"}
        /\ capped /\ r.buf[k] # <<>> => u[length + 1] \in {":", "/"} /\ u[length + 1] \in Opening(r.buf[k])
      lengths == UNION {{length \in 1..Len(u) - 1 : Grown(u, length)} : u \in SchemeUrls}
      open == IF capped \/ r.buf[k] = <<>> \/ Opening(r.buf[k]) = {} THEN {} ELSE {r.buf[k][1].from}
  IN {atoms[n - length + 1].from : length \in lengths} \cup open

\* _SecretObserver.feed: the secrets that new symbols of a layer complete, unless
\* all of them is committed already.
NewSecrets(r, items, places) ==
  {record \in UNION {{[start |-> items[i - Len(s) + 1].from, end |-> items[i].to, pattern |-> s] :
       s \in {t \in r.secrets : EndsIn(items, i, t)}} : i \in places} : record.end > r.committed}
NewOf(r, k) == NewSecrets(r, r.windows[k], NewPlaces(r.windows[k], r.fresh[k]))
NewDecoded(r) == UNION {NewOf(r, k) : k \in 2..Layers}

\* prefix_start: where what a layer ends in may still become a secret.
OpenSecrets(r, items) ==
  {items[Len(items) - length + 1].from : length \in
     UNION {{n \in 1..Len(s) - 1 : EndsIn(items, Len(items), SubSeq(s, 1, n))} : s \in r.secrets}}

\* What the decoders hold may still begin a URL.
PendingStarts(r) == {r.held[k][1].from : k \in {j \in 1..Layers - 1 : r.held[j] # <<>>}}
\* A possible bug: what the decoders hold and a URL already found do not count.
EligibleOfPrefix(r, records) == {m \in records : r.prefixStarts # {} /\ m.start >= Min(r.prefixStarts)}
\* _prune_decoded_secrets: a decoded secret is kept as long as it may be in a URL.
Eligible(r, records) ==
  LET starts == r.prefixStarts \cup r.tokenStarts \cup PendingStarts(r)
  IN {m \in records : starts # {} /\ m.start >= Min(starts)}

\* IncrementalRecognizer.feed of one symbol (_Pipeline.feed): the layers take
\* it, then it is noted what is new in them, and which decoded secrets stay; the
\* prefixes of a token end with it (reset_prefix).
Noted(r) ==
  LET found == UNION {NewCandidates(r, k) : k \in 1..Layers}
  IN [r EXCEPT !.candidates = @ \cup found, !.tokenStarts = @ \cup {c.start : c \in found},
               !.prefixStarts = UNION {ViablePrefixes(r, k) : k \in 1..Layers},
               !.literalStarts = OpenSecrets(r, r.windows[1]),
               !.secretStarts = UNION {OpenSecrets(r, r.windows[k]) : k \in 1..Layers},
               !.literal = @ \cup NewOf(r, 1),
               !.consumed = @ + 1]
Pruned(r, symbol) ==
  LET kept == Eligible(r, r.speculative \cup NewDecoded(r))
  IN IF symbol \in Terminators
     THEN [r EXCEPT !.speculative = {}, !.finalized = @ \cup kept, !.tokenStarts = {}, !.prefixStarts = {}]
     ELSE [r EXCEPT !.speculative = kept]
Recognize(r, symbol) == Pruned(Noted(Cascade(r, Item(symbol, r.consumed))), symbol)

\* A secret stays that reaches past what is committed.
Reaching(records, end) == {m \in records : m.end > end}

\* consume, and the retire of every matcher and observer: what begins before the
\* offset is no candidate any more, and a secret goes when it ends by then.
Consume(r, offset) ==
  LET end == Min({offset, r.consumed})
  IN IF offset <= r.committed THEN r
     ELSE [r EXCEPT !.committed = end, !.candidates = {c \in @ : c.start >= end},
                    !.literal = Reaching(@, end), !.speculative = Reaching(@, end), !.finalized = Reaching(@, end)]

\* finalize: the decoders release what they hold, for the matchers and the
\* observers behind them.
EndRecognizer(r) ==
  LET rest[k \in 1..Layers] == IF k = 1 THEN <<>> ELSE Unquote(r.held[k - 1] \o rest[k - 1])
      Whole(k) == r.windows[k] \o rest[k]
      decoded == UNION {NewSecrets(r, Whole(k), Len(r.windows[k]) + 1..Len(Whole(k))) : k \in 2..Layers}
      Read(k) == Unescape(r.buf[k] \o rest[k])
      flushed == [r EXCEPT !.atoms = [k \in 1..Layers |-> @[k] \o Read(k).out],
                           !.buf = [k \in 1..Layers |-> Read(k).held]]
      ended == [r EXCEPT !.held = [k \in 1..Layers - 1 |-> <<>>],
                         !.prefixStarts = UNION {ViablePrefixes(flushed, k) : k \in 1..Layers}]
  IN [ended EXCEPT !.finalized = @ \cup Eligible(ended, r.speculative \cup decoded), !.speculative = {},
                   !.secretStarts = UNION {OpenSecrets(r, Whole(k)) : k \in 1..Layers}]

\* earliest_match, in the shallowest layer that has it: a set of at most one.
EarliestCandidate(r) ==
  LET Before(c, d) == c.start < d.start \/ (c.start = d.start /\ c.layer < d.layer)
  IN {c \in r.candidates : \A d \in r.candidates \ {c} : Before(c, d)}

\* retain_from and prefix_state: a set of at most one offset.
UrlHold(r) == IF r.prefixStarts = {} THEN {} ELSE {Max({Min(r.prefixStarts), r.committed})}

\* secret_records.
SecretRecords(r, decoded) == r.literal \cup IF decoded THEN r.speculative \cup r.finalized ELSE {}

\* secret_prefix_start: the earliest place from where a secret may still come to
\* be, at or past "minimum" or at "include"; a set of at most one offset.
SecretHold(r, decoded, minimum, include) ==
  LET allowed == {o \in IF decoded THEN r.secretStarts ELSE r.literalStarts : o >= minimum \/ o = include}
  IN Earliest(allowed)

\* structural_events: the last "/", "?" or "#" each layer has just received.
Structural(r, k) ==
  LET marks == {i \in NewPlaces(r.windows[k], r.fresh[k]) : r.windows[k][i].sym \in {"/", "?", "#"}}
  IN IF marks = {} THEN {} ELSE {r.windows[k][Max(marks)]}
=============================================================================
