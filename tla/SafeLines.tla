------------------------------ MODULE SafeLines ------------------------------
(***************************************************************************)
(* TerminalSafeLineFramer over TerminalControlNeutralizer (streaming): the *)
(* characters of a stream come out inert, a source line of more than       *)
(* LineLimit bytes is cut by one marker, and a newline ends a line even    *)
(* inside a control sequence.                                              *)
(*                                                                         *)
(* A character is one of a small set: "m", ";", "[", "]" and the backslash *)
(* "BSL" print, and all but ";" may end a CSI.  An output token is a       *)
(* character, visible if it stands for an escape notation, or a marker.    *)
(***************************************************************************)
EXTENDS Integers, Sequences, FiniteSets, SequencesExt, FiniteSetsExt, TLC

CONSTANTS Characters, ControlLimit, LineLimit, MaxFed

Printing == {"m", ";", "[", "]", "BSL"}
Controls == {"ESC", "BEL", "ST", "CSI", "DCS"}
Final == {"m", "[", "]", "BSL"}

ASSUME LinesAssumption == /\ Characters \subseteq Printing \cup Controls \cup {"NL"}
                          /\ ControlLimit \in Nat \ {0} /\ LineLimit \in Nat \ {0} /\ MaxFed \in Nat

\* C1 controls take two bytes.
Size(text) == FoldLeft(LAMBDA n, c : n + (IF c \in {"ST", "CSI", "DCS"} THEN 2 ELSE 1), 0, text)

VARIABLES lfed, framer, lfinished
linesVars == <<lfed, framer, lfinished>>

Token(kind, c) == [kind |-> kind, char |-> c]
Marker(kind) == Token(kind, "none")
Fresh == [state |-> "normal", string |-> "none", pending |-> <<>>]

\* _visible_control
Inert(text) == [i \in DOMAIN text |-> Token(IF text[i] \in Controls THEN "visible" ELSE "plain", text[i])]

----------------------------------------------------------------------------
(* The neutralizer.  n is its state, and what it has put out. *)

Out(n, tokens) == [n EXCEPT !.out = @ \o tokens]
Enter(n, state) == [n EXCEPT !.state = state]
Back(n) == [n EXCEPT !.state = "normal", !.string = "none", !.pending = <<>>]
EmitPending(n) == Back(Out(n, Inert(n.pending)))

\* A possible bug: a sequence of exactly the limit is taken for oversized.
OversizedAtLimit(text) == Size(text) >= ControlLimit
Oversized(text) == Size(text) > ControlLimit

\* _append: c joins the pending sequence, on to state "within"; beyond the
\* limit the sequence becomes one marker and the rest of it is discarded.
Collect(n, c, within, beyond) ==
  LET joined == [n EXCEPT !.pending = Append(@, c)]
  IN IF Oversized(joined.pending)
     THEN Enter([Out(n, <<Marker("oversized")>>) EXCEPT !.pending = <<>>], beyond)
     ELSE IF within = "complete" THEN EmitPending(joined) ELSE Enter(joined, within)
\* The same with the character that ends the sequence.
Complete(n, c) == LET done == Collect(n, c, "complete", "normal") IN [done EXCEPT !.string = "none"]

BeginString(n, kind, c) == Collect([n EXCEPT !.string = kind], c, "string", "discard_string")
Terminates(n, c) == c = "ST" \/ (n.string = "osc" /\ c = "BEL")

HandleNormal(n, c) ==
  CASE c = "ESC" -> Collect(n, c, "esc", "normal")
    [] c = "CSI" -> Collect(n, c, "csi", "discard_csi")
    [] c = "DCS" -> BeginString(n, "dcs", c)
    [] OTHER -> Out(n, Inert(<<c>>))

Neutralize(n, c) ==
  CASE n.state = "normal" -> HandleNormal(n, c)
    [] n.state = "esc" ->
         CASE c = "[" -> Collect(n, c, "csi", "discard_csi")
           [] c = "]" -> BeginString(n, "osc", c)
           [] OTHER -> HandleNormal(EmitPending(n), c)
    [] n.state = "csi" -> IF c \in Final THEN Complete(n, c) ELSE Collect(n, c, "csi", "discard_csi")
    [] n.state = "string" ->
         CASE c = "ESC" -> Collect(n, c, "string_esc", "discard_string_esc")
           [] Terminates(n, c) -> Complete(n, c)
           [] OTHER -> Collect(n, c, "string", "discard_string")
    [] n.state = "string_esc" -> IF c = "BSL" \/ Terminates(n, c) THEN Complete(n, c)
                                 ELSE Collect(n, c, "string", "discard_string")
    [] n.state = "discard_csi" -> IF c \in Final THEN Back(n) ELSE n
    [] n.state = "discard_string" -> CASE Terminates(n, c) -> Back(n)
                                       [] c = "ESC" -> Enter(n, "discard_string_esc")
                                       [] OTHER -> n
    [] n.state = "discard_string_esc" -> CASE c = "BSL" \/ Terminates(n, c) -> Back(n)
                                           [] c = "ESC" -> n
                                           [] OTHER -> Enter(n, "discard_string")

\* finish: what is unfinished fails closed.
Finalize(n) ==
  Back(IF n.state \in {"esc", "csi", "string", "string_esc"} THEN Out(n, <<Marker("incomplete")>>) ELSE n)

----------------------------------------------------------------------------
(* The framer *)

\* A possible bug: the newline leaves the neutralizer where it is.
EndLineOnly(f) == [Out(f, <<Token("plain", "NL")>>) EXCEPT !.bytes = 0, !.overflow = FALSE]
EndLine(f) == [Out(IF f.overflow THEN f ELSE Finalize(f), <<Token("plain", "NL")>>)
                 EXCEPT !.bytes = 0, !.overflow = FALSE]

Frame(f, c) ==
  CASE c = "NL" -> EndLine(f)
    [] c # "NL" /\ f.overflow -> f
    [] c # "NL" /\ ~ f.overflow /\ f.bytes + Size(<<c>>) > LineLimit ->
         [Back(Out(f, <<Marker("overflow")>>)) EXCEPT !.overflow = TRUE, !.bytes = 0]
    [] OTHER -> [Neutralize(f, c) EXCEPT !.bytes = @ + Size(<<c>>)]

LinesInit == /\ lfed = <<>> /\ lfinished = FALSE
             /\ framer = [out |-> <<>>, bytes |-> 0, overflow |-> FALSE] @@ Fresh

FeedCharacter(c) ==
  /\ ~ lfinished /\ Len(lfed) < MaxFed
  /\ lfed' = Append(lfed, c) /\ framer' = Frame(framer, c)
  /\ UNCHANGED lfinished

FinishLines ==
  /\ ~ lfinished /\ lfinished' = TRUE
  /\ framer' = IF framer.overflow THEN framer ELSE Finalize(framer)
  /\ UNCHANGED lfed

LinesNext == FinishLines \/ \E c \in Characters : FeedCharacter(c)
LinesSpec == LinesInit /\ [][LinesNext]_linesVars

----------------------------------------------------------------------------
(* What may become of a source line *)

\* The first n characters of a line, those within the limit.
Kept(line) == Max({n \in 0..Len(line) : Size(SubSeq(line, 1, n)) <= LineLimit})
Introduces(line, i) == line[i] \in {"ESC", "CSI", "DCS"}

\* tokens account for line: each character stands for itself, or a marker
\* stands for the characters of one sequence, of more than the limit if it
\* says so, and of all the rest of the line if it says incomplete.
Accounts(tokens, line) ==
  LET n == Len(line)
      explained[i \in 1..n + 1, k \in 1..Len(tokens) + 1] ==
        IF k > Len(tokens) THEN i = n + 1
        ELSE CASE i > n -> FALSE
               [] tokens[k].kind \in {"plain", "visible"} ->
                    /\ tokens[k] = Inert(<<line[i]>>)[1]
                    /\ explained[i + 1, k + 1]
               [] tokens[k].kind = "incomplete" ->
                    k = Len(tokens) /\ Introduces(line, i) /\ Size(SubSeq(line, i, n)) <= ControlLimit
               [] OTHER ->
                    /\ Introduces(line, i)
                    /\ \E j \in i..n : Size(SubSeq(line, i, j)) > ControlLimit /\ explained[j + 1, k + 1]
  IN explained[1, 1]

\* The parts of a sequence between newlines.
Parts(s, IsNewline(_)) ==
  LET cuts == {i \in DOMAIN s : IsNewline(s[i])}
      bounds == <<0>> \o SetToSortSeq(cuts, <) \o <<Len(s) + 1>>
  IN [k \in 1..Len(bounds) - 1 |-> SubSeq(s, bounds[k] + 1, bounds[k + 1] - 1)]

\* Whatever controls a stream holds, cut or nested: the output has the lines of
\* the source, no more and no fewer, no raw control, and every line is accounted
\* for by itself, so that nothing is lost, repeated or carried over to the next
\* line; a line beyond the limit keeps what is within it and ends in one marker.
LinesAccounted ==
  lfinished =>
    LET lines == Parts(lfed, LAMBDA c : c = "NL")
        shown == Parts(framer.out, LAMBDA t : t.char = "NL")
    IN /\ Len(lines) = Len(shown)
       /\ \A k \in DOMAIN lines :
            LET kept == SubSeq(lines[k], 1, Kept(lines[k]))
            IN IF kept = lines[k] THEN Accounts(shown[k], kept)
               ELSE /\ Last(shown[k]) = Marker("overflow")
                    /\ LET before == Front(shown[k])
                       IN \E n \in 0..Len(kept) :
                            /\ n = Len(kept) \/ Introduces(kept, n + 1)
                            /\ Accounts(before, SubSeq(kept, 1, n))
       /\ \A k \in DOMAIN framer.out : framer.out[k].kind = "plain" => framer.out[k].char \notin Controls
=============================================================================
