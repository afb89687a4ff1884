--------------------------- MODULE SecretRedaction ---------------------------
(***************************************************************************)
(* The redactor of RedactingStream (npm_environment/streaming): the safe   *)
(* text of a stream arrives in pieces, and each configured secret is to    *)
(* leave as one marker, the same as if the text had been redacted whole.   *)
(***************************************************************************)
EXTENDS Integers, Sequences, FiniteSets, SequencesExt, FiniteSetsExt

CONSTANTS Letters,      \* the characters of the text and of the secrets
          MaxSecret,    \* bound on the length of a secret
          MaxSecrets,   \* bound on how many there are
          MaxText       \* bound on the text fed

ASSUME RedactionAssumption == MaxSecret \in Nat \ {0} /\ MaxSecrets \in Nat /\ MaxText \in Nat

VARIABLES secrets, tfed, tpending, tout, teof, taborted
redactionVars == <<secrets, tfed, tpending, tout, teof, taborted>>

REDACTED == "<redacted>"
Texts(n) == UNION {[1..k -> Letters] : k \in 1..n}
Longest == Max({Len(s) : s \in secrets} \cup {0})

StartsAt(text, s, i) == i + Len(s) - 1 <= Len(text) /\ SubSeq(text, i, i + Len(s) - 1) = s
Matches(text, i) == {s \in secrets : StartsAt(text, s, i)}
LongestMatch(text, i) == Max({Len(s) : s \in Matches(text, i)})

\* redact_text: a text at once.
RedactText(text) ==
  LET rest[i \in 1..Len(text) + 1] ==
        CASE i > Len(text) -> <<>>
          [] i <= Len(text) /\ Matches(text, i) # {} -> <<REDACTED>> \o rest[i + LongestMatch(text, i)]
          [] OTHER -> <<text[i]>> \o rest[i + 1]
  IN rest[1]

\* _partial_secret_suffix_len: the longest end of text that begins a secret.
PartialSuffix(text) ==
  Max({0} \cup {n \in 1..Len(text) : \E s \in secrets : n < Len(s) /\ StartsAt(s, SubSeq(text, Len(text) - n + 1, Len(text)), 1)})

\* A possible bug: a match is taken as soon as it is found.
DecidedAtOnce(length, eof) == TRUE
\* A match may still grow until the longest secret would have ended.
Decided(length, eof) == eof \/ length >= Longest

\* _feed_text, with all that is pending: what is released and what is kept.
Feed(text, eof, abort) ==
  LET n == Len(text)
      rest[i \in 1..n + 1] ==
        LET starts == {k \in i..n : Matches(text, k) # {}}
            Released(out) == [out |-> out, pending |-> <<>>]
        IN IF i > n THEN Released(<<>>)
           ELSE IF starts # {} THEN
                LET start == Min(starts)  prefix == SubSeq(text, i, start - 1) IN
                  IF Decided(n - start + 1, eof)
                  THEN LET after == rest[start + LongestMatch(text, start)]
                       IN [after EXCEPT !.out = prefix \o <<REDACTED>> \o @]
                  ELSE [out |-> prefix, pending |-> SubSeq(text, start, n)]
           ELSE IF eof THEN
                LET partial == IF abort THEN PartialSuffix(SubSeq(text, i, n)) ELSE 0
                IN Released(SubSeq(text, i, n - partial)
                              \o IF partial > 0 THEN <<REDACTED>> ELSE <<>>)
           ELSE LET keep == Min({n - i + 1, Max({0, Longest - 1})})
                IN [out |-> SubSeq(text, i, n - keep), pending |-> SubSeq(text, n - keep + 1, n)]
  IN rest[1]

\* dedupe_secrets: the order in which they were given does not matter.
RedactionInit ==
  /\ secrets \in UNION {kSubset(k, Texts(MaxSecret)) : k \in 0..MaxSecrets}
  /\ tfed = <<>> /\ tpending = <<>> /\ tout = <<>> /\ teof = FALSE /\ taborted = FALSE

FeedText(piece) ==
  /\ ~ teof /\ Len(tfed) + Len(piece) <= MaxText
  /\ tfed' = tfed \o piece
  /\ LET result == Feed(tpending \o piece, FALSE, FALSE)
     IN tpending' = result.pending /\ tout' = tout \o result.out
  /\ UNCHANGED <<secrets, teof, taborted>>

\* finish, with what the framer still releases.
FinishRedaction(piece, abort) ==
  /\ ~ teof /\ Len(tfed) + Len(piece) <= MaxText
  /\ teof' = TRUE /\ taborted' = abort
  /\ tfed' = tfed \o piece
  /\ LET result == Feed(tpending \o piece, TRUE, abort)
     IN tpending' = result.pending /\ tout' = tout \o result.out
  /\ UNCHANGED secrets

RedactionNext == \/ \E piece \in Texts(MaxText) : FeedText(piece)
                 \/ \E piece \in Texts(1) \cup {<<>>}, abort \in BOOLEAN : FinishRedaction(piece, abort)
RedactionSpec == RedactionInit /\ [][RedactionNext]_redactionVars

----------------------------------------------------------------------------
\* Some secret lies inside another one, short of both its ends.
OneInsideAnother == \E s, t \in secrets : \E i \in 2..Len(t) : i + Len(s) - 1 < Len(t) /\ StartsAt(t, s, i)

\* What a reader that fails makes of the text: the end that could have become
\* a secret is hidden as well.
RedactedAborted(text) ==
  LET out == RedactText(text)
      tail == Max({0} \cup {i \in DOMAIN out : out[i] = REDACTED})
      partial == PartialSuffix(SubSeq(out, tail + 1, Len(out)))
  IN SubSeq(out, 1, Len(out) - partial) \o IF partial > 0 THEN <<REDACTED>> ELSE <<>>

\* However the text is cut and the secrets overlap, each is found, and found as
\* in the whole text; less than the longest secret is held back.  With one secret inside another it
\* is not so: the inner one ends the wait for the outer one, of which the rest
\* then passes, unless a single piece brings it whole.
RedactsUnlessNested ==
  /\ teof /\ ~ OneInsideAnother => tout = IF taborted THEN RedactedAborted(tfed) ELSE RedactText(tfed)
  /\ Len(tpending) < Max({1, Longest})
=============================================================================
