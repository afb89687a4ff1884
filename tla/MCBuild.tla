------------------------------- MODULE MCBuild -------------------------------
(* Instances of what a build goes through: the store under power losses, the *)
(* collection of the output of its containers, the three filters of their    *)
(* text and the projector of its URLs, and the lock and the tree of its npm  *)
(* environment.  They share no variable: "part" is the one whose actions are *)
(* taken, the others stay as they began.                                     *)
EXTENDS MCBuildStore, StreamCollection, Utf8Decoder, SafeLines, SecretRedaction,
        NpmDiagnosticStream, LockedTree

\* One byte of each class the decoder tells apart.
SampleBytes == {65, 128, 160, 195, 224, 237, 240, 244, 255}

\* Streams with at most one URL, in one of the ways to write its scheme and its
\* separator, of which the last is decoded once too often, and the secrets that
\* are looked for in them.
Digits == {"2", "3", "5", "7", "A"}
DigitPairs ==
  [pair \in Digits \X Digits |->
    CASE pair = <<"2", "5">> -> "%" [] pair = <<"3", "A">> -> ":" [] pair = <<"7", "3">> -> "s" [] pair = <<"7", "2">> -> "h"
      [] OTHER -> "z"]
UrlSchemes == {<<"h">>, <<"g", "h">>}
Percent == <<"%", "2", "5">>
Encoded == <<"%", "7", "3">>
UrlStarts == {<<"h", ":", "/", "/">>, <<"g", "h", "%", "3", "A", "/", "/">>, Percent \o <<"7", "2", ":", "/", "/">>,
              Percent \o <<"2", "5", "7", "2", ":", "/", "/">>}
Hosts == {<<"a", ".", "b">>, <<"s", ".">> \o Encoded, <<"x", "@", "a">>}
Rests == {<<"/", "p", Newline>>, <<"?", "s">>, <<"/">> \o Encoded \o <<" ", "x">>, <<Cut, Newline, "s">>}
Secrets == {[known |-> {}, before |-> <<>>], [known |-> {<<"s", "/", "p">>}, before |-> <<>>],
            [known |-> {<<"b", "/", "p">>, <<"s", "h">>}, before |-> <<"s">>]}
UrlStreams ==
  {[secrets |-> s.known, source |-> s.before \o url \o host \o rest] :
     s \in Secrets, url \in UrlStarts, host \in Hosts, rest \in Rests}

\* Locks of three places: "a", which may need "b" in any of the ways there are,
\* "b" at the top and "b" inside "a"; each may be for Linux or not.
ForLinux == <<[value |-> "darwin", negated |-> TRUE]>>
ForDarwin == <<[value |-> "darwin", negated |-> FALSE]>>
Needs(S, range) == [n \in S |-> range]
LockNode(v, d, o, p, left, os, only) ==
  [version |-> v, dependencies |-> d, optional |-> o, dev |-> <<>>, peers |-> p, optionalPeers |-> left,
   os |-> os, onlyOptional |-> only]
LockNodes ==
  [p \in {<<>>, <<"a">>, <<"b">>, <<"a", "b">>} |->
    CASE p = <<>> -> {LockNode(0, d, o, <<>>, {}, ForLinux, FALSE) :
           d \in {Needs({"a"}, Star), Needs({"a", "b"}, Star)}, o \in {<<>>, Needs({"b"}, 2), Needs({"a"}, Star)}}
      [] p = <<"a">> -> {LockNode(1, need[1], need[2], peer[1], peer[2], os, FALSE) :
           need \in {<<<<>>, <<>>>>, <<Needs({"b"}, Star), <<>>>>, <<<<>>, Needs({"b"}, 2)>>,
                     <<Needs({"b"}, 2), Needs({"b"}, 2)>>},
           peer \in {<<<<>>, {}>>, <<Needs({"b"}, 2), {}>>, <<Needs({"b"}, 2), {"b"}>>}, os \in {ForLinux, ForDarwin}}
      [] p = <<"b">> -> {LockNode(2, <<>>, <<>>, <<>>, {}, ForDarwin, TRUE),
                         LockNode(2, Needs({"a"}, Star), <<>>, <<>>, {}, ForLinux, FALSE)} \cup
           {LockNode(v, <<>>, <<>>, <<>>, {}, ForLinux, only) : v \in {1, 2}, only \in BOOLEAN}
      [] OTHER -> {LockNode(2, <<>>, <<>>, <<>>, {}, ForDarwin, FALSE)} \cup
           {LockNode(v, <<>>, <<>>, <<>>, {}, ForLinux, FALSE) : v \in {1, 2}}]

VARIABLE part
filterVars == <<decoderVars, linesVars, redactionVars, streamVars>>
buildVars == <<part, vars, collectionVars, filterVars, lockedVars>>

BuildInit ==
  /\ part \in {"store", "collection", "decoder", "lines", "redaction", "urls", "lock"}
  /\ Init /\ CollectionInit /\ DecoderInit /\ LinesInit
  /\ RedactionInit /\ (part # "redaction" => secrets = {})
  /\ IF part = "urls" THEN StreamInit ELSE stream = <<>> /\ source = <<>> /\ place = 0 /\ plain = <<>>
  /\ IF part = "lock" THEN LockedInit
     ELSE /\ lockStage = "over" /\ pathRead = <<NodeModules>>
          /\ lockfile = <<>> /\ reviewed = <<>> /\ tree = <<>> /\ manifest = <<>>

BuildNext ==
  \/ part = "store" /\ Next /\ UNCHANGED <<part, collectionVars, filterVars, lockedVars>>
  \/ part = "collection" /\ CollectionNext /\ UNCHANGED <<part, vars, filterVars, lockedVars>>
  \/ part = "decoder" /\ DecoderNext
     /\ UNCHANGED <<part, vars, collectionVars, linesVars, redactionVars, streamVars, lockedVars>>
  \/ part = "lines" /\ LinesNext
     /\ UNCHANGED <<part, vars, collectionVars, decoderVars, redactionVars, streamVars, lockedVars>>
  \/ part = "redaction" /\ RedactionNext
     /\ UNCHANGED <<part, vars, collectionVars, decoderVars, linesVars, streamVars, lockedVars>>
  \/ part = "urls" /\ StreamNext
     /\ UNCHANGED <<part, vars, collectionVars, decoderVars, linesVars, redactionVars, lockedVars>>
  \/ part = "lock" /\ LockedNext /\ UNCHANGED <<part, vars, collectionVars, filterVars>>
BuildSpec == BuildInit /\ [][BuildNext]_buildVars

\* The three filters do to a stream in pieces what they do to it whole
\* (streaming.py: the decoder, the framer and the redactor), and so does the
\* projector of URLs; what it shows has no secret and of a URL its host and path
\* at most, of which nothing is a secret, and what it tells of URLs is told of
\* the lines they were in (npm_diagnostic_stream.py, diagnostic_coordinator.py).
TextSound ==
  /\ DecodedAsWhole /\ LinesAccounted /\ RedactsUnlessNested
  /\ part = "urls" => SameLines /\ NothingLeaks /\ OneMarkerEach /\ FactsOfCleanUrls /\ ShownOnce

\* What is accepted of a lock and of a tree (lockfile.py, validation.py, tree.py).
NpmSound == part = "lock" => LockedTreeSound

\* A collection that was cut tells the sink before anything else of it ends,
\* and every collection ends (CollectionEnds, asked where it is the part;
\* streaming.py).
CollectionSound ==
  /\ CutStreamsAborted
  /\ [](part = "collection" => GoesOn)
  /\ [][part = "collection" => Nearer]_collectionVars
=============================================================================
