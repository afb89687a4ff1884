---------------------------- MODULE ResponseCache ----------------------------
(***************************************************************************)
(* The HTTP response cache (versioning/cache): commands that ask for one   *)
(* (method, url, scope, representation), each with a memory of its own,    *)
(* over one directory.  An entry on disk is an inode in two halves, each   *)
(* the number of the response it is a half of, 0 if not written.  Two      *)
(* halves parse, those of one response or, at equal lengths, of two.       *)
(* Clocks agree: time.time and time.monotonic are one.                     *)
(***************************************************************************)
EXTENDS Integers, Sequences, FiniteSets

CONSTANTS Commands, TTL,
          MaxResponses,     \* bound on the responses fetched
          MaxClock          \* bound on the time that passes

ASSUME ResponseAssumption == TTL \in Nat \ {0} /\ MaxResponses \in Nat /\ MaxClock \in Nat

VARIABLES
  clock, fetched,  \* fetched: when each response was received
  entries,         \* the inodes made so far, as pairs of halves
  temporary, final,\* the inode of "<digest>.tmp" and of "<digest>", 0 if none
  cpc, cnow,       \* place of each command, the now of its request
  memory,          \* what it remembers: response and stamp
  writing,         \* the inode it has open, the response it writes there
  overlapped       \* ghost: two commands wrote one temporary at once

cacheVars == <<clock, fetched, entries, temporary, final, cpc, cnow, memory, writing, overlapped>>

Nothing == [halves |-> <<0, 0>>, stamp |-> 0]
NotWriting == [inode |-> 0, response |-> 0]

CacheInit ==
  /\ clock = 0 /\ fetched = <<>> /\ entries = <<>> /\ temporary = 0 /\ final = 0
  /\ cpc = [c \in Commands |-> "idle"] /\ cnow = [c \in Commands |-> 0]
  /\ memory = [c \in Commands |-> Nothing]
  /\ writing = [c \in Commands |-> NotWriting]
  /\ overlapped = FALSE

CacheGoes(c, place) == cpc' = [cpc EXCEPT ![c] = place]
diskVars == <<fetched, entries, temporary, final, writing, overlapped>>

Remembered(c) == memory[c].halves # <<0, 0>> /\ clock - memory[c].stamp < TTL

\* What is remembered is served at once and changes nothing.  now is taken once,
\* and stamps whatever the request will remember.
Request(c) ==
  /\ cpc[c] = "idle"
  /\ ~ Remembered(c)
  /\ cnow' = [cnow EXCEPT ![c] = clock]
  /\ CacheGoes(c, "disk")
  /\ UNCHANGED <<clock, memory, diskVars>>

\* A possible bug: the age of an entry is left to the memory.
OnDiskAnyAge == final # 0 /\ 0 \notin {entries[final][1], entries[final][2]}
\* A possible bug: a truncated entry is taken for a whole one.
OnDiskPart == final # 0 /\ entries[final][1] # 0 /\ clock - fetched[entries[final][1]] <= TTL

\* DiskCache.get: what does not parse or is older than the TTL is a miss.
OnDisk == /\ final # 0 /\ 0 \notin {entries[final][1], entries[final][2]}
          /\ clock - fetched[entries[final][1]] <= TTL

\* A hit on disk is remembered with the now of the request, not its own age.
FromDisk(c) ==
  /\ cpc[c] = "disk"
  /\ IF OnDisk
     THEN /\ memory' = [memory EXCEPT ![c] = [halves |-> entries[final], stamp |-> cnow[c]]]
          /\ CacheGoes(c, "end")
     ELSE CacheGoes(c, "fetch") /\ UNCHANGED memory
  /\ UNCHANGED <<clock, cnow, diskVars>>

\* The delegate answers, or raises; a read-only cache is not written.
Fetch(c) ==
  /\ cpc[c] = "fetch"
  /\ \/ /\ Len(fetched) < MaxResponses
        /\ LET r == Len(fetched) + 1 IN
             /\ fetched' = Append(fetched, clock)
             /\ memory' = [memory EXCEPT ![c] = [halves |-> <<r, r>>, stamp |-> cnow[c]]]
             /\ writing' = [writing EXCEPT ![c] = [inode |-> 0, response |-> r]]
        /\ CacheGoes(c, "open") \/ CacheGoes(c, "end")
     \/ CacheGoes(c, "end") /\ UNCHANGED <<fetched, memory, writing>>
  /\ UNCHANGED <<clock, cnow, entries, temporary, final, overlapped>>

----------------------------------------------------------------------------
(* DiskCache.set.  The name of the temporary depends on the key alone. *)

Written(c) == writing[c].inode
OpenTemporary(c) ==
  /\ cpc[c] = "open"
  /\ LET i == IF temporary = 0 THEN Len(entries) + 1 ELSE temporary IN
       /\ entries' = IF temporary = 0 THEN Append(entries, <<0, 0>>)
                                      ELSE [entries EXCEPT ![i] = <<0, 0>>]
       /\ temporary' = i
       /\ writing' = [writing EXCEPT ![c].inode = i]
       /\ overlapped' = (overlapped \/ \E other \in Commands \ {c} : Written(other) = i)
  /\ CacheGoes(c, "write")
  /\ UNCHANGED <<clock, cnow, memory, fetched, final>>

WriteHalf(c) ==
  /\ cpc[c] \in {"write", "write_rest"}
  /\ entries' = [entries EXCEPT ![Written(c)] =
                   IF cpc[c] = "write" THEN <<writing[c].response, @[2]>>
                                       ELSE <<@[1], writing[c].response>>]
  /\ CacheGoes(c, IF cpc[c] = "write" THEN "write_rest" ELSE "publish")
  /\ UNCHANGED <<clock, cnow, memory, fetched, temporary, final, writing, overlapped>>

\* publish_private_entry renames whatever the name stands for; with nothing
\* there the command fails.
PublishEntry(c) ==
  /\ cpc[c] = "publish"
  /\ IF temporary # 0 THEN final' = temporary /\ temporary' = 0
                      ELSE UNCHANGED <<final, temporary>>
  /\ CacheGoes(c, "end")
  /\ UNCHANGED <<clock, cnow, memory, fetched, entries, writing, overlapped>>

EndRequest(c) ==
  /\ cpc[c] = "end"
  /\ writing' = [writing EXCEPT ![c] = NotWriting] /\ cnow' = [cnow EXCEPT ![c] = 0]
  /\ CacheGoes(c, "idle")
  /\ UNCHANGED <<clock, memory, fetched, entries, temporary, final, overlapped>>

\* A write may fail; a killed command forgets what it remembered.
WriteFails(c) ==
  /\ cpc[c] \in {"open", "write", "write_rest", "publish"}
  /\ CacheGoes(c, "end")
  /\ UNCHANGED <<clock, cnow, memory, diskVars>>

CommandEnds(c) ==
  /\ cpc[c] # "idle" \/ memory[c] # Nothing
  /\ cpc' = [cpc EXCEPT ![c] = "idle"] /\ memory' = [memory EXCEPT ![c] = Nothing]
  /\ writing' = [writing EXCEPT ![c] = NotWriting] /\ cnow' = [cnow EXCEPT ![c] = 0]
  /\ UNCHANGED <<clock, fetched, entries, temporary, final, overlapped>>

\* clear: the entries of the directory one by one, the temporary as well.
ClearCache(c) ==
  /\ cpc[c] = "idle"
  /\ \/ temporary' = 0 /\ UNCHANGED final
     \/ final' = 0 /\ UNCHANGED temporary
  /\ memory' = [memory EXCEPT ![c] = Nothing]
  /\ UNCHANGED <<clock, cnow, cpc, fetched, entries, writing, overlapped>>

TimePasses ==
  /\ clock < MaxClock /\ clock' = clock + 1
  /\ UNCHANGED <<cnow, cpc, memory, diskVars>>

CacheStep(c) ==
  \/ Request(c) \/ FromDisk(c) \/ Fetch(c) \/ OpenTemporary(c) \/ WriteHalf(c)
  \/ PublishEntry(c) \/ EndRequest(c) \/ WriteFails(c) \/ CommandEnds(c) \/ ClearCache(c)
CacheNext == TimePasses \/ \E c \in Commands : CacheStep(c)
CacheSpec == CacheInit /\ [][CacheNext]_cacheVars

----------------------------------------------------------------------------
\* What a command remembers and would still serve is one whole response,
\* unless two commands wrote the entry at once, and is younger than twice the
\* TTL: the age on disk and the age in memory are each bounded, and add up.
ServedSound ==
  \A c \in Commands : memory[c] # Nothing /\ Remembered(c) =>
    LET halves == memory[c].halves IN
      /\ halves[1] = halves[2] \/ overlapped
      /\ clock - fetched[halves[1]] < 2 * TTL
=============================================================================
