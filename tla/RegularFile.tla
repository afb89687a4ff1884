----------------------------- MODULE RegularFile -----------------------------
(***************************************************************************)
(* RegularFileContracts (transactions/regular): processes that publish,    *)
(* replace, read and unlink one name of a directory, a system call a step. *)
(* Any call may fail, a process may be interrupted or killed between two   *)
(* calls, and the power may fail.                                          *)
(*                                                                         *)
(* history is every inode the name has stood for, 0 for none, the present  *)
(* one last.  A change of a directory reaches the disk in order and at any *)
(* time, by a flush of the directory at the latest: a power loss leaves    *)
(* the name as of some index from onDisk on.                               *)
(***************************************************************************)
EXTENDS Integers, Sequences, FiniteSets, SequencesExt

CONSTANTS Writers,
          Contracts,        \* the operations they call
          MaxInodes,        \* bound on the files ever made
          MaxHistory        \* bound on the changes of the name

\* The step a contract starts with and the one that follows each step of it.
AtomicPath == [start |-> "allocate", allocate |-> "write", write |-> "close", close |-> "link",
               link |-> "drop", drop |-> "return"]
NoClobberPath == [start |-> "allocate", allocate |-> "write", write |-> "flush",
                  flush |-> "close", close |-> "link", link |-> "drop", drop |-> "sync",
                  sync |-> "return"]
ReplacePath == [start |-> "allocate", allocate |-> "write", write |-> "flush",
                flush |-> "close", close |-> "check", check |-> "rename", rename |-> "sync",
                sync |-> "return"]
ReadPath == [start |-> "open", open |-> "stat", stat |-> "read", read |-> "close",
             close |-> "return"]
UnlinkPath == [start |-> "open", open |-> "stat", stat |-> "remove", remove |-> "sync",
               sync |-> "close", close |-> "return"]

\* A possible bug: the file that replaces is not flushed first.
PathUnflushed == [atomic |-> AtomicPath, no_clobber |-> NoClobberPath,
                  replace |-> [ReplacePath EXCEPT !.write = "close"],
                  read |-> ReadPath, unlink |-> UnlinkPath]
PathOf == [atomic |-> AtomicPath, no_clobber |-> NoClobberPath, replace |-> ReplacePath,
           read |-> ReadPath, unlink |-> UnlinkPath]

\* What an inode holds: "torn" is what a power loss may leave of bytes that
\* were written and not flushed.
Contents == {"empty", "written", "flushed", "torn"}
File == [contents : Contents, safe : BOOLEAN, links : 0..2,
         atomic : BOOLEAN]

ASSUME RegularAssumption ==
  /\ Contracts \subseteq DOMAIN PathOf
  /\ MaxInodes \in Nat /\ MaxHistory \in Nat

VARIABLES
  regFiles,    \* the inodes made so far
  history, onDisk,
  promised,    \* ghost: the latest index a durable contract reported
  rop, rpc,    \* the contract of each process and its place in it
  rfd, rtemp,  \* the inode it has open, the inode of its private name
  rindex       \* the index of history it made or found, 0 before

regVars == <<regFiles, history, onDisk, promised, rop, rpc, rfd, rtemp, rindex>>
fileVars == <<regFiles, history, onDisk, promised>>

None == [p \in Writers |-> 0]

RegInit ==
  /\ \/ regFiles = <<>> /\ history = <<0>>
     \/ /\ \E s \in BOOLEAN, n \in {1, 2} :
             regFiles = <<[contents |-> "flushed", safe |-> s, links |-> n, atomic |-> FALSE]>>
        /\ history = <<1>>
  /\ onDisk = 1 /\ promised = 1
  /\ rop = [p \in Writers |-> "none"] /\ rpc = [p \in Writers |-> "idle"]
  /\ rfd = None /\ rtemp = None
  /\ rindex = None

\* The operation of p is over, whatever it held.
Over(p) == /\ rpc' = [rpc EXCEPT ![p] = "idle"] /\ rop' = [rop EXCEPT ![p] = "none"]
           /\ rfd' = [rfd EXCEPT ![p] = 0] /\ rtemp' = [rtemp EXCEPT ![p] = 0]
           /\ rindex' = [rindex EXCEPT ![p] = 0]
Standing == Last(history)
At(p, place) == rpc[p] = place
RegGoes(p, place) == rpc' = [rpc EXCEPT ![p] = place]
Advance(p) == RegGoes(p, PathOf[rop[p]][rpc[p]])
\* The name comes to stand for inode i.
Renamed(p, i) == /\ Len(history) < MaxHistory
                 /\ history' = Append(history, i)
                 /\ rindex' = [rindex EXCEPT ![p] = Len(history) + 1]

RegStart(p) ==
  /\ At(p, "idle")
  /\ \E op \in Contracts : rop' = [rop EXCEPT ![p] = op] /\ RegGoes(p, PathOf[op].start)
  /\ UNCHANGED <<fileVars, rfd, rtemp, rindex>>

----------------------------------------------------------------------------
(* The private sibling *)

\* _allocate_temporary.  A name that collides is never touched and another one is
\* tried; to run out of attempts is one more way the call fails.
Allocate(p) ==
  /\ At(p, "allocate")
  /\ Len(regFiles) < MaxInodes
  /\ regFiles' = Append(regFiles, [contents |-> "empty", safe |-> TRUE, links |-> 1,
                                   atomic |-> rop[p] = "atomic"])
  /\ rfd' = [rfd EXCEPT ![p] = Len(regFiles) + 1]
  /\ rtemp' = [rtemp EXCEPT ![p] = Len(regFiles) + 1]
  /\ Advance(p)
  /\ UNCHANGED <<history, onDisk, promised, rop, rindex>>

\* _establish_mode and _write_all, to a file nobody else can name.
WriteAll(p) ==
  /\ At(p, "write") /\ Advance(p)
  /\ regFiles' = [regFiles EXCEPT ![rfd[p]].contents = "written"]
  /\ UNCHANGED <<history, onDisk, promised, rop, rfd, rtemp, rindex>>

FsyncFile(p) ==
  /\ At(p, "flush") /\ Advance(p)
  /\ regFiles' = [regFiles EXCEPT ![rfd[p]].contents = "flushed"]
  /\ UNCHANGED <<history, onDisk, promised, rop, rfd, rtemp, rindex>>

\* One attempt, ownership given up first; the close itself may fail.
CloseFile(p) ==
  /\ At(p, "close")
  /\ rfd' = [rfd EXCEPT ![p] = 0]
  /\ RegGoes(p, "discard") \/ Advance(p)
  /\ UNCHANGED <<fileVars, rop, rtemp, rindex>>

----------------------------------------------------------------------------
(* Commits *)

\* _link_no_clobber: EEXIST is DestinationExists.
LinkNoClobber(p) ==
  /\ At(p, "link") /\ Standing = 0
  /\ Renamed(p, rtemp[p])
  /\ regFiles' = [regFiles EXCEPT ![rtemp[p]].links = @ + 1]
  /\ Advance(p)
  /\ UNCHANGED <<onDisk, promised, rop, rfd, rtemp>>

\* _validate_destination: a descriptor is opened, examined and closed.
ValidateDestination(p) ==
  /\ At(p, "check")
  /\ IF Standing = 0 \/ (regFiles[Standing].safe /\ regFiles[Standing].links = 1)
     THEN Advance(p) ELSE RegGoes(p, "discard")
  /\ UNCHANGED <<fileVars, rop, rfd, rtemp, rindex>>

Unlinked(i) == IF i = 0 THEN regFiles ELSE [regFiles EXCEPT ![i].links = @ - 1]

\* _rename_basename replaces whatever has the name by now.
RenameBasename(p) ==
  /\ At(p, "rename")
  /\ Renamed(p, rtemp[p])
  /\ regFiles' = Unlinked(Standing)
  /\ rtemp' = [rtemp EXCEPT ![p] = 0]
  /\ Advance(p)
  /\ UNCHANGED <<onDisk, promised, rop, rfd>>

UnlinkTemporary(p) ==
  /\ At(p, "drop")
  /\ regFiles' = Unlinked(rtemp[p])
  /\ rtemp' = [rtemp EXCEPT ![p] = 0]
  /\ Advance(p)
  /\ UNCHANGED <<history, onDisk, promised, rop, rfd, rindex>>

FsyncDirectory(p) ==
  /\ At(p, "sync") /\ Advance(p)
  /\ onDisk' = Len(history)
  /\ UNCHANGED <<regFiles, history, promised, rop, rfd, rtemp, rindex>>

----------------------------------------------------------------------------
(* validated_read and durable_unlink *)

\* A possible bug: an absent entry needs no work.
AbsentAtOnce(p) == RegGoes(p, "return")

\* With allow_absent an absent entry is removed already: durable_unlink still
\* flushes the directory.
AbsentEntry(p) == RegGoes(p, "sync absent")

OpenEntry(p) ==
  /\ At(p, "open")
  /\ IF Standing # 0
     THEN rfd' = [rfd EXCEPT ![p] = Standing] /\ Advance(p) /\ UNCHANGED rindex
     ELSE /\ UNCHANGED rfd
          /\ \/ /\ rop[p] = "unlink" /\ AbsentEntry(p)
                /\ rindex' = [rindex EXCEPT ![p] = Len(history)]
             \/ RegGoes(p, "discard") /\ UNCHANGED rindex
  /\ UNCHANGED <<fileVars, rop, rtemp>>

SyncAbsent(p) ==
  /\ At(p, "sync absent")
  /\ onDisk' = Len(history)
  /\ RegGoes(p, "return")
  /\ UNCHANGED <<regFiles, history, promised, rop, rfd, rtemp, rindex>>

\* The descriptor is examined, not the name.  Only a read may do without the
\* single link.
StatEntry(p) ==
  /\ At(p, "stat")
  /\ \/ regFiles[rfd[p]].safe /\ (rop[p] = "read" \/ regFiles[rfd[p]].links = 1) /\ Advance(p)
     \/ ~ (regFiles[rfd[p]].safe /\ regFiles[rfd[p]].links = 1) /\ RegGoes(p, "discard")
  /\ UNCHANGED <<fileVars, rop, rfd, rtemp, rindex>>

ReadAll(p) ==
  /\ At(p, "read") /\ Advance(p)
  /\ UNCHANGED <<fileVars, rop, rfd, rtemp, rindex>>

\* _unlink_basename removes the name, whatever it stands for by now.
UnlinkBasename(p) ==
  /\ At(p, "remove") /\ Standing # 0
  /\ Renamed(p, 0)
  /\ regFiles' = Unlinked(Standing)
  /\ Advance(p)
  /\ UNCHANGED <<onDisk, promised, rop, rfd, rtemp>>

----------------------------------------------------------------------------
(* Ends *)

RegReturn(p) ==
  /\ At(p, "return")
  /\ promised' = IF rop[p] \in {"no_clobber", "replace", "unlink"} /\ rindex[p] > promised
                 THEN rindex[p] ELSE promised
  /\ Over(p)
  /\ UNCHANGED <<regFiles, history, onDisk>>

\* The call at hand fails without effect, or an interruption arrives before it.
RegFails(p) ==
  /\ rpc[p] \notin {"idle", "discard"}
  /\ RegGoes(p, "discard")
  /\ UNCHANGED <<fileVars, rop, rfd, rtemp, rindex>>

\* An interruption as the allocation returns: nobody owns the private entry.
AllocationLost(p) ==
  /\ At(p, "allocate") /\ Len(regFiles) < MaxInodes
  /\ regFiles' = Append(regFiles, [contents |-> "empty", safe |-> TRUE, links |-> 1,
                                   atomic |-> rop[p] = "atomic"])
  /\ RegGoes(p, "discard")
  /\ UNCHANGED <<history, onDisk, promised, rop, rfd, rtemp, rindex>>

\* _discard: the close and the removal of the private name are independent,
\* each attempted once and free to fail.
Discard(p) ==
  /\ At(p, "discard")
  /\ regFiles' \in {regFiles, Unlinked(rtemp[p])}
  /\ Over(p)
  /\ UNCHANGED <<history, onDisk, promised>>

RegKilled(p) ==
  /\ ~ At(p, "idle") /\ Over(p)
  /\ UNCHANGED fileVars

\* Also the removal of a private name may be undone: links are anyone's guess.
PowerLoss ==
  /\ \E k \in onDisk..Len(history) : history' = SubSeq(history, 1, k) /\ onDisk' = k
  /\ \E links \in {1, 2}, torn \in BOOLEAN :
       regFiles' = [i \in DOMAIN regFiles |->
         [regFiles[i] EXCEPT !.links = links,
            !.contents = IF torn /\ @ = "written" THEN "torn" ELSE @]]
  /\ rpc' = [p \in Writers |-> "idle"] /\ rop' = [p \in Writers |-> "none"]
  /\ rfd' = None /\ rtemp' = None /\ rindex' = None
  /\ UNCHANGED promised

RegStep(p) ==
  \/ RegStart(p) \/ Allocate(p) \/ WriteAll(p) \/ FsyncFile(p) \/ CloseFile(p)
  \/ LinkNoClobber(p) \/ ValidateDestination(p) \/ RenameBasename(p) \/ UnlinkTemporary(p)
  \/ FsyncDirectory(p) \/ OpenEntry(p) \/ SyncAbsent(p) \/ StatEntry(p) \/ ReadAll(p)
  \/ UnlinkBasename(p) \/ RegReturn(p) \/ RegFails(p) \/ AllocationLost(p)
  \/ Discard(p) \/ RegKilled(p)

RegNext == PowerLoss \/ \E p \in Writers : RegStep(p)
RegSpec == RegInit /\ [][RegNext]_regVars

----------------------------------------------------------------------------
\* Whatever the name stands for, or a power loss may make it stand for, was
\* written to the end before it got the name, and a durable contract had
\* flushed it: the disk never holds a torn durable file.
EntryComplete ==
  \A k \in onDisk..Len(history) :
    LET i == history[k] IN
      i # 0 => /\ regFiles[i].contents # "empty"
               /\ ~ regFiles[i].atomic => regFiles[i].contents = "flushed"

\* What a durable contract reported cannot be undone by a power loss, not even
\* the absence that durable_unlink merely found.
DurableKept == promised <= onDisk

\* A durable file is complete whenever it has its name, and what was durable
\* stays so through failures and crashes (regular.py).
RegularSound == EntryComplete /\ DurableKept
=============================================================================
