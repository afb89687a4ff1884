---------------------------- MODULE ArtifactCache ----------------------------
(***************************************************************************)
(* The shared runtime-artifact cache (versioning/artifact_cache): launches *)
(* that materialize one integrity identity.  The lock of the identity is   *)
(* the one of FileLock, taken as exclusive here.                           *)
(*                                                                         *)
(* Nothing is flushed: a power loss may leave anything at the final path.  *)
(* A path is opened once per inspection, no component followed, so that an *)
(* inspection is one step; an OSError in it counts as a miss.              *)
(***************************************************************************)
EXTENDS Integers, Sequences, FiniteSets

CONSTANTS Launches

\* The lock of an identity that nobody holds.
Unheld == "unheld"
ASSUME ArtifactAssumption == Unheld \notin Launches

VARIABLES
  blob,        \* what the final path holds
  aholder,     \* who has the lock of the identity
  apc,
  atemp,       \* the private temporary blob of each launch
  amapped,     \* launches that have returned the path, still running
  adisturbed   \* ghost: a locked recheck took an I/O error for a miss

artifactVars == <<blob, aholder, apc, atemp, amapped, adisturbed>>

\* "wrong" are regular bytes of another digest, "unsafe" a symlink, a
\* directory or a file others may write.
BlobStates == {"absent", "right", "wrong", "unsafe"}
TempStates == {"none", "directory", "partial", "right", "wrong"}

ArtifactInit ==
  /\ blob \in BlobStates /\ aholder = Unheld
  /\ apc = [p \in Launches |-> "idle"]
  /\ atemp = [p \in Launches |-> "none"]
  /\ amapped = {} /\ adisturbed = FALSE

\* What an inspection finds at the path, all from one descriptor.
Inspect == [exists |-> blob # "absent", safe |-> blob \in {"right", "wrong"}, digest |-> blob = "right"]
Hit == Inspect.exists /\ Inspect.safe /\ Inspect.digest

\* What a launch does once it has asked for the lock, in this order.
Pipeline ==
  [lock |-> "recheck", recheck |-> "quarantine", quarantine |-> "secure", secure |-> "temporary",
   temporary |-> "create", create |-> "stream", stream |-> "finalize", finalize |-> "verify",
   verify |-> "publish", publish |-> "permissions", permissions |-> "revalidate",
   revalidate |-> "clean_hit"]
ArtifactGoes(p, place) == apc' = [apc EXCEPT ![p] = place]
Onward(p) == ArtifactGoes(p, Pipeline[apc[p]])
\* Everything after the lock was asked for ends with the two cleanup actions.
Fails(p) == ArtifactGoes(p, "clean_failed")
TempBecomes(p, t) == atemp' = [atemp EXCEPT ![p] = t]

\* The algorithm directory is hardened before anything is looked at.
StartLaunch(p) ==
  /\ apc[p] = "idle" /\ p \notin amapped
  /\ ArtifactGoes(p, "fast")
  /\ UNCHANGED <<blob, aholder, atemp, amapped, adisturbed>>

\* Without the lock: whatever is not a valid hit is a miss.
FastPath(p) ==
  /\ apc[p] = "fast"
  /\ \/ Hit /\ ArtifactGoes(p, "return")
     \/ ArtifactGoes(p, "lock")
  /\ UNCHANGED <<blob, aholder, atemp, amapped, adisturbed>>

AcquireIdentity(p) ==
  /\ apc[p] = "lock"
  /\ \/ aholder = Unheld /\ aholder' = p /\ Onward(p)
     \/ Fails(p) /\ UNCHANGED aholder
  /\ UNCHANGED <<blob, atemp, amapped, adisturbed>>

Recheck(p) ==
  /\ apc[p] = "recheck"
  /\ \/ Hit /\ ArtifactGoes(p, "clean_hit") /\ UNCHANGED adisturbed
     \/ Onward(p) /\ adisturbed' = (adisturbed \/ Hit)
  /\ UNCHANGED <<blob, aholder, atemp, amapped>>

\* quarantine_or_remove, whatever the path holds by now.
Quarantine(p) ==
  /\ apc[p] = "quarantine"
  /\ \/ blob' = "absent" /\ Onward(p)
     \/ Fails(p) /\ UNCHANGED blob
  /\ UNCHANGED <<aholder, atemp, amapped, adisturbed>>

\* A launch of another identity that makes the same directory between the look
\* and the mkdir fails this one.
SecureDir(p) ==
  /\ apc[p] = "secure" /\ (Onward(p) \/ Fails(p))
  /\ UNCHANGED <<blob, aholder, atemp, amapped, adisturbed>>

\* A new directory of this launch alone, then made private.
MakeTemporary(p) ==
  /\ apc[p] = "temporary"
  /\ \/ TempBecomes(p, "directory") /\ (Onward(p) \/ Fails(p))
     \/ Fails(p) /\ UNCHANGED atemp
  /\ UNCHANGED <<blob, aholder, amapped, adisturbed>>

CreateTemp(p) ==
  /\ apc[p] = "create"
  /\ \/ TempBecomes(p, "partial") /\ Onward(p)
     \/ Fails(p) /\ UNCHANGED atemp
  /\ UNCHANGED <<blob, aholder, amapped, adisturbed>>

\* The chunks are hashed as they are appended; the end of the stream says
\* nothing of the bytes.  The transport, a write or a close may fail.
Stream(p) ==
  /\ apc[p] = "stream"
  /\ \/ \E t \in {"right", "wrong"} : TempBecomes(p, t) /\ Onward(p)
     \/ Fails(p) /\ UNCHANGED atemp
  /\ UNCHANGED <<blob, aholder, amapped, adisturbed>>

FinalizeTemp(p) ==
  /\ apc[p] = "finalize" /\ (Onward(p) \/ Fails(p))
  /\ UNCHANGED <<blob, aholder, atemp, amapped, adisturbed>>

\* A possible bug: the digest is left to the revalidation.
VerifyLater(p) ==
  /\ apc[p] = "verify" /\ Onward(p)
  /\ UNCHANGED <<blob, aholder, atemp, amapped, adisturbed>>

\* The digest decides before anything is published.
Verify(p) ==
  /\ apc[p] = "verify"
  /\ \/ atemp[p] = "right" /\ Onward(p)
     \/ Fails(p)
  /\ UNCHANGED <<blob, aholder, atemp, amapped, adisturbed>>

\* atomic_publish replaces, on one filesystem only.
PublishBlob(p) ==
  /\ apc[p] = "publish"
  /\ \/ blob' = atemp[p] /\ TempBecomes(p, "directory") /\ Onward(p)
     \/ Fails(p) /\ UNCHANGED <<blob, atemp>>
  /\ UNCHANGED <<aholder, amapped, adisturbed>>

\* Outside of the handler that withdraws: its failure leaves the blob.
SetPermissions(p) ==
  /\ apc[p] = "permissions" /\ (Onward(p) \/ Fails(p))
  /\ UNCHANGED <<blob, aholder, atemp, amapped, adisturbed>>

Revalidate(p) ==
  /\ apc[p] = "revalidate"
  /\ \/ Hit /\ Onward(p)
     \/ ArtifactGoes(p, "withdraw")
  /\ UNCHANGED <<blob, aholder, atemp, amapped, adisturbed>>

\* What does not validate is withdrawn; the withdrawal may fail as well.
Withdraw(p) ==
  /\ apc[p] = "withdraw"
  /\ blob' \in {blob, "absent"}
  /\ adisturbed' = (adisturbed \/ Hit)
  /\ Fails(p)
  /\ UNCHANGED <<aholder, atemp, amapped>>

\* Both cleanup actions are attempted; a failure of either fails the launch.
CleanUp(p) ==
  /\ apc[p] \in {"clean_hit", "clean_failed"}
  /\ \/ TempBecomes(p, "none") /\ ArtifactGoes(p, IF apc[p] = "clean_hit" THEN "return" ELSE "idle")
     \/ atemp[p] # "none" /\ UNCHANGED atemp /\ ArtifactGoes(p, "idle")
  /\ aholder' = IF aholder = p THEN Unheld ELSE aholder
  /\ UNCHANGED <<blob, amapped, adisturbed>>

\* The caller has the path, and mounts it as long as the launch lasts.
ReturnBlob(p) ==
  /\ apc[p] = "return"
  /\ amapped' = amapped \cup {p} /\ ArtifactGoes(p, "idle")
  /\ UNCHANGED <<blob, aholder, atemp, adisturbed>>

EndLaunch(p) ==
  /\ p \in amapped
  /\ amapped' = amapped \ {p}
  /\ UNCHANGED <<blob, aholder, apc, atemp, adisturbed>>

\* A killed launch leaves its temporary directory; nothing looks for it later.
LaunchKilled(p) ==
  /\ apc[p] # "idle"
  /\ ArtifactGoes(p, "idle") /\ TempBecomes(p, "none")
  /\ aholder' = IF aholder = p THEN Unheld ELSE aholder
  /\ UNCHANGED <<blob, amapped, adisturbed>>

\* inspect_verified_blob_readonly only looks.
PowerFails ==
  /\ blob' \in BlobStates /\ aholder' = Unheld
  /\ apc' = [p \in Launches |-> "idle"] /\ atemp' = [p \in Launches |-> "none"]
  /\ amapped' = {} /\ adisturbed' = FALSE

ArtifactStep(p) ==
  \/ StartLaunch(p) \/ FastPath(p) \/ AcquireIdentity(p) \/ Recheck(p) \/ Quarantine(p)
  \/ SecureDir(p) \/ MakeTemporary(p) \/ CreateTemp(p) \/ Stream(p) \/ FinalizeTemp(p)
  \/ Verify(p) \/ PublishBlob(p) \/ SetPermissions(p) \/ Revalidate(p) \/ Withdraw(p)
  \/ CleanUp(p) \/ ReturnBlob(p) \/ EndLaunch(p) \/ LaunchKilled(p)

ArtifactNext == PowerFails \/ \E p \in Launches : ArtifactStep(p)
ArtifactSpec == ArtifactInit /\ [][ArtifactNext]_artifactVars

----------------------------------------------------------------------------
\* While a launch mounts the path it was given, the path holds the declared
\* bytes, whatever other launches of the identity do; it may only be absent,
\* and only after another launch took an I/O error under the lock for a miss.
MountedIsRight ==
  amapped # {} => blob = "right" \/ (adisturbed /\ blob = "absent")
=============================================================================
