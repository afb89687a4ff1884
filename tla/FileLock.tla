------------------------------ MODULE FileLock ------------------------------
(***************************************************************************)
(* LockCapability (transactions/locking): processes that lock one name of  *)
(* a directory.  flock excludes by inode, the capability by name: between  *)
(* the open and the lock the name may come to stand for another inode.     *)
(*                                                                         *)
(* Simplifications.  An inode is a number.  Its access is what its mode    *)
(* grants the owner, "exact" for 0600.  A name is left for another inode   *)
(* only as the last act of a holder (Retire), whose critical section ends  *)
(* with it.  What fails without changing anything ends as "refused".       *)
(***************************************************************************)
EXTENDS Integers, FiniteSets

CONSTANTS Lockers,
          Superusers,         \* lockers that open whatever the mode denies
          FailFast,           \* lockers with LockPolicy.FAIL_FAST
          FirstFiles,         \* what may be there at first: inode records
          MaxInode            \* bound on the inodes ever made

Access == {"none", "read", "write", "exact"}
LockFile == [kind : {"regular", "other"}, access : Access, links : {1, 2}]

Nobody == "nobody"

ASSUME LockAssumption ==
  /\ Nobody \notin Lockers
  /\ Superusers \subseteq Lockers /\ FailFast \subseteq Lockers
  /\ FirstFiles \subseteq LockFile
  /\ MaxInode \in Nat \ {0}

VARIABLES
  lockEntry,      \* the inode of the name, 0 if there is none
  lockFiles,      \* attributes of the inodes made so far
  flocked,        \* inode -> who holds its flock
  lpc,            \* place of each locker
  lfd,            \* the inode each has open, 0 if none
  lockCreated     \* it made the inode itself

lockVars == <<lockEntry, lockFiles, flocked, lpc, lfd, lockCreated>>

Inodes == 1..MaxInode
LockPlaces == {"idle", "open", "open read", "open write", "refused", "lock", "validate", "probe",
               "repair", "held", "unlock", "close"}
Made == DOMAIN lockFiles
FreshInode == Cardinality(Made) + 1

LockInit ==
  /\ \/ lockEntry = 0 /\ lockFiles = <<>>
     \/ lockEntry = 1 /\ \E f \in FirstFiles : lockFiles = <<f>>
  /\ flocked = [i \in Inodes |-> Nobody]
  /\ lpc = [p \in Lockers |-> "idle"]
  /\ lfd = [p \in Lockers |-> 0]
  /\ lockCreated = [p \in Lockers |-> FALSE]

LockGoes(p, place) == lpc' = [lpc EXCEPT ![p] = place]
Drop(i) == flocked' = [flocked EXCEPT ![i] = Nobody]

----------------------------------------------------------------------------
(* _open_lock_entry *)

\* The exclusive creation; a umask may leave the new inode any access.
CreateLock(p) ==
  /\ lpc[p] = "idle"
  /\ IF lockEntry = 0
     THEN /\ FreshInode \in Inodes
          /\ \E a \in Access :
               lockFiles' = [i \in Made \cup {FreshInode} |->
                               IF i \in Made THEN lockFiles[i]
                               ELSE [kind |-> "regular", access |-> a, links |-> 1]]
          /\ lockEntry' = FreshInode
          /\ lfd' = [lfd EXCEPT ![p] = FreshInode]
          /\ lockCreated' = [lockCreated EXCEPT ![p] = TRUE]
          /\ LockGoes(p, "lock")
     ELSE /\ LockGoes(p, "open")
          /\ UNCHANGED <<lockEntry, lockFiles, lfd, lockCreated>>
  /\ UNCHANGED <<flocked>>

\* The directory denies creation, so only an existing entry will do.
DeniedCreation(p) ==
  /\ lpc[p] = "idle" /\ lockEntry = 0
  /\ LockGoes(p, "open")
  /\ UNCHANGED <<lockEntry, lockFiles, flocked, lfd, lockCreated>>

\* O_RDWR, then O_RDONLY, then O_WRONLY: an attempt is denied by the mode of
\* the inode that the name has at that moment.
Grants(i, attempt) ==
  \/ lockFiles[i].access = "exact"
  \/ attempt = "open read" /\ lockFiles[i].access = "read"
  \/ attempt = "open write" /\ lockFiles[i].access = "write"
NextAttempt(attempt) ==
  CASE attempt = "open" -> "open read" [] attempt = "open read" -> "open write"
    [] attempt = "open write" -> "refused"

OpenLock(p) ==
  /\ lpc[p] \in {"open", "open read", "open write"}
  /\ IF lockEntry = 0 THEN LockGoes(p, "refused") /\ UNCHANGED lfd
     ELSE IF Grants(lockEntry, lpc[p]) \/ p \in Superusers
     THEN lfd' = [lfd EXCEPT ![p] = lockEntry] /\ LockGoes(p, "lock")
     ELSE LockGoes(p, NextAttempt(lpc[p])) /\ UNCHANGED lfd
  /\ UNCHANGED <<lockEntry, lockFiles, flocked, lockCreated>>

----------------------------------------------------------------------------
(* acquire, once a descriptor is open *)

\* flock waits unless the policy is to fail fast; it may fail or be interrupted.
Flock(p) ==
  /\ lpc[p] = "lock"
  /\ \/ /\ flocked[lfd[p]] = Nobody
        /\ flocked' = [flocked EXCEPT ![lfd[p]] = p]
        /\ LockGoes(p, "validate")
     \/ /\ flocked[lfd[p]] # Nobody => p \in FailFast
        /\ LockGoes(p, "unlock") /\ UNCHANGED flocked
  /\ UNCHANGED <<lockEntry, lockFiles, lfd, lockCreated>>

InterruptLock(p) ==
  /\ lpc[p] \in {"lock", "validate", "probe", "repair"}
  /\ LockGoes(p, "unlock")
  /\ UNCHANGED <<lockEntry, lockFiles, flocked, lfd, lockCreated>>

\* _validate_lock.  Access is judged by the mode: a superuser opens anything.
ValidLock(p, i) ==
  /\ lockFiles[i].kind = "regular" /\ lockFiles[i].links = 1
  /\ lockCreated[p] \/ lockFiles[i].access # "none"

ValidateLock(p) ==
  /\ lpc[p] = "validate"
  /\ LockGoes(p, IF ValidLock(p, lfd[p]) THEN "probe" ELSE "unlock")
  /\ UNCHANGED <<lockEntry, lockFiles, flocked, lfd, lockCreated>>

\* A possible bug: the lock on the inode is taken for a lock on the name.
ProbeTrusting(p) ==
  /\ lpc[p] = "probe"
  /\ LockGoes(p, IF ValidLock(p, lfd[p]) THEN "repair" ELSE "unlock")
  /\ UNCHANGED <<lockEntry, lockFiles, flocked, lfd, lockCreated>>
\* _verify_unchanged opens the name again and compares; what the probe saw is
\* validated once more.
Probe(p) ==
  /\ lpc[p] = "probe"
  /\ LockGoes(p, IF lockEntry = lfd[p] /\ ValidLock(p, lockEntry) THEN "repair" ELSE "unlock")
  /\ UNCHANGED <<lockEntry, lockFiles, flocked, lfd, lockCreated>>

Repair(p) ==
  /\ lpc[p] = "repair"
  /\ lockFiles' = [lockFiles EXCEPT ![lfd[p]].access = "exact"]
  /\ LockGoes(p, "held")
  /\ UNCHANGED <<lockEntry, flocked, lfd, lockCreated>>

----------------------------------------------------------------------------
(* Release: unlock and close, each attempted once. *)

StartRelease(p) ==
  /\ lpc[p] = "held"
  /\ LockGoes(p, "unlock")
  /\ UNCHANGED <<lockEntry, lockFiles, flocked, lfd, lockCreated>>

\* The last act of a holder may be to take the entry away.
Retire(p) ==
  /\ lpc[p] = "held" /\ lockEntry = lfd[p]
  /\ lockEntry' = 0
  /\ LockGoes(p, "unlock")
  /\ UNCHANGED <<lockFiles, flocked, lfd, lockCreated>>

\* Unlocking may fail; the close then gives the lock back.
Unlock(p) ==
  /\ lpc[p] = "unlock"
  /\ flocked' \in {flocked, [flocked EXCEPT ![lfd[p]] = IF @ = p THEN Nobody ELSE @]}
  /\ LockGoes(p, "close")
  /\ UNCHANGED <<lockEntry, lockFiles, lfd, lockCreated>>

CloseLock(p) ==
  /\ lpc[p] = "close"
  /\ flocked' = [flocked EXCEPT ![lfd[p]] = IF @ = p THEN Nobody ELSE @]
  /\ lfd' = [lfd EXCEPT ![p] = 0]
  /\ lockCreated' = [lockCreated EXCEPT ![p] = FALSE]
  /\ LockGoes(p, "idle")
  /\ UNCHANGED <<lockEntry, lockFiles>>

TryAgain(p) ==
  /\ lpc[p] = "refused" /\ LockGoes(p, "idle")
  /\ UNCHANGED <<lockEntry, lockFiles, flocked, lfd, lockCreated>>

\* The kernel closes the descriptors of a process that dies.
LockerDies(p) ==
  /\ lpc[p] # "idle"
  /\ flocked' = [i \in Inodes |-> IF flocked[i] = p THEN Nobody ELSE flocked[i]]
  /\ lfd' = [lfd EXCEPT ![p] = 0]
  /\ lockCreated' = [lockCreated EXCEPT ![p] = FALSE]
  /\ LockGoes(p, "idle")
  /\ UNCHANGED <<lockEntry, lockFiles>>

\* Somebody changes the mode or the links of the entry.
EntryChanges ==
  /\ lockEntry # 0
  /\ \E a \in Access, n \in {1, 2} :
       lockFiles' = [lockFiles EXCEPT ![lockEntry].access = a, ![lockEntry].links = n]
  /\ UNCHANGED <<lockEntry, flocked, lpc, lfd, lockCreated>>

LockerStep(p) ==
  \/ CreateLock(p) \/ DeniedCreation(p) \/ OpenLock(p) \/ Flock(p) \/ InterruptLock(p)
  \/ ValidateLock(p) \/ Probe(p) \/ Repair(p) \/ StartRelease(p) \/ Retire(p) \/ Unlock(p)
  \/ CloseLock(p) \/ TryAgain(p) \/ LockerDies(p)

LockNext == EntryChanges \/ \E p \in Lockers : LockerStep(p)
LockSpec == LockInit /\ [][LockNext]_lockVars

----------------------------------------------------------------------------
LockTypeOK ==
  /\ lockEntry \in 0..MaxInode /\ (lockEntry # 0 => lockEntry \in Made)
  /\ Made \subseteq Inodes /\ \A i \in Made : lockFiles[i] \in LockFile
  /\ flocked \in [Inodes -> Lockers \cup {Nobody}] /\ lpc \in [Lockers -> LockPlaces]
  /\ lfd \in [Lockers -> 0..MaxInode] /\ lockCreated \in [Lockers -> BOOLEAN]

\* Two live capabilities for the name never coexist, although flock excludes
\* by inode only and the name may change hands between open and lock
\* (_verify_unchanged "closes that window for cooperating writers").
HoldersExclude == \A p, q \in Lockers : lpc[p] = "held" /\ lpc[q] = "held" => p = q
=============================================================================
