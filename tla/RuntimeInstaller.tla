-------------------------- MODULE RuntimeInstaller --------------------------
(***************************************************************************)
(* What a container does before the user's command (entrypoint.sh,         *)
(* runtime_installer): it reads the mounted projection, checks the mount   *)
(* of the Pi home and the user, and brings each extension to its version   *)
(* from the mounted blobs.  Containers share the Pi home, so they install  *)
(* side by side; one may be killed between two files of an archive.        *)
(*                                                                         *)
(* A package is its metadata file and its code; a file is known by the     *)
(* archive it came from.  An archive may name another version than the     *)
(* one it was selected for, and has its files in either order.             *)
(***************************************************************************)
EXTENDS Integers, Sequences, FiniteSets, SequencesExt

CONSTANTS Containers,     \* the containers that may run at once
          Packages,       \* the packages, in the order they are installed
          Versions,       \* what an archive may be of
          MaxContainers   \* bound on the containers that are started

ASSUME InstallerAssumption ==
  /\ Packages \in Seq(STRING) /\ \A i, j \in DOMAIN Packages : Packages[i] = Packages[j] => i = j
  /\ Versions # {} /\ MaxContainers \in Nat

VARIABLES piHome,         \* "mount" or "directory"
          names,          \* the version an archive gives itself in its metadata
          order,          \* the files of an archive, in order
          owner,          \* who owns the metadata that is there at first
          mountedBlob,           \* each mountedBlob: "right", mounted read-only and private, or "wrong"
          files,          \* the Pi home: package -> file -> the version it is of
          starting, containersStarted,
          extracted       \* ghost: the archives whose files were written, with who wrote last
homeConsts == <<piHome, names, order, owner, mountedBlob>>
installerVars == <<homeConsts, files, starting, containersStarted, extracted>>

Files == {"metadata", "code"}
Absent == "absent"
NoContainer == [pc |-> "idle"]
Archives == {<<p, v>> : p \in Range(Packages), v \in Versions}

InstallerInit ==
  /\ piHome \in {"mount", "directory"}
  /\ names \in {[a \in Archives |-> a[2]], [a \in Archives |-> CHOOSE v \in Versions : TRUE]}
  /\ order \in [Archives -> {<<"metadata", "code">>, <<"code", "metadata">>}]
  /\ \A a, b \in Archives : order[a] = order[b]
  /\ owner \in {"dev", "root"}
  /\ mountedBlob \in [Range(Packages) -> {"right", "wrong"}]
  /\ Cardinality({p \in Range(Packages) : mountedBlob[p] # "right"}) <= 1
  /\ \E v \in {CHOOSE v \in Versions : TRUE, Absent} :
       /\ files = [p \in Range(Packages) |-> [f \in Files |-> v]]
       /\ v = Absent => owner = "dev"
  /\ starting = [c \in Containers |-> NoContainer] /\ containersStarted = 0
  /\ extracted = [p \in Range(Packages) |-> Absent]

In(c, place) == starting[c].pc = place
Set(c, record) == starting' = [starting EXCEPT ![c] = record]
To(c, place) == Set(c, [starting[c] EXCEPT !.pc = place])
Entry(c) == starting[c].entries[starting[c].at]
\* The version a metadata file names, when there is one to read.
Named(package) ==
  IF files[package]["metadata"] = Absent THEN Absent ELSE names[<<package, files[package]["metadata"]>>]

\* The installer fails, and the entrypoint gives the start up.
AbortStart(c) == To(c, "aborted")

\* The tables of a projection as they are once they are sorted by package.
Entries == [package : Range(Packages), version : Versions]
Before(p, q) == \E i, j \in DOMAIN Packages : i < j /\ Packages[i] = p /\ Packages[j] = q
Projections ==
  {s \in UNION {[1..n -> Entries] : n \in 0..Len(Packages)} :
     \A i, j \in DOMAIN s : i < j => ~ Before(s[j].package, s[i].package)}
\* A possible bug: the last of two tables of a package counts, as in a dictionary.
NeverAmbiguous(entries) == FALSE
Ambiguous(entries) == \E i \in 1..(Len(entries) - 1) : entries[i].package = entries[i + 1].package

\* A package that is there twice is refused; without any there is nothing to install.
ReadProjection(c, entries) ==
  /\ In(c, "idle") /\ containersStarted < MaxContainers
  /\ containersStarted' = containersStarted + 1
  /\ Set(c, [pc |-> IF Ambiguous(entries) THEN "aborted" ELSE IF entries = <<>> THEN "configure" ELSE "checks",
              entries |-> entries, at |-> 1, results |-> <<>>, done |-> 0, alone |-> TRUE])
  /\ UNCHANGED <<homeConsts, files, extracted>>

\* The Pi home is a mount point and the user is dev.
CheckHome(c) ==
  /\ In(c, "checks")
  /\ AbortStart(c) \/ (piHome = "mount" /\ To(c, "metadata"))
  /\ UNCHANGED <<homeConsts, files, containersStarted, extracted>>

\* The result of an entry: the first that fails is the last that is tried.
Conclude(c, status) ==
  LET this == starting[c]
      results == Append(this.results, status)
  IN IF status = "failed" THEN Set(c, [this EXCEPT !.results = results, !.pc = "report"])
     ELSE Set(c, [this EXCEPT !.results = results, !.at = @ + 1, !.done = 0,
                    !.pc = IF this.at = Len(this.entries) THEN "report" ELSE "metadata"])

\* A possible bug: a package of any version will do.
MatchesAnyVersion(entry) == Named(entry.package) # Absent
Matches(entry) == Named(entry.package) = entry.version

\* The package is there already, is another one, or cannot be read.
ReadInstalled(c) ==
  /\ In(c, "metadata")
  /\ \/ Conclude(c, "failed")
     \/ IF Matches(Entry(c))
        THEN Conclude(c, IF owner = "dev" THEN "already" ELSE "failed")
        ELSE To(c, "mountedBlob")
  /\ UNCHANGED <<homeConsts, files, containersStarted, extracted>>

\* open_verified: the mount is read-only, the file is regular and private, and
\* the bytes that are hashed are the bytes that are returned.
OpenVerified(c) ==
  /\ In(c, "mountedBlob")
  /\ IF mountedBlob[Entry(c).package] = "right" THEN To(c, "extract") \/ Conclude(c, "failed")
     ELSE Conclude(c, "failed")
  /\ UNCHANGED <<homeConsts, files, containersStarted, extracted>>

\* One member of the archive; the files that are there are replaced.
ExtractMember(c) ==
  LET this == starting[c]
      entry == Entry(c)
      member == order[<<entry.package, entry.version>>][this.done + 1]
  IN
  /\ In(c, "extract")
  /\ files' = [files EXCEPT ![entry.package][member] = entry.version]
  /\ extracted' = [extracted EXCEPT ![entry.package] = c]
  /\ starting' = [d \in Containers |->
       IF d = c THEN [this EXCEPT !.done = @ + 1, !.pc = IF this.done + 1 = Cardinality(Files) THEN "verify" ELSE "extract"]
       ELSE IF In(d, "idle") THEN starting[d] ELSE [starting[d] EXCEPT !.alone = FALSE]]
  /\ UNCHANGED <<homeConsts, containersStarted>>

\* An archive that cannot be read, or a file that cannot be written.
ExtractionFails(c) ==
  /\ In(c, "extract") /\ Conclude(c, "failed")
  /\ UNCHANGED <<homeConsts, files, containersStarted, extracted>>

\* A possible bug: what was extracted is taken for what was asked for.
InstalledUnread(entry) == entry.version
InstalledVersion(entry) == Named(entry.package)

VerifyInstalled(c) ==
  /\ In(c, "verify")
  /\ \/ Conclude(c, "failed")
     \/ /\ InstalledVersion(Entry(c)) = Entry(c).version /\ owner = "dev"
        /\ Conclude(c, "installed")
  /\ UNCHANGED <<homeConsts, files, containersStarted, extracted>>

\* A possible bug: the extensions that could be installed are enough.
StartsAnyway(results) == results # <<>>
Starts(results) == \A i \in DOMAIN results : results[i] # "failed"
Report(c) ==
  /\ In(c, "report")
  /\ IF Starts(starting[c].results) THEN To(c, "configure") ELSE AbortStart(c)
  /\ UNCHANGED <<homeConsts, files, containersStarted, extracted>>

\* rtk init and rtk telemetry, then the command of the user.
ConfigureRtk(c) ==
  /\ In(c, "configure")
  /\ AbortStart(c) \/ To(c, "command")
  /\ UNCHANGED <<homeConsts, files, containersStarted, extracted>>

ContainerStops(c) ==
  /\ ~ In(c, "idle") /\ Set(c, NoContainer)
  /\ UNCHANGED <<homeConsts, files, containersStarted, extracted>>

InstallerNext == \E c \in Containers :
  \/ \E entries \in Projections : ReadProjection(c, entries)
  \/ CheckHome(c) \/ ReadInstalled(c) \/ OpenVerified(c) \/ ExtractMember(c) \/ ExtractionFails(c)
  \/ VerifyInstalled(c) \/ Report(c) \/ ConfigureRtk(c) \/ ContainerStops(c)
InstallerSpec == InstallerInit /\ [][InstallerNext]_installerVars

----------------------------------------------------------------------------
\* A command starts only with a result for every extension of its projection
\* and no failure.  If no other container wrote into the Pi home meanwhile, each
\* package names the version that was asked for, belongs to dev, and was either
\* found so or is, file by file, the archive.  Nothing is written unless the
\* home is a mount, nor from a mountedBlob that is not the right one, and after a
\* failure nothing more is.
InstallerSound ==
  /\ \A c \in Containers : In(c, "command") =>
       LET this == starting[c] IN
       /\ Len(this.results) = Len(this.entries) /\ Range(this.results) \subseteq {"already", "installed"}
       /\ this.entries # <<>> => piHome = "mount" /\ owner = "dev"
       /\ this.alone => \A i \in DOMAIN this.entries : LET entry == this.entries[i] IN
            /\ Named(entry.package) = entry.version
            /\ this.results[i] = "installed" =>
                 /\ files[entry.package] = [f \in Files |-> entry.version]
                 /\ extracted[entry.package] = c
  /\ \A p \in Range(Packages) : extracted[p] # Absent => piHome = "mount" /\ mountedBlob[p] = "right"
  /\ \A c \in Containers : starting[c].pc # "idle" =>
       \A i \in DOMAIN starting[c].results :
         starting[c].results[i] = "failed" =>
           i = Len(starting[c].results) /\ starting[c].pc \in {"report", "aborted"}
=============================================================================
