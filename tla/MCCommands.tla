----------------------------- MODULE MCCommands -----------------------------
(* Instances of the commands a user runs side by side: two builds over one   *)
(* store, two doctors over one companion, two launches that take names, two  *)
(* containers that install into one Pi home, an assembly that removes its    *)
(* container, and a check for updates with the versions it compares.  They   *)
(* share no variable: "part" is the one whose actions are taken, the others  *)
(* stay as they began.                                                       *)
EXTENDS MCBuildStore, UserCommands, Updates

FirstLines == {<<>>, <<Header("cache"), Setting, HostTable, Address("old")>>,
               <<HostTable, Address("old"), Header("cache"), Comment, Setting>>}
Others == {{}, {[name |-> "pi-01", number |-> 1]}, {[name |-> "pi-2", number |-> 2]}}
Spelt == {[text |-> "", path |-> ""], [text |-> "w", path |-> "/w"], [text |-> "v/../w", path |-> "/w"],
          [text |-> "home", path |-> PiHome]}
TwoPackages == <<"p", "q">>

\* -0 is the first prerelease there is, the other one comes after it.
SamplePrereleases == {<<<<0, 0>>>>, <<<<1, 1>>, <<0, 1>>>>}

VARIABLE part
versionVars == <<rangeVars, updatesVars>>
commandVars == <<part, vars, hostVars, launchVars, installerVars, removalVars,
                 versionVars>>
OnlyIn(name, values, first) == part # name => values = first

CommandsInit ==
  /\ part \in {"build", "doctor", "launch", "container", "assembly", "ranges", "updates"}
  /\ Init
  /\ HostInit /\ OnlyIn("doctor", <<policy, daemon, symlinked, companion, override>>,
                        <<"disabled", "rootful", FALSE, Missing, "absent">>)
  /\ LaunchInit /\ OnlyIn("launch", <<containers, cached>>, <<{}, FALSE>>)
  /\ InstallerInit /\ RemovalInit
  /\ OnlyIn("container", <<piHome, owner, mountedBlob, files["p"], names[<<"p", "v2">>], order[<<"p", "v1">>]>>,
       <<"mount", "dev", [p \in {"p", "q"} |-> "right"], [f \in Files |-> Absent], "v2", <<"metadata", "code">>>>)
  \* At most one thing is unusual about what a container finds, or a doctor.
  /\ Cardinality({what \in {"home", "owner", "installed", "blob", "name", "order"} :
       CASE what = "home" -> piHome # "mount" [] what = "owner" -> owner # "dev"
         [] what = "installed" -> owner = "dev" /\ files["p"]["metadata"] # Absent
         [] what = "blob" -> "wrong" \in Range(mountedBlob) [] what = "name" -> names[<<"p", "v2">>] # "v2"
         [] OTHER -> order[<<"p", "v1">>] # <<"metadata", "code">>}) <= 1
  /\ Cardinality({what \in {"daemon", "link", "override"} :
       CASE what = "daemon" -> daemon # "rootful" [] what = "link" -> symlinked [] OTHER -> override = "different"}) <= 1
  /\ IF part = "ranges" THEN RangeInit ELSE query = [kind |-> "none"]
  \* What is allowed of Python and of the extension is tried together.
  /\ UpdatesInit /\ allowed["python"] = allowed["ext"]
  /\ OnlyIn("updates", <<entries["fd"], entries["rust"], allowed["ext"]>>, <<Leaf(1, {Amd64}), Leaf(1, {Manifest}), Releases>>)

CommandsNext ==
  \/ part = "build" /\ NextPowered
     /\ UNCHANGED <<part, hostVars, launchVars, installerVars, removalVars, versionVars>>
  \/ part = "doctor" /\ HostNext
     /\ UNCHANGED <<part, vars, launchVars, installerVars, removalVars, versionVars>>
  \/ part = "launch" /\ LaunchNext
     /\ UNCHANGED <<part, vars, hostVars, installerVars, removalVars, versionVars>>
  \/ part = "container" /\ InstallerNext
     /\ UNCHANGED <<part, vars, hostVars, launchVars, removalVars, versionVars>>
  \/ part = "assembly" /\ RemovalNext
     /\ UNCHANGED <<part, vars, hostVars, launchVars, installerVars, versionVars>>
  \/ part = "updates" /\ UpdatesNext
     /\ UNCHANGED <<part, vars, hostVars, launchVars, installerVars, removalVars, rangeVars>>

CommandsSpec == CommandsInit /\ [][CommandsNext]_commandVars
=============================================================================
