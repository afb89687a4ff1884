---------------------------- MODULE UserCommands ----------------------------
(***************************************************************************)
(* The commands a user runs beside builds: the doctor (HostAccess), the    *)
(* launches (Launch), the containers that install into one Pi home         *)
(* (RuntimeInstaller) and the assembly that removes its container          *)
(* (ContainerRemoval).  They share no state with one another.              *)
(***************************************************************************)
EXTENDS HostAccess, Launch, RuntimeInstaller, ContainerRemoval

\* Each command leaves what it shares with others sound: the companion a
\* doctor repairs, the names and projections launches take, the Pi home
\* containers install into, and the container and the staging of an assembly
\* (build_orchestration.py, launcher.py, runtime_installer.py,
\* npm_environment/execution.py).
CommandsSound == CompanionSound /\ LaunchSound /\ InstallerSound /\ RemovalSound
=============================================================================
