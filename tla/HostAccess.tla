----------------------------- MODULE HostAccess -----------------------------
(***************************************************************************)
(* The doctor (build_orchestration, networking, constructor_cli): it finds *)
(* the address under which containers reach the host, writes it into the   *)
(* local companion, and on request installs the override that makes a      *)
(* rootless Docker forward to the host.  Commands overlap and are killed.  *)
(*                                                                         *)
(* A line of the companion is a table header, an address, a comment or     *)
(* another setting; what a probe of a container answers is free.           *)
(***************************************************************************)
EXTENDS Integers, Sequences, FiniteSets, SequencesExt, FiniteSetsExt

CONSTANTS Doctors,           \* the commands that may run at once
          Texts,             \* what a header or an address may say
          FirstCompanions,   \* what the companion may hold at first
          MaxDoctors         \* bound on the commands that are started

\* The address a container reached the host by.
Gateways == {"slirp", "lan", "host-gateway", "bridge"}
Line == [kind : {"header", "address", "comment", "setting", "blank"}, text : Texts]
ASSUME DoctorAssumption ==
  MaxDoctors \in Nat /\ {"none", "host-access"} \cup Gateways \subseteq Texts /\ FirstCompanions \subseteq Seq(Line)

VARIABLES policy,        \* reviewed: "disabled", "external-address" or "docker-gateway"
          daemon,        \* "rootless" or "rootful"
          symlinked,     \* the companion is a symbolic link
          companion,     \* its lines, or Missing
          override,      \* the override file: "absent", "matching", "different"
          doctor,        \* each running command
          started,
          firstCompanion, chosen   \* ghost: as it was; the address last published
hostVars == <<policy, daemon, symlinked, companion, override, doctor, started, firstCompanion, chosen>>

Missing == <<[kind |-> "missing", text |-> "none"]>>
Header(name) == [kind |-> "header", text |-> name]
Address(a) == [kind |-> "address", text |-> a]
Comment == [kind |-> "comment", text |-> "none"]
Setting == [kind |-> "setting", text |-> "none"]
Blank == [kind |-> "blank", text |-> "none"]
HostTable == Header("host-access")
Gone == [pc |-> "idle"]

\* The table line i of a companion belongs to.
TableOf(lines, i) ==
  LET above == {k \in 1..i : lines[k].kind = "header"}
  IN IF above = {} THEN "none" ELSE lines[Max(above)].text
AddressesOf(lines) == {i \in DOMAIN lines : lines[i].kind = "address" /\ TableOf(lines, i) = "host-access"}

\* What load_project_configuration takes: closed tables, each of them once.
Loadable(lines) ==
  /\ \A i, k \in DOMAIN lines : lines[i].kind = "header" /\ lines[i] = lines[k] => i = k
  /\ \A i \in DOMAIN lines : /\ lines[i].kind = "address" => TableOf(lines, i) = "host-access"
                             /\ lines[i].kind = "setting" => TableOf(lines, i) = "cache"
  /\ Cardinality(AddressesOf(lines)) <= 1

----------------------------------------------------------------------------
(* _persist_host_access_address: the lines that replace those of the companion *)

\* A possible bug: the address is written under the header and again in place.
InsertForgotten(written) == FALSE
Inserted(written) == TRUE

\* One line of the companion: what is written so far, whether the table is the
\* one of the address, and whether the address has been written.
PassLine(state, line, address) ==
  CASE line.kind = "header" ->
         IF line = HostTable /\ ~ state.written
         THEN [out |-> Append(Append(state.out, line), Address(address)), inside |-> TRUE, written |-> Inserted(state.written)]
         ELSE [state EXCEPT !.out = Append(@, line), !.inside = (line = HostTable)]
    [] line.kind = "address" /\ state.inside ->
         [state EXCEPT !.out = IF state.written THEN @ ELSE Append(@, Address(address)), !.written = TRUE]
    [] OTHER -> [state EXCEPT !.out = Append(@, line)]

Pass(lines, address) ==
  LET pass[n \in 0..Len(lines)] ==
        IF n = 0 THEN [out |-> <<>>, inside |-> FALSE, written |-> FALSE]
        ELSE PassLine(pass[n - 1], lines[n], address)
  IN pass
Rewrite(lines, address) ==
  LET done == Pass(lines, address)[Len(lines)]
  IN IF done.written THEN done.out
     ELSE Append(Append(Append(done.out, Blank), HostTable), Address(address))

----------------------------------------------------------------------------
HostInit ==
  /\ policy \in {"disabled", "external-address", "docker-gateway"}
  /\ daemon \in {"rootless", "rootful"}
  /\ symlinked \in BOOLEAN
  /\ companion \in {Missing} \cup {lines \in FirstCompanions : Loadable(lines)}
  /\ (companion = Missing => ~ symlinked)
  /\ override \in {"absent", "matching", "different"}
  /\ doctor = [d \in Doctors |-> Gone] /\ started = 0
  /\ firstCompanion = companion /\ chosen = "none"

DoctorAt(d, place) == doctor[d].pc = place
DoctorBecomes(d, record) == doctor' = [doctor EXCEPT ![d] = record]
Goes(d, place) == DoctorBecomes(d, [doctor[d] EXCEPT !.pc = place])
host == <<policy, daemon, symlinked, firstCompanion>>

\* The command returns, with what it says of the gateway.
Ends(d, exit) == DoctorBecomes(d, [doctor[d] EXCEPT !.pc = "ended", !.exit = exit])

\* The parser and the prompt: whoever denies the repair ends the command.
StartDoctor(d, repair, approved) ==
  /\ DoctorAt(d, "idle") /\ started < MaxDoctors
  /\ started' = started + 1
  /\ DoctorBecomes(d, [pc |-> IF repair /\ ~ approved THEN "ended" ELSE "resolve", repair |-> repair,
                 denied |-> repair /\ ~ approved, round |-> "initial", gateway |-> "none", snapshot |-> <<>>,
                 plan |-> "none", saved |-> "none", applied |-> FALSE, exit |-> "success"])
  /\ UNCHANGED <<host, companion, override, chosen>>

\* _resolve_doctor_host_access: without the policy there is nothing to diagnose,
\* and a configuration that cannot be read is an error of its own.
ResolvePolicy(d) ==
  /\ DoctorAt(d, "resolve")
  /\ \/ Ends(d, "config")
     \/ policy # "docker-gateway" /\ Ends(d, "success")
     \/ policy = "docker-gateway" /\ Goes(d, "diagnose")
  /\ UNCHANGED <<host, companion, override, started, chosen>>

\* candidate_gateways, with or without a LAN address.
GatewayCandidates ==
  IF daemon = "rootless" THEN {<<"slirp", "lan", "host-gateway">>, <<"slirp", "host-gateway">>}
  ELSE {<<"host-gateway", "lan">>, <<"host-gateway">>}
\* resolved_address: the address the container saw, or the candidate itself.
Resolved(candidate) == IF candidate = "host-gateway" THEN {"bridge", candidate} ELSE {candidate}

\* Which candidates a container reaches the host by, and says so in full.
Answers == SUBSET {"slirp", "lan", "host-gateway"}
\* diagnose_gateway: every candidate is probed, the first that answers is chosen.
Diagnose(d) ==
  /\ DoctorAt(d, "diagnose")
  /\ \E order \in GatewayCandidates, answering \in Answers :
       \/ /\ Range(order) \cap answering = {}
          /\ DoctorBecomes(d, [doctor[d] EXCEPT !.pc = "choose", !.gateway = "none"])
       \/ \E i \in DOMAIN order :
            /\ order[i] \in answering /\ \A k \in 1..(i - 1) : order[k] \notin answering
            /\ \E a \in Resolved(order[i]) : DoctorBecomes(d, [doctor[d] EXCEPT !.pc = "read", !.gateway = a])
  /\ UNCHANGED <<host, companion, override, started, chosen>>

\* Docker does not answer, or the probe server does not start.
DiagnosisFails(d) ==
  /\ DoctorAt(d, "diagnose")
  /\ Ends(d, "operational")
  /\ UNCHANGED <<host, companion, override, started, chosen>>

ReadCompanion(d) ==
  /\ DoctorAt(d, "read")
  /\ IF symlinked THEN Ends(d, "operational")
     ELSE DoctorBecomes(d, [doctor[d] EXCEPT !.pc = "publish",
                        !.snapshot = IF companion = Missing THEN <<>> ELSE companion])
  /\ UNCHANGED <<host, companion, override, started, chosen>>

\* Written beside the companion and renamed over it, or neither.
PublishCompanion(d) ==
  /\ DoctorAt(d, "publish")
  /\ companion' = Rewrite(doctor[d].snapshot, doctor[d].gateway)
  /\ chosen' = doctor[d].gateway
  /\ DoctorBecomes(d, [doctor[d] EXCEPT !.pc = "choose", !.saved = doctor[d].gateway, !.snapshot = <<>>])
  /\ UNCHANGED <<host, override, started>>

CompanionFails(d) ==
  /\ DoctorAt(d, "publish")
  /\ Ends(d, "operational")
  /\ UNCHANGED <<host, companion, override, started, chosen>>

\* A possible bug: what the second diagnosis found does not matter.
RepairedAnyway(gateway) == "success"
Repaired(gateway) == IF gateway = "none" THEN "operational" ELSE "success"

\* plan_rootless_override reads the file; a rootful daemon needs none.
OverridePlan == IF daemon = "rootful" THEN "matching" ELSE override

Choose(d) ==
  LET this == doctor[d] IN
  /\ DoctorAt(d, "choose")
  /\ CASE this.round = "repaired" -> Ends(d, Repaired(this.gateway))
       [] this.round = "initial" /\ this.gateway = "none" /\ (~ this.repair \/ daemon = "rootful") ->
            Ends(d, "operational")
       [] this.round = "initial" /\ this.gateway # "none" /\ ~ this.repair -> Ends(d, "success")
       [] this.round = "initial" /\ this.gateway # "none" /\ this.repair /\ daemon = "rootful" -> Ends(d, "policy")
       [] OTHER ->
            IF OverridePlan = "matching" THEN Ends(d, Repaired(this.gateway))
            ELSE DoctorBecomes(d, [this EXCEPT !.pc = "copy", !.plan = OverridePlan])
  /\ UNCHANGED <<host, companion, override, started, chosen>>

\* apply_rootless_override: the file, then the two calls of the service manager.
CopyOverride(d) ==
  /\ DoctorAt(d, "copy")
  /\ override' = "matching" /\ Goes(d, "reload")
  /\ UNCHANGED <<host, companion, started, chosen>>

ServiceCall(d) ==
  /\ \/ DoctorAt(d, "reload") /\ Goes(d, "restart")
     \/ DoctorAt(d, "restart")
        /\ DoctorBecomes(d, [doctor[d] EXCEPT !.pc = "diagnose", !.round = "repaired", !.applied = TRUE])
  /\ UNCHANGED <<host, companion, override, started, chosen>>

\* The template is missing, or a directory, a copy or a call fails.  A copy that
\* fails may leave the file torn.
ApplicationFails(d) ==
  /\ \E place \in {"copy", "reload", "restart"} : DoctorAt(d, place)
  /\ override' \in (IF DoctorAt(d, "copy") THEN {override, "different"} ELSE {override})
  /\ Ends(d, "operational")
  /\ UNCHANGED <<host, companion, started, chosen>>

DoctorReturns(d) ==
  /\ DoctorAt(d, "ended") /\ DoctorBecomes(d, Gone)
  /\ UNCHANGED <<host, companion, override, started, chosen>>

\* Killed anywhere: a copy may be torn, a temporary name may stay behind.
DoctorKilled(d) ==
  /\ doctor[d].pc \notin {"idle", "ended"}
  /\ override' \in (IF DoctorAt(d, "copy") THEN {override, "different"} ELSE {override})
  /\ DoctorBecomes(d, Gone)
  /\ UNCHANGED <<host, companion, started, chosen>>

DoctorStep(d) ==
  \/ \E repair, approved \in BOOLEAN : StartDoctor(d, repair, approved)
  \/ ResolvePolicy(d) \/ Diagnose(d) \/ DiagnosisFails(d) \/ ReadCompanion(d) \/ PublishCompanion(d)
  \/ CompanionFails(d) \/ Choose(d) \/ CopyOverride(d) \/ ServiceCall(d) \/ ApplicationFails(d)
  \/ DoctorReturns(d) \/ DoctorKilled(d)

HostNext == \E d \in Doctors : DoctorStep(d)
HostSpec == HostInit /\ [][HostNext]_hostVars

----------------------------------------------------------------------------
\* The lines of a companion but its address and the table it needs.
Kept(line) == line.kind \notin {"address", "blank"} /\ line # HostTable
RestTo(lines) ==
  LET rest[n \in 0..Len(lines)] ==
        IF n = 0 THEN <<>> ELSE IF Kept(lines[n]) THEN Append(rest[n - 1], lines[n]) ELSE rest[n - 1]
  IN rest
Rest(lines) == RestTo(lines)[Len(lines)]

\* Whatever commands overlap, fail or are killed: the companion stays one the
\* constructor loads, with all that it held, and its address is the one last
\* found to work.  A command that says success has published the gateway it
\* names, and it names one unless the policy or the user asked for none.
CompanionSound ==
  /\ companion # Missing =>
       LET first == IF firstCompanion = Missing THEN <<>> ELSE firstCompanion IN
       /\ Loadable(companion) /\ Rest(companion) = Rest(first)
       /\ chosen # "none" => {companion[i].text : i \in AddressesOf(companion)} = {chosen}
       /\ chosen = "none" => companion = first
  /\ \A d \in Doctors : LET this == doctor[d] IN
       this.pc = "ended" /\ policy = "docker-gateway" =>
         /\ this.exit = "success" => this.denied \/ (this.gateway # "none" /\ this.saved = this.gateway)
         /\ this.exit = "policy" => daemon = "rootful" /\ ~ this.applied
         /\ this.applied => this.repair /\ daemon = "rootless"
         /\ this.exit = "config" => this.gateway = "none"
=============================================================================
