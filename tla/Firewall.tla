------------------------------ MODULE Firewall ------------------------------
(***************************************************************************)
(* The firewall script of the `common` role, which systemd runs at boot    *)
(* and Ansible restarts when a role changes the ports it opens.  iptables  *)
(* and ip6tables get the same rules one command at a time; this is one of  *)
(* the two tables.  A command may fail by chance, on this table or the     *)
(* other: the clean-up at the start ignores that, the rest of the script   *)
(* ends (set -e).                                                          *)
(***************************************************************************)
EXTENDS Naturals, SequencesExt

CONSTANTS
  Roles,       \* roles that open a port in /etc/firewall
  MaxFaults    \* how many commands fail by chance

VARIABLES
  configured,  \* roles with a script in /etc/firewall
  chains,      \* the chains of the table, INPUT aside
  rules,       \* its rules: a chain, and what it jumps to or does
  todo,        \* the commands the script has yet to run
  service,     \* state of firewall.service
  loaded,      \* the roles of the last run that ended well
  faults,
  unlucky      \* history: a command failed by chance in the run in progress

vars == <<configured, chains, rules, todo, service, loaded, faults, unlucky>>

Chains == <<"tcp_bad", "public", "input">>   \* "public": public_input_*

\* What the constants have to be, for a script to come to an end.
RolesAssumption  == IsFiniteSet(Roles)
BoundsAssumption == MaxFaults \in Nat

Jump   == <<"INPUT", "input">>
Ssh    == <<"public", "ssh">>
Drop   == <<"input", "drop">>
Basic  == <<<<"tcp_bad", "reject">>, <<"public", "tcp_bad">>, Ssh, <<"input", "public">>, Drop>>

Rules(roles) == ToSet(Basic) \cup {Jump} \cup {<<"public", r>> : r \in roles}

-----------------------------------------------------------------------------
(* The commands.                                                           *)

OnChains(op)     == [i \in 1..Len(Chains) |-> <<op, Chains[i]>>]
Appends(added)   == [i \in 1..Len(added) |-> <<"append", added[i]>>]
RoleScript(role) == <<"public", role>>

\* Mutant: the jump from INPUT stays while the chains are flushed.
BugNoUnjump == OnChains("flush") \o <<<<"unjump", Jump>>>> \o OnChains("delete")

\* Mutant: each chain is deleted as soon as it is flushed.
BugDeletesTooEarly ==
  <<<<"unjump", Jump>>>> \o
    FlattenSeq([i \in 1..Len(Chains) |-> <<<<"flush", Chains[i]>>, <<"delete", Chains[i]>>>>])

CleanUp == <<<<"unjump", Jump>>>> \o OnChains("flush") \o OnChains("delete")

Enable(roles) ==
  CleanUp \o OnChains("create") \o Appends(Basic)
    \o Appends(SetToSeq({RoleScript(r) : r \in roles})) \o Appends(<<Jump>>)

op  == Head(todo)[1]
arg == Head(todo)[2]

Exists(c) == c \in chains \cup {"INPUT", "reject", "ssh", "drop"} \cup Roles

\* Whether iptables can do what the script asks for next.
Possible ==
  CASE op = "unjump" -> arg \in rules
    [] op = "flush"  -> arg \in chains
    [] op = "delete" -> arg \in chains /\ \A r \in rules : arg \notin {r[1], r[2]}
    [] op = "create" -> arg \notin chains
    [] op = "append" -> Exists(arg[1]) /\ Exists(arg[2])

\* The next command, and after the last one of ExecStop the start.
Goto(rest) ==
  /\ todo' = IF rest = <<>> /\ service = "stopping" THEN Enable(configured) ELSE rest
  /\ service' = IF rest # <<>> THEN service ELSE IF service = "stopping" THEN "starting" ELSE "active"
  /\ loaded' = IF rest = <<>> /\ service = "starting" THEN configured ELSE loaded
  /\ UNCHANGED configured

Command ==
  /\ todo # <<>> /\ Possible
  /\ chains' = CASE op = "delete" -> chains \ {arg} [] op = "create" -> chains \cup {arg} [] OTHER -> chains
  /\ rules'  = CASE op = "unjump" -> rules \ {arg}
                 [] op = "flush"  -> {r \in rules : r[1] # arg}
                 [] op = "append" -> rules \cup {arg}
                 [] OTHER         -> rules
  /\ Goto(Tail(todo))
  /\ UNCHANGED <<faults, unlucky>>

ByChance == faults < MaxFaults /\ faults' = faults + 1 /\ unlucky' = TRUE
Fails    == todo # <<>> /\ ((~Possible /\ UNCHANGED <<faults, unlucky>>) \/ ByChance)

\* Mutant: a chain that is still there is not an error.
BugIgnored == {"unjump", "flush", "delete", "create"}

\* 2>/dev/null || true
Ignored == {"unjump", "flush", "delete"}

IgnoreFailure ==
  /\ Fails /\ op \in Ignored
  /\ Goto(Tail(todo))
  /\ UNCHANGED <<chains, rules>>

\* Any other failure, be it on the other table, ends the script.
EndAtFailure ==
  /\ Fails /\ op \notin Ignored
  /\ todo' = <<>>
  /\ service' = "failed"
  /\ UNCHANGED <<configured, chains, rules, loaded>>

\* `ip6tables -L` fails by chance: the whole command leaves this table alone.
SkipTable ==
  /\ ByChance
  /\ \/ service = "stopping" /\ todo = CleanUp
        /\ service' = "starting" /\ todo' = Enable(configured)
     \/ service = "starting" /\ todo = Enable(configured)
        /\ service' = "skipped" /\ todo' = <<>>
  /\ UNCHANGED <<configured, chains, rules, loaded>>

\* systemctl restart: ExecStop first, but only for a service that is active.
Restart ==
  /\ todo = <<>> /\ unlucky' = FALSE
  /\ IF service \in {"active", "skipped"}
     THEN service' = "stopping" /\ todo' = CleanUp
     ELSE service' = "starting" /\ todo' = Enable(configured)
  /\ UNCHANGED <<configured, chains, rules, loaded, faults>>

\* Ansible uploads or removes the script of a role, and restarts the service later.
Configure ==
  /\ todo = <<>>
  /\ \E r \in Roles :
       configured' = IF r \in configured THEN configured \ {r} ELSE configured \cup {r}
  /\ UNCHANGED <<chains, rules, todo, service, loaded, faults, unlucky>>

\* The kernel forgets the rules.
Reboot ==
  /\ chains' = {} /\ rules' = {} /\ todo' = <<>>
  /\ service' = "inactive"
  /\ unlucky' = FALSE
  /\ UNCHANGED <<configured, loaded, faults>>

\* A new machine.
Init ==
  /\ configured = {} /\ chains = {} /\ rules = {}
  /\ todo = <<>> /\ service = "inactive" /\ loaded = {}
  /\ faults = 0 /\ unlucky = FALSE

Next ==
  \/ Command \/ IgnoreFailure \/ EndAtFailure \/ SkipTable
  \/ Restart \/ Configure \/ Reboot

Spec == Init /\ [][Next]_vars

-----------------------------------------------------------------------------
(* Properties.                                                             *)

TypeOK ==
  /\ configured \subseteq Roles /\ loaded \subseteq Roles
  /\ chains \subseteq ToSet(Chains)
  /\ rules \subseteq Rules(Roles)
  /\ todo \in Seq({"unjump", "flush", "delete", "create", "append"} \X (Rules(Roles) \cup ToSet(Chains)))
  /\ service \in {"inactive", "stopping", "starting", "active", "skipped", "failed"}
  /\ faults \in 0..MaxFaults
  /\ unlucky \in BOOLEAN

\* "Firewall successfully enabled": the table then has exactly the rules of the
\* roles, and none of a role that is gone, although failures of the clean-up are
\* ignored: creating the chains fails unless they were really deleted.
EnabledIsExact == service = "active" => rules = Rules(loaded)

\* A run in which no command fails by chance never ends halfway, whatever an
\* earlier run has left behind.
CleanRunSucceeds == todo # <<>> /\ ~unlucky /\ op \notin Ignored => Possible

LockedOut == Jump \in rules /\ Drop \in rules /\ Ssh \notin rules

\* SSH is dropped for good only after two commands of the clean-up failed by
\* chance, and not even for a moment as long as none did.
SshStaysOpen == LockedOut => faults >= 1 /\ (todo = <<>> => faults >= 2)

=============================================================================
