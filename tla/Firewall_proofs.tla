---------------------------- MODULE Firewall_proofs ----------------------------
(***************************************************************************)
(* The safety properties of the firewall script, for any set of roles and  *)
(* any number of commands that fail by chance.                             *)
(***************************************************************************)
EXTENDS ScheduledJobs, FiniteSetTheorems, SequenceTheorems, TLAPS

-----------------------------------------------------------------------------
(* The script, command by command.                                         *)

Ch       == Fire!Chains
Chained  == {Ch[i] : i \in 1..3}
Commands == {"unjump", "flush", "delete", "create", "append"} \X (Fire!Rules(Roles) \cup Chained)

LEMMA ChainsAre ==
  /\ Ch = <<"tcp_bad", "public", "input">> /\ Ch \in Seq(Chained) /\ Len(Ch) = 3
  /\ Ch[1] = "tcp_bad" /\ Ch[2] = "public" /\ Ch[3] = "input"
  /\ \A i, j \in 1..3 : Ch[i] = Ch[j] => i = j
  /\ Fire!ToSet(Fire!Chains) = Chained
PROOF
<1>1. Ch = <<"tcp_bad", "public", "input">>
  BY DEF Ch, Fire!Chains
<1>2. Ch[1] = "tcp_bad" /\ Ch[2] = "public" /\ Ch[3] = "input" /\ Len(Ch) = 3 /\ DOMAIN Ch = 1..3
  BY <1>1
<1>3. Ch \in Seq(Chained)
  BY <1>1, <1>2 DEF Chained
<1>4. \A i, j \in 1..3 : Ch[i] = Ch[j] => i = j
  BY <1>2
<1>5. Fire!ToSet(Fire!Chains) = Chained
  BY <1>2 DEF Fire!ToSet, Chained, Ch
<1> QED BY <1>1, <1>2, <1>3, <1>4, <1>5

LEMMA RulesAre ==
  ASSUME NEW roles
  PROVE  Fire!Rules(roles) = {Fire!Basic[i] : i \in 1..5} \cup {Fire!Jump} \cup {<<"public", r>> : r \in roles}
PROOF
<1>1. DOMAIN Fire!Basic = 1..5
  BY DEF Fire!Basic
<1> QED BY <1>1 DEF Fire!Rules, Fire!ToSet

\* Where the commands of two parts of the script are in the whole.
LEMMA Joined ==
  ASSUME NEW S, NEW s \in Seq(S), NEW t \in Seq(S)
  PROVE  /\ s \o t \in Seq(S) /\ Len(s \o t) = Len(s) + Len(t)
         /\ \A i \in 1..Len(s) : (s \o t)[i] = s[i]
         /\ \A i \in 1..Len(t) : (s \o t)[i + Len(s)] = t[i]
PROOF
<1>1. Len(s) \in Nat /\ Len(t) \in Nat
  OBVIOUS
<1>2. /\ s \o t \in Seq(S) /\ Len(s \o t) = Len(s) + Len(t)
      /\ \A i \in 1..(Len(s) + Len(t)) : (s \o t)[i] = IF i <= Len(s) THEN s[i] ELSE t[i - Len(s)]
  BY ConcatProperties
<1>3. \A i \in 1..Len(s) : i \in 1..(Len(s) + Len(t)) /\ i <= Len(s)
  BY <1>1
<1>4. \A i \in 1..Len(t) : /\ i + Len(s) \in 1..(Len(s) + Len(t))
                           /\ ~(i + Len(s) <= Len(s)) /\ (i + Len(s)) - Len(s) = i
  BY <1>1
<1> QED BY <1>2, <1>3, <1>4

\* The same command for all chains.
LEMMA OnChainsIs ==
  ASSUME NEW c \in {"flush", "delete", "create"}
  PROVE  /\ Fire!OnChains(c) \in Seq(Commands) /\ Len(Fire!OnChains(c)) = 3
         /\ \A i \in 1..3 : Fire!OnChains(c)[i] = <<c, Ch[i]>>
PROOF
<1>1. Fire!OnChains(c) = [i \in 1..3 |-> <<c, Ch[i]>>]
  BY ChainsAre DEF Fire!OnChains, Ch
<1>2. \A i \in 1..3 : <<c, Ch[i]>> \in Commands
  BY DEF Commands, Chained
<1> QED BY <1>1, <1>2

LEMMA AppendsIs ==
  ASSUME NEW s \in Seq(Fire!Rules(Roles))
  PROVE  /\ Fire!Appends(s) \in Seq(Commands) /\ Len(Fire!Appends(s)) = Len(s)
         /\ \A i \in 1..Len(s) : Fire!Appends(s)[i] = <<"append", s[i]>>
PROOF
<1>1. Fire!Appends(s) = [i \in 1..Len(s) |-> <<"append", s[i]>>]
  BY DEF Fire!Appends
<1>2. \A i \in 1..Len(s) : <<"append", s[i]>> \in Commands
  BY DEF Commands
<1> QED BY <1>1, <1>2

\* The clean-up: the jump, and each chain is flushed before any is deleted.
LEMMA CleanUpIs ==
  /\ Fire!CleanUp \in Seq(Commands) /\ Len(Fire!CleanUp) = 7
  /\ Fire!CleanUp[1] = <<"unjump", Fire!Jump>>
  /\ \A i \in 1..3 : Fire!CleanUp[i + 1] = <<"flush", Ch[i]>> /\ Fire!CleanUp[i + 4] = <<"delete", Ch[i]>>
PROOF
<1> DEFINE a == <<<<"unjump", Fire!Jump>>>>
           b == Fire!OnChains("flush")
           d == Fire!OnChains("delete")
<1>1. a \in Seq(Commands) /\ Len(a) = 1 /\ a[1] = <<"unjump", Fire!Jump>>
  BY RulesAre DEF Commands
<1>2. b \in Seq(Commands) /\ Len(b) = 3 /\ \A i \in 1..3 : b[i] = <<"flush", Ch[i]>>
  BY OnChainsIs
<1>3. d \in Seq(Commands) /\ Len(d) = 3 /\ \A i \in 1..3 : d[i] = <<"delete", Ch[i]>>
  BY OnChainsIs
<1>5. Fire!CleanUp = (a \o b) \o d
  BY DEF Fire!CleanUp
<1> HIDE DEF a, b, d
<1>0. a \in Seq(Commands) /\ b \in Seq(Commands) /\ d \in Seq(Commands)
  BY <1>1, <1>2, <1>3
<1>6. /\ a \o b \in Seq(Commands) /\ Len(a \o b) = Len(a) + Len(b)
      /\ \A i \in 1..Len(a) : (a \o b)[i] = a[i]
      /\ \A i \in 1..Len(b) : (a \o b)[i + Len(a)] = b[i]
  BY <1>0, Joined
<1>7. /\ Fire!CleanUp \in Seq(Commands) /\ Len(Fire!CleanUp) = Len(a \o b) + Len(d)
      /\ \A i \in 1..Len(a \o b) : Fire!CleanUp[i] = (a \o b)[i]
      /\ \A i \in 1..Len(d) : Fire!CleanUp[i + Len(a \o b)] = d[i]
  <2>1. a \o b \in Seq(Commands)
    BY <1>6
  <2> QED BY <1>0, <1>5, <2>1, Joined
<1>8. Len(a \o b) = 4 /\ Len(Fire!CleanUp) = 7
  BY <1>1, <1>2, <1>3, <1>6, <1>7
<1>9. Fire!CleanUp[1] = <<"unjump", Fire!Jump>>
  BY <1>1, <1>6, <1>7, <1>8
<1>10. ASSUME NEW i \in 1..3
       PROVE  Fire!CleanUp[i + 1] = <<"flush", Ch[i]>> /\ Fire!CleanUp[i + 4] = <<"delete", Ch[i]>>
  <2>1. i + 1 \in 1..Len(a \o b) /\ i \in 1..Len(b) /\ i \in 1..Len(d)
    BY <1>2, <1>3, <1>8
  <2>2. (a \o b)[i + 1] = b[i] /\ Fire!CleanUp[i + 1] = (a \o b)[i + 1]
    BY <1>1, <1>6, <1>7, <2>1
  <2>3. Fire!CleanUp[i + 4] = d[i]
    BY <1>7, <1>8, <2>1
  <2> QED BY <1>2, <1>3, <2>2, <2>3
<1> QED BY <1>7, <1>8, <1>9, <1>10

\* Every role has its rule in the order chosen, and no rule is of another role.
LEMMA RoleRulesAre ==
  ASSUME NEW roles, roles \subseteq Roles
  PROVE  LET s == Fire!SetToSeq({Fire!RoleScript(r) : r \in roles})
         IN  /\ s \in Seq(Fire!Rules(Roles))
             /\ \A i \in 1..Len(s) : \E r \in roles : s[i] = <<"public", r>>
             /\ \A r \in roles : \E i \in 1..Len(s) : s[i] = <<"public", r>>
PROOF
<1> DEFINE S == {<<"public", r>> : r \in roles}
           f == [r \in roles |-> <<"public", r>>]
<1>1. IsFiniteSet(roles)
  <2>1. Fire!IsFiniteSet(Roles)
    BY FireAssumption DEF Fire!RolesAssumption
  <2>2. IsFiniteSet(Roles)
    BY <2>1, Zenon DEF Fire!IsFiniteSet, IsFiniteSet
  <2> QED BY <2>2, FS_Subset
<1>2. f \in Surjection(roles, S)
  BY DEF Surjection
<1>3. IsFiniteSet(S)
  BY <1>1, <1>2, FS_Surjection
<1> DEFINE n == Cardinality(S)
<1>4. n \in Nat /\ ExistsBijection(1..n, S)
  BY <1>3, FS_CardinalityType
<1>5. Fire!Cardinality(S) = n
  BY Zenon DEF Fire!Cardinality, Cardinality
<1> DEFINE s == Fire!SetToSeq(S)
<1>6. s \in Injection(1..n, S)
  <2>1. s = CHOOSE g \in [1..n -> S] : Fire!IsInjective(g)
    BY <1>5 DEF Fire!SetToSeq
  <2>2. \E g \in [1..n -> S] : Fire!IsInjective(g)
    BY <1>4 DEF ExistsBijection, Bijection, Injection, IsInjective, Fire!IsInjective
  <2>3. s \in [1..n -> S] /\ Fire!IsInjective(s)
    BY <2>1, <2>2
  <2> QED BY <2>3 DEF Injection, IsInjective, Fire!IsInjective
<1>7. s \in Surjection(1..n, S)
  <2>1. IsFiniteSet(1..n) /\ Cardinality(1..n) = n
    BY <1>4, FS_Interval
  <2> QED BY <1>3, <1>6, <2>1, FS_Injection
<1>8. {Fire!RoleScript(r) : r \in roles} = S
  BY DEF Fire!RoleScript
<1> HIDE DEF n, s
<1>9. s \in [1..n -> S] /\ \A t \in S : \E i \in 1..n : s[i] = t
  BY <1>7 DEF Surjection
<1>10. s \in Seq(S) /\ Len(s) = n
  BY <1>4, <1>9
<1>11. s \in Seq(Fire!Rules(Roles))
  BY <1>10, RulesAre, SeqMonotonic
<1> QED BY <1>8, <1>9, <1>10, <1>11 DEF s

\* The start: the clean-up, the chains, and the rules, the jump last.
LEMMA EnableIs ==
  ASSUME NEW roles, roles \subseteq Roles
  PROVE  LET p == Fire!Enable(roles)
         IN  /\ p \in Seq(Commands) /\ Len(p) >= 16
             /\ \A i \in 1..7 : p[i] = Fire!CleanUp[i]
             /\ \A i \in 1..3 : p[i + 7] = <<"create", Ch[i]>>
             /\ \A i \in 1..5 : p[i + 10] = <<"append", Fire!Basic[i]>>
             /\ \A i \in 16..(Len(p) - 1) : \E r \in roles : p[i] = <<"append", <<"public", r>>>>
             /\ \A r \in roles : \E i \in 16..(Len(p) - 1) : p[i] = <<"append", <<"public", r>>>>
             /\ p[Len(p)] = <<"append", Fire!Jump>>
PROOF
<1> DEFINE a == Fire!CleanUp
           b == Fire!OnChains("create")
           c == Fire!Appends(Fire!Basic)
           s == Fire!SetToSeq({Fire!RoleScript(r) : r \in roles})
           d == Fire!Appends(s)
           e == Fire!Appends(<<Fire!Jump>>)
           p == Fire!Enable(roles)
<1>1. a \in Seq(Commands) /\ Len(a) = 7
  BY CleanUpIs
<1>2. b \in Seq(Commands) /\ Len(b) = 3 /\ \A i \in 1..3 : b[i] = <<"create", Ch[i]>>
  BY OnChainsIs
<1>3. c \in Seq(Commands) /\ Len(c) = 5 /\ \A i \in 1..5 : c[i] = <<"append", Fire!Basic[i]>>
  <2>1. Len(Fire!Basic) = 5 /\ Fire!Basic \in Seq(Fire!Rules(Roles))
    BY RulesAre DEF Fire!Basic
  <2> QED BY <2>1, AppendsIs
<1>4. /\ s \in Seq(Fire!Rules(Roles))
      /\ \A i \in 1..Len(s) : \E r \in roles : s[i] = <<"public", r>>
      /\ \A r \in roles : \E i \in 1..Len(s) : s[i] = <<"public", r>>
  BY RoleRulesAre
<1> HIDE DEF s
<1>n. Len(s) \in Nat
  BY <1>4
<1>5. d \in Seq(Commands) /\ Len(d) = Len(s) /\ \A i \in 1..Len(s) : d[i] = <<"append", s[i]>>
  BY <1>4, AppendsIs
<1>6. e \in Seq(Commands) /\ Len(e) = 1 /\ e[1] = <<"append", Fire!Jump>>
  <2>1. <<Fire!Jump>> \in Seq(Fire!Rules(Roles)) /\ Len(<<Fire!Jump>>) = 1 /\ <<Fire!Jump>>[1] = Fire!Jump
    BY RulesAre
  <2> DEFINE j == <<Fire!Jump>>
  <2> HIDE DEF j
  <2>2. /\ Fire!Appends(j) \in Seq(Commands) /\ Len(Fire!Appends(j)) = Len(j)
        /\ \A i \in 1..Len(j) : Fire!Appends(j)[i] = <<"append", j[i]>>
    BY <2>1, AppendsIs DEF j
  <2>3. Len(j) = 1 /\ j[1] = Fire!Jump /\ e = Fire!Appends(j)
    BY <2>1 DEF j
  <2> HIDE DEF e
  <2>4. 1 \in 1..Len(j)
    BY <2>3
  <2>5. Fire!Appends(j)[1] = <<"append", j[1]>>
    BY <2>2, <2>4
  <2>6. Len(Fire!Appends(j)) = 1 /\ Fire!Appends(j) \in Seq(Commands)
    BY <2>2, <2>3
  <2> QED BY <2>3, <2>5, <2>6
<1>7. p = (((a \o b) \o c) \o d) \o e
  BY DEF Fire!Enable, s
<1> HIDE DEF a, b, c, s, d, e, p
<1>0. /\ a \in Seq(Commands) /\ b \in Seq(Commands) /\ c \in Seq(Commands)
      /\ d \in Seq(Commands) /\ e \in Seq(Commands)
  BY <1>1, <1>2, <1>3, <1>5, <1>6
<1>8. /\ a \o b \in Seq(Commands) /\ Len(a \o b) = Len(a) + Len(b)
      /\ \A i \in 1..Len(a) : (a \o b)[i] = a[i]
      /\ \A i \in 1..Len(b) : (a \o b)[i + Len(a)] = b[i]
  BY <1>0, Joined
<1>9. Len(a \o b) = 10
  BY <1>1, <1>2, <1>8
<1> DEFINE abc == (a \o b) \o c
<1>10. /\ abc \in Seq(Commands) /\ Len(abc) = Len(a \o b) + Len(c)
       /\ \A i \in 1..Len(a \o b) : abc[i] = (a \o b)[i]
       /\ \A i \in 1..Len(c) : abc[i + Len(a \o b)] = c[i]
  <2>1. a \o b \in Seq(Commands)
    BY <1>8
  <2> QED BY <1>0, <2>1, Joined DEF abc
<1>11. Len(abc) = 15
  BY <1>3, <1>9, <1>10
<1> HIDE DEF abc
<1>12. /\ abc \o d \in Seq(Commands) /\ Len(abc \o d) = Len(abc) + Len(d)
       /\ \A i \in 1..Len(abc) : (abc \o d)[i] = abc[i]
       /\ \A i \in 1..Len(d) : (abc \o d)[i + Len(abc)] = d[i]
  <2>1. abc \in Seq(Commands)
    BY <1>10
  <2> QED BY <1>0, <2>1, Joined
<1>13. Len(abc \o d) = 15 + Len(s)
  BY <1>5, <1>11, <1>12
<1>14. p = (abc \o d) \o e
  BY <1>7 DEF abc
<1>15. /\ p \in Seq(Commands) /\ Len(p) = Len(abc \o d) + Len(e)
       /\ \A i \in 1..Len(abc \o d) : p[i] = (abc \o d)[i]
       /\ \A i \in 1..Len(e) : p[i + Len(abc \o d)] = e[i]
  <2>1. abc \o d \in Seq(Commands)
    BY <1>12
  <2> QED BY <1>0, <1>14, <2>1, Joined
<1>16. Len(p) = 16 + Len(s) /\ Len(p) >= 16
  BY <1>n, <1>6, <1>13, <1>15
<1>17. ASSUME NEW i \in 1..15
       PROVE  p[i] = abc[i]
  <2>1. i \in 1..Len(abc) /\ i \in 1..Len(abc \o d)
    BY <1>n, <1>11, <1>13
  <2> QED BY <1>12, <1>15, <2>1
<1>18. ASSUME NEW i \in 1..10
       PROVE  p[i] = (a \o b)[i]
  <2>1. i \in 1..Len(a \o b) /\ i \in 1..15
    BY <1>9
  <2> QED BY <1>10, <1>17, <2>1
<1>19. \A i \in 1..7 : p[i] = a[i]
  BY <1>1, <1>8, <1>18
<1>20. ASSUME NEW i \in 1..3
       PROVE  p[i + 7] = <<"create", Ch[i]>>
  <2>1. i \in 1..Len(b) /\ i + 7 \in 1..10
    BY <1>2
  <2>2. (a \o b)[i + 7] = b[i] /\ p[i + 7] = (a \o b)[i + 7]
    BY <1>1, <1>8, <1>18, <2>1
  <2> QED BY <1>2, <2>2
<1>21. ASSUME NEW i \in 1..5
       PROVE  p[i + 10] = <<"append", Fire!Basic[i]>>
  <2>1. i \in 1..Len(c) /\ i + 10 \in 1..15
    BY <1>3
  <2>2. abc[i + 10] = c[i] /\ p[i + 10] = abc[i + 10]
    BY <1>9, <1>10, <1>17, <2>1
  <2> QED BY <1>3, <2>2
<1>22. \A i \in 1..Len(s) : p[i + 15] = <<"append", s[i]>>
  <2> SUFFICES ASSUME NEW i \in 1..Len(s)
               PROVE  p[i + 15] = <<"append", s[i]>>
    OBVIOUS
  <2>1. (abc \o d)[i + 15] = d[i]
    BY <1>5, <1>11, <1>12
  <2>2. i + 15 \in 1..Len(abc \o d)
    BY <1>n, <1>13
  <2> QED BY <1>5, <1>15, <2>1, <2>2
<1>23. ASSUME NEW i \in 16..(Len(p) - 1)
       PROVE  \E r \in roles : p[i] = <<"append", <<"public", r>>>>
  <2>1. i - 15 \in 1..Len(s) /\ (i - 15) + 15 = i
    BY <1>n, <1>16
  <2> QED BY <1>4, <1>22, <2>1
<1>24. ASSUME NEW r \in roles
       PROVE  \E i \in 16..(Len(p) - 1) : p[i] = <<"append", <<"public", r>>>>
  <2>1. PICK i \in 1..Len(s) : s[i] = <<"public", r>>
    BY <1>4
  <2>2. i + 15 \in 16..(Len(p) - 1)
    BY <1>n, <1>16
  <2> QED BY <1>22, <2>1, <2>2
<1>25. p[Len(p)] = <<"append", Fire!Jump>>
  <2>1. 1 \in 1..Len(e) /\ 1 + Len(abc \o d) = Len(p)
    BY <1>n, <1>6, <1>13, <1>16
  <2> QED BY <1>6, <1>15, <2>1
<1> QED BY <1>15, <1>16, <1>19, <1>20, <1>21, <1>23, <1>24, <1>25 DEF a, p

-----------------------------------------------------------------------------
(* The invariant.                                                          *)

\* A step of the firewall script, or of another job.
LEMMA FireSteps == [Next]_vars => Fire!Next \/ UNCHANGED firewall
PROOF
  BY DEF Next, Only, LoginJob, AmiJob, SslJob, PlayJob, FireJob, AgentJob, PlanJob, CleanJob,
         DockerJob, EcsJob, vars, firewall

\* The commands of the run in progress, and how many of them are over.
Program == IF service = "stopping" THEN Fire!CleanUp ELSE Fire!Enable(configured)
Done    == Len(Program) - Len(todo)

FireTypes ==
  /\ configured \subseteq Roles /\ loaded \subseteq Roles
  /\ chains \subseteq Chained /\ rules \subseteq Fire!Rules(Roles)
  /\ faults \in Nat /\ unlucky \in BOOLEAN
  /\ unlucky = TRUE => faults >= 1

\* What is to do is the rest of the program.
Follows ==
  /\ todo \in Seq(Commands)
  /\ todo = <<>> => service \notin {"stopping", "starting"}
  /\ todo # <<>> => /\ service \in {"stopping", "starting"}
                    /\ Len(todo) <= Len(Program)
                    /\ \A i \in 1..Len(todo) : todo[i] = Program[i + Done]

\* A chain with a rule, or with a rule that leads to it, is there.
NoDangling == \A r \in rules : \A i \in 1..3 : Ch[i] \in {r[1], r[2]} => Ch[i] \in chains

\* Without bad luck, the clean-up does what it says, command by command.
Cleaned(n) ==
  unlucky = FALSE /\ n \in 1..10 =>
    /\ Fire!Jump \notin rules
    /\ \A i \in 1..3 : i < n => \A r \in rules : r[1] # Ch[i]
    /\ \A i \in 1..3 : i + 4 <= n /\ n < i + 7 => Ch[i] \notin chains

\* With any luck, a chain the start has created is new, and once all are, the rules
\* are those the start has added.
Made(n) ==
  /\ n <= 10 => \A i \in 1..3 : i + 7 <= n =>
                   /\ Ch[i] \in chains
                   /\ \A r \in rules : r[1] # Ch[i] /\ r[2] # Ch[i]
  /\ n >= 10 => /\ chains = Chained
                /\ \A r : r \in rules <=> \E i \in 11..n : r = Fire!Enable(configured)[i][2]

\* SSH is dropped after one failure while the chains are flushed, after two else.
SshOK(n) == Fire!LockedOut => faults >= 1 /\ (faults >= 2 \/ n \in 1..3)

\* The table after n commands of a run.
Table(n) == NoDangling /\ SshOK(n) /\ Cleaned(n) /\ (service = "starting" => Made(n))

FireInv ==
  /\ FireTypes /\ Follows /\ Fire!EnabledIsExact
  /\ NoDangling
  /\ todo = <<>> => SshOK(0)
  /\ todo # <<>> => Table(Done)

LEMMA FireInit == Fire!Init => FireInv
PROOF
<1> SUFFICES ASSUME Fire!Init
             PROVE  FireInv
  OBVIOUS
<1>1. todo = <<>> /\ todo \in Seq(Commands) /\ rules = {} /\ service = "inactive"
  BY DEF Fire!Init
<1>2. FireTypes
  BY DEF Fire!Init, FireTypes
<1> QED BY <1>1, <1>2 DEF FireInv, Follows, Fire!EnabledIsExact, NoDangling, SshOK, Fire!LockedOut

\* The command at each place of a run.
LEMMA AtCommand ==
  ASSUME FireTypes, Follows, todo # <<>>, NEW n, n = Done
  PROVE  /\ n \in Nat /\ n < Len(Program) /\ Fire!op = Program[n + 1][1] /\ Fire!arg = Program[n + 1][2]
         /\ service = "stopping" => n <= 6
         /\ n = 0 => Fire!op = "unjump" /\ Fire!arg = Fire!Jump
         /\ n \in 1..3 => Fire!op = "flush" /\ Fire!arg = Ch[n]
         /\ n \in 4..6 => Fire!op = "delete" /\ Fire!arg = Ch[n - 3]
         /\ n \in 7..9 => Fire!op = "create" /\ Fire!arg = Ch[n - 6]
         /\ n >= 10 => Fire!op = "append" /\ Fire!arg \in Fire!Rules(Roles)
         /\ n > 6 => service = "starting" /\ Program = Fire!Enable(configured)
PROOF
<1> DEFINE p == Fire!Enable(configured)
<1>1. /\ p \in Seq(Commands) /\ Len(p) >= 16
      /\ \A i \in 1..7 : p[i] = Fire!CleanUp[i]
      /\ \A i \in 1..3 : p[i + 7] = <<"create", Ch[i]>>
      /\ \A i \in 1..5 : p[i + 10] = <<"append", Fire!Basic[i]>>
      /\ \A i \in 16..(Len(p) - 1) : \E r \in configured : p[i] = <<"append", <<"public", r>>>>
      /\ p[Len(p)] = <<"append", Fire!Jump>>
  BY EnableIs DEF FireTypes
<1> HIDE DEF p
<1>2. Len(Fire!CleanUp) = 7 /\ Fire!CleanUp \in Seq(Commands)
  BY CleanUpIs
<1>3. Program = IF service = "stopping" THEN Fire!CleanUp ELSE p
  BY DEF Program, p
<1>a. Len(p) \in Nat /\ (service = "stopping" => Len(Program) = 7) /\ (service # "stopping" => Len(Program) = Len(p))
  BY <1>1, <1>2, <1>3
<1>4. Len(Program) \in Nat /\ Len(Program) <= Len(p) /\ (service = "stopping" => Len(Program) = 7) /\ Len(p) \in Nat
  <2>1. Len(p) >= 16
    BY <1>1
  <2>2. CASE service = "stopping"
    <3>1. Len(Program) = 7
      BY <1>a, <2>2
    <3> QED BY <1>a, <2>1, <3>1
  <2>3. CASE service # "stopping"
    <3>1. Len(Program) = Len(p)
      BY <1>a, <2>3
    <3> QED BY <1>a, <2>1, <2>3, <3>1
  <2> QED BY <2>2, <2>3
<1>5. Len(todo) \in Nat \ {0}
  <2>1. todo \in Seq(Commands)
    BY DEF Follows
  <2> QED BY <2>1, EmptySeq
<1>6. n \in Nat /\ n < Len(Program) /\ (service = "stopping" => n <= 6)
  <2>1. Len(todo) <= Len(Program)
    BY DEF Follows
  <2>2. n = Len(Program) - Len(todo)
    BY DEF Done
  <2> DEFINE k == Len(Program)
             l == Len(todo)
  <2>3. k \in Nat /\ l \in Nat \ {0} /\ l <= k /\ n = k - l /\ (service = "stopping" => k = 7)
    BY <1>4, <1>5, <2>1, <2>2
  <2> HIDE DEF k, l
  <2>4. n \in Nat /\ n < k /\ (service = "stopping" => n <= 6)
    BY <2>3
  <2> QED BY <2>4 DEF k
<1>7. Head(todo) = Program[n + 1]
  <2>1. 1 \in 1..Len(todo) /\ Head(todo) = todo[1]
    BY <1>5 DEF Follows
  <2>2. todo[1] = Program[1 + n]
    BY <2>1 DEF Follows
  <2> QED BY <1>6, <2>1, <2>2
<1>8. Fire!op = Program[n + 1][1] /\ Fire!arg = Program[n + 1][2]
  BY <1>7 DEF Fire!op, Fire!arg
<1>9. n <= 6 => Program[n + 1] = Fire!CleanUp[n + 1]
  <2>1. n <= 6 => n + 1 \in 1..7
    BY <1>6
  <2>2. \A i \in 1..7 : p[i] = Fire!CleanUp[i]
    BY <1>1
  <2> QED BY <1>3, <2>1, <2>2
<1>10. n > 6 => Program = p
  BY <1>3, <1>6
<1>11. n = 0 => Fire!op = "unjump" /\ Fire!arg = Fire!Jump
  BY <1>8, <1>9, CleanUpIs
<1>12. n \in 1..3 => Fire!op = "flush" /\ Fire!arg = Ch[n]
  BY <1>8, <1>9, CleanUpIs
<1>13. n \in 4..6 => Fire!op = "delete" /\ Fire!arg = Ch[n - 3]
  <2> SUFFICES ASSUME n \in 4..6
               PROVE  Fire!op = "delete" /\ Fire!arg = Ch[n - 3]
    OBVIOUS
  <2>1. n - 3 \in 1..3 /\ (n - 3) + 4 = n + 1
    OBVIOUS
  <2>2. Fire!CleanUp[(n - 3) + 4] = <<"delete", Ch[n - 3]>>
    BY <2>1, CleanUpIs
  <2> QED BY <1>8, <1>9, <2>1, <2>2
<1>14. n \in 7..9 => Fire!op = "create" /\ Fire!arg = Ch[n - 6]
  <2> SUFFICES ASSUME n \in 7..9
               PROVE  Fire!op = "create" /\ Fire!arg = Ch[n - 6]
    OBVIOUS
  <2>1. n - 6 \in 1..3 /\ (n - 6) + 7 = n + 1
    OBVIOUS
  <2>2. p[(n - 6) + 7] = <<"create", Ch[n - 6]>>
    BY <1>1, <2>1
  <2> QED BY <1>8, <1>10, <2>1, <2>2
<1>15. n >= 10 => Fire!op = "append" /\ Fire!arg \in Fire!Rules(Roles)
  <2> SUFFICES ASSUME n >= 10
               PROVE  Fire!op = "append" /\ Fire!arg \in Fire!Rules(Roles)
    OBVIOUS
  <2>1. Fire!op = p[n + 1][1] /\ Fire!arg = p[n + 1][2] /\ n < Len(p) /\ Program = p
    BY <1>6, <1>8, <1>10
  <2>2. CASE n \in 10..14
    <3>1. n - 9 \in 1..5 /\ (n - 9) + 10 = n + 1
      BY <2>2
    <3>2. p[(n - 9) + 10] = <<"append", Fire!Basic[n - 9]>>
      BY <1>1, <3>1
    <3>3. Fire!Basic[n - 9] \in Fire!Rules(Roles)
      BY <3>1, RulesAre
    <3> QED BY <2>1, <3>1, <3>2, <3>3
  <2>3. CASE n \in 15..(Len(p) - 2)
    <3>1. n + 1 \in 16..(Len(p) - 1)
      BY <1>4, <2>3
    <3>2. PICK r \in configured : p[n + 1] = <<"append", <<"public", r>>>>
      BY <1>1, <3>1
    <3>3. <<"public", r>> \in Fire!Rules(Roles)
      BY RulesAre DEF FireTypes
    <3> QED BY <2>1, <3>2, <3>3
  <2>4. CASE n + 1 = Len(p)
    BY <1>1, <2>1, <2>4, RulesAre
  <2>5. n \in 10..14 \/ n \in 15..(Len(p) - 2) \/ n + 1 = Len(p)
    BY <1>4, <1>6, <2>1
  <2> QED BY <2>2, <2>3, <2>4, <2>5
<1>16. n > 6 => service = "starting" /\ Program = Fire!Enable(configured)
  BY <1>6, <1>10 DEF p, Follows
<1> QED BY <1>6, <1>8, <1>11, <1>12, <1>13, <1>14, <1>15, <1>16

\* Where the rules are, and where they lead to.
LEMMA RuleEnds ==
  ASSUME NEW r \in Fire!Rules(Roles)
  PROVE  /\ r = Fire!Jump \/ \E i \in 1..3 : r[1] = Ch[i]
         /\ r = <<r[1], r[2]>>
         /\ r[1] \in Chained \cup {"INPUT"}
         /\ r[2] \in Chained \cup {"reject", "ssh", "drop"} \cup Roles
PROOF
<1>1. Ch[1] = "tcp_bad" /\ Ch[2] = "public" /\ Ch[3] = "input"
  BY ChainsAre
<1>2. Chained = {"tcp_bad", "public", "input"}
  BY <1>1 DEF Chained
<1>3. \/ r = <<"tcp_bad", "reject">> \/ r = <<"public", "tcp_bad">> \/ r = <<"public", "ssh">>
      \/ r = <<"input", "public">> \/ r = <<"input", "drop">> \/ r = Fire!Jump
      \/ \E x \in Roles : r = <<"public", x>>
  BY RulesAre DEF Fire!Basic, Fire!Ssh, Fire!Drop
<1>4. CASE r = Fire!Jump
  BY <1>2, <1>4 DEF Fire!Jump
<1>5. CASE \E x \in Roles : r = <<"public", x>>
  BY <1>1, <1>2, <1>5
<1> QED BY <1>1, <1>2, <1>3, <1>4, <1>5

LEMMA JumpIs == Fire!Jump[1] = "INPUT" /\ Fire!Jump[2] = Ch[3] /\ \A i \in 1..3 : Ch[i] # "INPUT"
PROOF
  BY ChainsAre DEF Fire!Jump

\* A command is carried out, or fails and is ignored.
Moves == Fire!Command \/ Fire!IgnoreFailure

LEMMA HowItMoves ==
  ASSUME FireTypes, Moves
  PROVE  /\ todo # <<>> /\ Fire!Goto(Tail(todo))
         /\ configured' \subseteq Roles /\ loaded' \subseteq Roles /\ configured' = configured
         /\ faults' \in Nat /\ faults' >= faults /\ unlucky' \in BOOLEAN
         /\ unlucky' = TRUE => faults' >= 1
         /\ \/ Fire!Possible /\ Fire!Command /\ UNCHANGED <<faults, unlucky>>
            \/ /\ Fire!op \in Fire!Ignored /\ UNCHANGED <<chains, rules>>
               /\ \/ ~Fire!Possible /\ UNCHANGED <<faults, unlucky>>
                  \/ unlucky' = TRUE /\ faults' = faults + 1
PROOF
<1>1. CASE Fire!Command
  BY <1>1 DEF Fire!Command, Fire!Goto, FireTypes
<1>2. CASE Fire!IgnoreFailure
  <2>1. todo # <<>> /\ Fire!op \in Fire!Ignored /\ UNCHANGED <<chains, rules>> /\ Fire!Goto(Tail(todo))
    BY <1>2 DEF Fire!IgnoreFailure, Fire!Fails
  <2>2. \/ ~Fire!Possible /\ UNCHANGED <<faults, unlucky>>
        \/ unlucky' = TRUE /\ faults' = faults + 1
    BY <1>2 DEF Fire!IgnoreFailure, Fire!Fails, Fire!ByChance
  <2>3. configured' \subseteq Roles /\ loaded' \subseteq Roles /\ configured' = configured
    BY <2>1 DEF Fire!Goto, FireTypes
  <2>4. /\ faults' \in Nat /\ faults' >= faults /\ unlucky' \in BOOLEAN
        /\ unlucky' = TRUE => faults' >= 1
    <3>1. faults \in Nat /\ unlucky \in BOOLEAN /\ (unlucky = TRUE => faults >= 1)
      BY DEF FireTypes
    <3>2. CASE UNCHANGED <<faults, unlucky>>
      BY <3>1, <3>2
    <3>3. CASE unlucky' = TRUE /\ faults' = faults + 1
      BY <3>1, <3>3
    <3> QED BY <2>2, <3>2, <3>3
  <2> QED BY <2>1, <2>2, <2>3, <2>4
<1> QED BY <1>1, <1>2 DEF Moves

\* What each command, number n + 1 of the run, makes of the table.
LEMMA UnjumpMoves ==
  ASSUME FireInv, Moves, Done = 0
  PROVE  /\ chains' \subseteq Chained /\ rules' \subseteq Fire!Rules(Roles)
         /\ NoDangling' /\ SshOK(1)' /\ Cleaned(1)' /\ Made(1)'
PROOF
<1>1. todo # <<>> /\ FireTypes /\ Follows /\ NoDangling /\ SshOK(0)
  BY HowItMoves DEF FireInv, Table
<1>2. Fire!op = "unjump" /\ Fire!arg = Fire!Jump
  BY <1>1, AtCommand
<1>3. /\ chains' = chains /\ rules' \subseteq rules
      /\ unlucky' = FALSE => Fire!Jump \notin rules'
      /\ Fire!Jump \in rules' => rules' = rules /\ faults' = faults + 1
  <2>1. CASE Fire!Possible /\ Fire!Command
    BY <1>2, <2>1 DEF Fire!Command
  <2>2. CASE UNCHANGED <<chains, rules>> /\ ~Fire!Possible
    BY <1>2, <2>2 DEF Fire!Possible
  <2>3. CASE UNCHANGED <<chains, rules>> /\ unlucky' = TRUE /\ faults' = faults + 1
    BY <2>3
  <2> QED BY <1>1, <2>1, <2>2, <2>3, HowItMoves
<1>4. NoDangling'
  BY <1>1, <1>3 DEF NoDangling
<1>5. SshOK(1)'
  BY <1>1, <1>3 DEF SshOK, Fire!LockedOut, FireTypes
<1>6. Cleaned(1)' /\ Made(1)'
  BY <1>3 DEF Cleaned, Made
<1> QED BY <1>1, <1>3, <1>4, <1>5, <1>6 DEF FireTypes

LEMMA FlushMoves ==
  ASSUME FireInv, Moves, NEW n \in 1..3, n = Done
  PROVE  /\ chains' \subseteq Chained /\ rules' \subseteq Fire!Rules(Roles)
         /\ NoDangling' /\ SshOK(n + 1)' /\ Cleaned(n + 1)' /\ Made(n + 1)'
PROOF
<1>1. todo # <<>> /\ FireTypes /\ Follows /\ NoDangling /\ SshOK(n) /\ Cleaned(n)
  BY HowItMoves DEF FireInv, Table
<1>2. Fire!op = "flush" /\ Fire!arg = Ch[n]
  BY <1>1, AtCommand
<1>3. /\ chains' = chains /\ rules' \subseteq rules /\ faults' >= faults
      /\ \/ unlucky' = unlucky /\ \A r \in rules' : r[1] # Ch[n]
         \/ unlucky' = TRUE /\ faults' = faults + 1 /\ rules' = rules
  <2>1. CASE Fire!Possible /\ Fire!Command /\ UNCHANGED <<faults, unlucky>>
    BY <1>1, <1>2, <2>1 DEF Fire!Command, FireTypes
  <2>2. CASE UNCHANGED <<chains, rules, faults, unlucky>> /\ ~Fire!Possible
    <3>1. Ch[n] \notin chains
      BY <1>2, <2>2 DEF Fire!Possible
    <3> QED BY <1>1, <2>2, <3>1 DEF NoDangling, FireTypes
  <2>3. CASE UNCHANGED <<chains, rules>> /\ unlucky' = TRUE /\ faults' = faults + 1
    BY <1>1, <2>3 DEF FireTypes
  <2> QED BY <1>1, <2>1, <2>2, <2>3, HowItMoves
<1>4. NoDangling'
  BY <1>1, <1>3 DEF NoDangling
<1>5. SshOK(n + 1)'
  <2> SUFFICES ASSUME Fire!LockedOut'
               PROVE  faults' >= 1 /\ (faults' >= 2 \/ n + 1 \in 1..3)
    BY DEF SshOK
  <2>1. Fire!Jump \in rules' /\ Fire!Drop \in rules' /\ Fire!Jump \in rules
    BY <1>3 DEF Fire!LockedOut
  <2>2. unlucky = TRUE /\ faults \in Nat /\ faults >= 1
    BY <1>1, <2>1 DEF Cleaned, FireTypes
  <2>3. CASE n = 3
    <3>1. Fire!Drop[1] = Ch[n]
      BY <2>3, ChainsAre DEF Fire!Drop
    <3>2. faults' = faults + 1
      BY <1>3, <2>1, <3>1
    <3> QED BY <2>2, <3>2
  <2>4. CASE n # 3
    <3>1. n + 1 \in 1..3 /\ faults' >= 1
      BY <1>1, <1>3, <2>2, <2>4, HowItMoves
    <3> QED BY <3>1
  <2> QED BY <2>3, <2>4
<1>6. Cleaned(n + 1)'
  <2> SUFFICES ASSUME unlucky' = FALSE
               PROVE  /\ Fire!Jump \notin rules'
                      /\ \A i \in 1..3 : i < n + 1 => \A r \in rules' : r[1] # Ch[i]
    <3>1. \A i \in 1..3 : ~(i + 4 <= n + 1)
      OBVIOUS
    <3> QED BY <3>1 DEF Cleaned
  <2>1. unlucky = FALSE /\ \A r \in rules' : r[1] # Ch[n]
    BY <1>3
  <2>2. Fire!Jump \notin rules /\ \A i \in 1..3 : i < n => \A r \in rules : r[1] # Ch[i]
    BY <1>1, <2>1 DEF Cleaned
  <2>3. \A i \in 1..3 : i < n + 1 => i < n \/ i = n
    OBVIOUS
  <2> QED BY <1>3, <2>1, <2>2, <2>3
<1>7. Made(n + 1)'
  BY DEF Made
<1> QED BY <1>1, <1>3, <1>4, <1>5, <1>6, <1>7 DEF FireTypes

LEMMA DeleteMoves ==
  ASSUME FireInv, Moves, NEW n \in 4..6, n = Done
  PROVE  /\ chains' \subseteq Chained /\ rules' \subseteq Fire!Rules(Roles)
         /\ NoDangling' /\ SshOK(n + 1)' /\ Cleaned(n + 1)' /\ Made(n + 1)'
PROOF
<1>1. todo # <<>> /\ FireTypes /\ Follows /\ NoDangling /\ SshOK(n) /\ Cleaned(n)
  BY HowItMoves DEF FireInv, Table
<1> DEFINE k == n - 3
<1>k. k \in 1..3 /\ n = k + 3
  OBVIOUS
<1> HIDE DEF k
<1>2. Fire!op = "delete" /\ Fire!arg = Ch[k]
  BY <1>1, AtCommand DEF k
<1>3. /\ rules' = rules /\ chains' \subseteq chains /\ faults' >= faults
      /\ \A c \in chains : c \in chains' \/ (c = Ch[k] /\ \A r \in rules : Ch[k] \notin {r[1], r[2]})
      /\ unlucky' = FALSE => /\ unlucky = FALSE
                             /\ Ch[k] \notin chains' \/ \E r \in rules : Ch[k] \in {r[1], r[2]}
  <2>1. CASE Fire!Possible /\ Fire!Command /\ UNCHANGED <<faults, unlucky>>
    BY <1>1, <1>2, <2>1 DEF Fire!Command, Fire!Possible, FireTypes
  <2>2. CASE UNCHANGED <<chains, rules, faults, unlucky>> /\ ~Fire!Possible
    BY <1>1, <1>2, <2>2 DEF Fire!Possible, FireTypes
  <2>3. CASE UNCHANGED <<chains, rules>> /\ unlucky' = TRUE /\ faults' = faults + 1
    BY <1>1, <2>3 DEF FireTypes
  <2> QED BY <1>1, <2>1, <2>2, <2>3, HowItMoves
<1>4. NoDangling'
  <2> SUFFICES ASSUME NEW r \in rules, NEW i \in 1..3, Ch[i] \in {r[1], r[2]}
               PROVE  Ch[i] \in chains'
    BY <1>3 DEF NoDangling
  <2> QED BY <1>1, <1>3 DEF NoDangling
<1>5. SshOK(n + 1)'
  <2>1. Fire!LockedOut' = Fire!LockedOut
    BY <1>3 DEF Fire!LockedOut
  <2>2. Fire!LockedOut => faults >= 2
    BY <1>1 DEF SshOK
  <2>3. faults \in Nat /\ faults' \in Nat
    BY <1>1, HowItMoves DEF FireTypes
  <2> QED BY <1>3, <2>1, <2>2, <2>3 DEF SshOK
<1>6. Cleaned(n + 1)'
  <2> SUFFICES ASSUME unlucky' = FALSE
               PROVE  /\ Fire!Jump \notin rules'
                      /\ \A i \in 1..3 : \A r \in rules' : r[1] # Ch[i]
                      /\ \A i \in 1..3 : i + 4 <= n + 1 => Ch[i] \notin chains'
    BY DEF Cleaned
  <2>1. unlucky = FALSE
    BY <1>3
  <2>2. n \in 1..10 /\ \A i \in 1..3 : i < n
    OBVIOUS
  <2>3. /\ Fire!Jump \notin rules
        /\ \A i \in 1..3 : \A r \in rules : r[1] # Ch[i]
    BY <1>1, <2>1, <2>2 DEF Cleaned
  <2>4. \A i \in 1..3 : i + 4 <= n /\ n < i + 7 => Ch[i] \notin chains
    BY <1>1, <2>1, <2>2 DEF Cleaned
  <2>5. rules = {}
    BY <1>1, <2>3, RuleEnds DEF FireTypes
  <2>6. Ch[k] \notin chains'
    BY <1>3, <2>5
  <2>7. \A i \in 1..3 : i + 4 <= n + 1 => (i + 4 <= n /\ n < i + 7) \/ i = k
    BY <1>k
  <2> QED BY <1>3, <2>3, <2>4, <2>6, <2>7
<1>7. Made(n + 1)'
  <2>1. \A i \in 1..3 : ~(i + 7 <= n + 1)
    OBVIOUS
  <2>2. ~(n + 1 >= 10)
    OBVIOUS
  <2> QED BY <2>1, <2>2 DEF Made
<1> QED BY <1>1, <1>3, <1>4, <1>5, <1>6, <1>7 DEF FireTypes

LEMMA CreateMoves ==
  ASSUME FireInv, Moves, NEW n \in 7..9, n = Done
  PROVE  /\ chains' \subseteq Chained /\ rules' \subseteq Fire!Rules(Roles)
         /\ NoDangling' /\ SshOK(n + 1)' /\ Cleaned(n + 1)' /\ Made(n + 1)'
PROOF
<1>1. todo # <<>> /\ FireTypes /\ Follows /\ NoDangling /\ SshOK(n) /\ Cleaned(n) /\ Table(n)
  BY HowItMoves DEF FireInv, Table
<1> DEFINE k == n - 6
<1>k. k \in 1..3 /\ n = k + 6
  OBVIOUS
<1> HIDE DEF k
<1>2. Fire!op = "create" /\ Fire!arg = Ch[k] /\ service = "starting"
  BY <1>1, AtCommand DEF k
<1>3. Made(n)
  BY <1>1, <1>2 DEF Table
<1>4. Fire!op \notin Fire!Ignored
  BY <1>2 DEF Fire!Ignored
<1>5. Fire!Possible /\ Fire!Command /\ UNCHANGED <<faults, unlucky>>
  BY <1>1, <1>4, HowItMoves
<1>6. chains' = chains \cup {Ch[k]} /\ rules' = rules /\ Ch[k] \notin chains
  BY <1>2, <1>5 DEF Fire!Command, Fire!Possible
<1>7. \A r \in rules : r[1] # Ch[k] /\ r[2] # Ch[k]
  BY <1>1, <1>k, <1>6 DEF NoDangling
<1>8. NoDangling'
  BY <1>1, <1>6 DEF NoDangling
<1>9. SshOK(n + 1)'
  <2>1. Fire!LockedOut' = Fire!LockedOut
    BY <1>6 DEF Fire!LockedOut
  <2>2. Fire!LockedOut => faults >= 2
    BY <1>1 DEF SshOK
  <2>3. faults \in Nat /\ faults' = faults
    BY <1>1, <1>5 DEF FireTypes
  <2> QED BY <2>1, <2>2, <2>3 DEF SshOK
<1>10. Cleaned(n + 1)'
  <2> SUFFICES ASSUME unlucky' = FALSE
               PROVE  /\ Fire!Jump \notin rules'
                      /\ \A i \in 1..3 : \A r \in rules' : r[1] # Ch[i]
                      /\ \A i \in 1..3 : n + 1 < i + 7 => Ch[i] \notin chains'
    BY DEF Cleaned
  <2>1. unlucky = FALSE
    BY <1>5
  <2>2. n \in 1..10 /\ \A i \in 1..3 : i < n /\ i + 4 <= n
    OBVIOUS
  <2>3. /\ Fire!Jump \notin rules
        /\ \A i \in 1..3 : \A r \in rules : r[1] # Ch[i]
    BY <1>1, <2>1, <2>2 DEF Cleaned
  <2>4. \A i \in 1..3 : n < i + 7 => Ch[i] \notin chains
    BY <1>1, <2>1, <2>2 DEF Cleaned
  <2>5. \A i \in 1..3 : n + 1 < i + 7 => n < i + 7 /\ i # k
    BY <1>k
  <2> QED BY <1>k, <1>6, <2>3, <2>4, <2>5, ChainsAre
<1>11. \A i \in 1..3 : i + 7 <= n + 1 => /\ Ch[i] \in chains'
                                         /\ \A r \in rules : r[1] # Ch[i] /\ r[2] # Ch[i]
  <2>1. n <= 10 /\ \A i \in 1..3 : i + 7 <= n + 1 => i + 7 <= n \/ i = k
    BY <1>k
  <2> QED BY <1>3, <1>6, <1>7, <2>1 DEF Made
<1>12. ASSUME n + 1 >= 10
       PROVE  chains' = Chained /\ \A r : r \in rules' <=> \E i \in 11..(n + 1) : r = Fire!Enable(configured)'[i][2]
  <2>1. \A i \in 1..3 : i + 7 <= n + 1
    BY <1>12
  <2>2. Chained \subseteq chains'
    BY <1>11, <2>1 DEF Chained
  <2>3. chains' = Chained
    BY <1>1, <1>k, <1>6, <2>2 DEF Chained, FireTypes
  <2>4. rules = {}
    <3>1. \A r \in rules : \A i \in 1..3 : r[1] # Ch[i] /\ r[2] # Ch[i]
      BY <1>11, <2>1
    <3>2. \A r \in rules : r = Fire!Jump
      BY <1>1, <3>1, RuleEnds DEF FireTypes
    <3>3. 3 \in 1..3 /\ Fire!Jump[2] = Ch[3]
      BY JumpIs
    <3> QED BY <3>1, <3>2, <3>3
  <2>5. \A i \in 11..(n + 1) : FALSE
    OBVIOUS
  <2> QED BY <1>6, <2>3, <2>4, <2>5
<1>13. Made(n + 1)'
  BY <1>6, <1>11, <1>12 DEF Made
<1>14. chains' \subseteq Chained
  BY <1>1, <1>k, <1>6 DEF FireTypes, Chained
<1> QED BY <1>1, <1>6, <1>8, <1>9, <1>10, <1>13, <1>14 DEF FireTypes

LEMMA AppendMoves ==
  ASSUME FireInv, Moves, NEW n, n >= 10, n = Done
  PROVE  /\ chains' \subseteq Chained /\ rules' \subseteq Fire!Rules(Roles)
         /\ NoDangling' /\ SshOK(n + 1)' /\ Cleaned(n + 1)' /\ Made(n + 1)'
PROOF
<1>1. todo # <<>> /\ FireTypes /\ Follows /\ NoDangling /\ Table(n)
  BY HowItMoves DEF FireInv
<1> DEFINE p == Fire!Enable(configured)
<1>2. /\ n \in Nat /\ n < Len(Program) /\ n > 6 /\ Fire!op = "append" /\ Fire!arg \in Fire!Rules(Roles)
      /\ service = "starting" /\ Program = p /\ Fire!arg = Program[n + 1][2]
  BY <1>1, AtCommand
<1>3. chains = Chained /\ \A r : r \in rules <=> \E i \in 11..n : r = p[i][2]
  BY <1>1, <1>2 DEF Table, Made
<1>4. Fire!op \notin Fire!Ignored
  BY <1>2 DEF Fire!Ignored
<1>5. Fire!Possible /\ Fire!Command /\ UNCHANGED <<faults, unlucky>>
  BY <1>1, <1>4, HowItMoves
<1>6. chains' = Chained /\ rules' = rules \cup {p[n + 1][2]}
  BY <1>2, <1>3, <1>5 DEF Fire!Command
<1>7. Fire!Enable(configured)' = p
  BY <1>1, HowItMoves
<1> HIDE DEF p
<1>8. \A r : r \in rules' <=> \E i \in 11..(n + 1) : r = p[i][2]
  <2>1. \A i : i \in 11..(n + 1) <=> i \in 11..n \/ i = n + 1
    BY <1>2
  <2> QED BY <1>3, <1>6, <2>1
<1>9. ~(n + 1 <= 10)
  BY <1>2
<1>10. Made(n + 1)'
  BY <1>6, <1>7, <1>8, <1>9 DEF Made
<1>11. Cleaned(n + 1)'
  BY <1>9 DEF Cleaned
<1>12. NoDangling'
  BY <1>6 DEF NoDangling, Chained
<1>13. ~Fire!LockedOut'
  <2>1. \A i \in 1..5 : p[i + 10] = <<"append", Fire!Basic[i]>>
    BY <1>1, EnableIs DEF FireTypes, p
  <2>2. CASE n >= 12
    <3>1. p[13][2] = Fire!Ssh
      <4>1. 3 \in 1..5 /\ 3 + 10 = 13
        OBVIOUS
      <4>2. p[3 + 10] = <<"append", Fire!Basic[3]>>
        BY <2>1, <4>1
      <4> QED BY <4>1, <4>2 DEF Fire!Basic
    <3>2. 13 \in 11..(n + 1)
      BY <1>2, <2>2
    <3> QED BY <1>8, <3>1, <3>2 DEF Fire!LockedOut
  <2>3. CASE n \in 10..11
    <3>1. \A i \in 11..(n + 1) : p[i][2] # Fire!Drop
      <4> SUFFICES ASSUME NEW i \in 11..(n + 1)
                   PROVE  p[i][2] # Fire!Drop
        OBVIOUS
      <4>1. i - 10 \in 1..2 /\ i - 10 \in 1..5 /\ (i - 10) + 10 = i
        BY <2>3
      <4>2. p[i][2] = Fire!Basic[i - 10]
        BY <2>1, <4>1
      <4>3. Fire!Basic[1] # Fire!Drop /\ Fire!Basic[2] # Fire!Drop
        BY DEF Fire!Basic, Fire!Drop
      <4> QED BY <4>1, <4>2, <4>3
    <3> QED BY <1>8, <3>1 DEF Fire!LockedOut
  <2> QED BY <1>2, <2>2, <2>3
<1> QED BY <1>1, <1>2, <1>6, <1>10, <1>11, <1>12, <1>13 DEF SshOK, FireTypes

\* A start that has added all its rules has those of the roles, and no others.
Added(roles) == {Fire!Enable(roles)[i][2] : i \in 11..Len(Fire!Enable(roles))}

LEMMA AllAdded ==
  ASSUME NEW roles, roles \subseteq Roles
  PROVE  Added(roles) = Fire!Rules(roles)
PROOF
<1> DEFINE table == Added(roles)
<1> DEFINE p == Fire!Enable(roles)
<1>1. /\ Len(p) \in Nat /\ Len(p) >= 16
      /\ \A i \in 1..5 : p[i + 10] = <<"append", Fire!Basic[i]>>
      /\ \A i \in 16..(Len(p) - 1) : \E r \in roles : p[i] = <<"append", <<"public", r>>>>
      /\ \A r \in roles : \E i \in 16..(Len(p) - 1) : p[i] = <<"append", <<"public", r>>>>
      /\ p[Len(p)] = <<"append", Fire!Jump>>
  <2>1. p \in Seq(Commands) /\ Len(p) >= 16
    BY EnableIs
  <2>2. Len(p) \in Nat
    BY <2>1
  <2> QED BY <2>1, <2>2, EnableIs
<1>2. \A r : r \in table <=> \E i \in 11..Len(p) : r = p[i][2]
  BY DEF Added
<1> HIDE DEF p
<1>3. ASSUME NEW r \in table
      PROVE  r \in Fire!Rules(roles)
  <2>1. PICK i \in 11..Len(p) : r = p[i][2]
    BY <1>2
  <2>2. CASE i \in 11..15
    <3>1. i - 10 \in 1..5 /\ (i - 10) + 10 = i
      BY <2>2
    <3>2. r = Fire!Basic[i - 10]
      BY <1>1, <2>1, <3>1
    <3> QED BY <3>1, <3>2, RulesAre
  <2>3. CASE i \in 16..(Len(p) - 1)
    BY <1>1, <2>1, <2>3, RulesAre
  <2>4. CASE i = Len(p)
    BY <1>1, <2>1, <2>4, RulesAre
  <2>5. i \in 11..15 \/ i \in 16..(Len(p) - 1) \/ i = Len(p)
    BY <1>1, <2>1
  <2> QED BY <2>2, <2>3, <2>4, <2>5
<1>4. ASSUME NEW r \in Fire!Rules(roles)
      PROVE  r \in table
  <2>1. CASE \E i \in 1..5 : r = Fire!Basic[i]
    <3>1. PICK i \in 1..5 : r = Fire!Basic[i]
      BY <2>1
    <3>2. i + 10 \in 11..Len(p) /\ p[i + 10][2] = r
      BY <1>1, <3>1
    <3> QED BY <1>2, <3>2
  <2>2. CASE r = Fire!Jump
    <3>1. Len(p) \in 11..Len(p) /\ p[Len(p)][2] = r
      BY <1>1, <2>2
    <3> QED BY <1>2, <3>1
  <2>3. CASE \E x \in roles : r = <<"public", x>>
    <3>1. PICK x \in roles : r = <<"public", x>>
      BY <2>3
    <3>2. PICK i \in 16..(Len(p) - 1) : p[i] = <<"append", <<"public", x>>>>
      BY <1>1
    <3>3. i \in 11..Len(p) /\ p[i][2] = r
      BY <1>1, <3>1, <3>2
    <3> QED BY <1>2, <3>3
  <2> QED BY <2>1, <2>2, <2>3, RulesAre
<1> QED BY <1>3, <1>4

\* The table after any command but the last.
LEMMA TableMoves ==
  ASSUME FireInv, Moves, NEW n, n = Done
  PROVE  FireTypes' /\ NoDangling' /\ SshOK(n + 1)' /\ Cleaned(n + 1)' /\ Made(n + 1)'
PROOF
<1>1. todo # <<>> /\ FireTypes /\ Follows
  BY HowItMoves DEF FireInv
<1>2. n = 0 \/ n \in 1..3 \/ n \in 4..6 \/ n \in 7..9 \/ n >= 10
  <2>1. n \in Nat
    BY <1>1, AtCommand
  <2> QED BY <2>1
<1>3. /\ chains' \subseteq Chained /\ rules' \subseteq Fire!Rules(Roles)
      /\ NoDangling' /\ SshOK(n + 1)' /\ Cleaned(n + 1)' /\ Made(n + 1)'
  <2>1. CASE n = 0
    BY <2>1, UnjumpMoves
  <2>2. CASE n \in 1..3
    BY <2>2, FlushMoves
  <2>3. CASE n \in 4..6
    BY <2>3, DeleteMoves
  <2>4. CASE n \in 7..9
    BY <2>4, CreateMoves
  <2>5. CASE n >= 10
    BY <2>5, AppendMoves
  <2> QED BY <1>2, <2>1, <2>2, <2>3, <2>4, <2>5
<1>4. FireTypes'
  BY <1>1, <1>3, HowItMoves DEF FireTypes
<1> QED BY <1>3, <1>4

\* At the beginning of a run everything is to do.
LEMMA Begins ==
  ASSUME configured' \subseteq Roles, service' \in {"stopping", "starting"}, todo' = Program'
  PROVE  Follows' /\ todo' # <<>> /\ Done' = 0
PROOF
<1> DEFINE q == Program'
<1>1. q = IF service' = "stopping" THEN Fire!CleanUp ELSE Fire!Enable(configured')
  BY DEF Program
<1>d. todo' = q /\ Done' = Len(q) - Len(todo') /\ Program' = q
  BY DEF Done
<1> HIDE DEF q
<1>2. q \in Seq(Commands) /\ Len(q) >= 7
  <2>1. Fire!CleanUp \in Seq(Commands) /\ Len(Fire!CleanUp) = 7
    BY CleanUpIs
  <2>2. Fire!Enable(configured') \in Seq(Commands) /\ Len(Fire!Enable(configured')) >= 16
    BY EnableIs
  <2>3. CASE service' = "stopping"
    <3>1. q = Fire!CleanUp
      BY <1>1, <2>3
    <3>2. Len(q) = 7 /\ q \in Seq(Commands)
      BY <2>1, <3>1
    <3> QED BY <3>2
  <2>4. CASE service' # "stopping"
    <3>1. q = Fire!Enable(configured')
      BY <1>1, <2>4
    <3>2. Len(q) \in Nat
      BY <2>2, <3>1
    <3> QED BY <2>2, <3>1, <3>2
  <2> QED BY <2>3, <2>4
<1>3. Len(q) \in Nat /\ q # <<>>
  <2>1. Len(q) \in Nat /\ Len(q) # 0
    BY <1>2
  <2> QED BY <2>1
<1>6. Done' = 0
  BY <1>3, <1>d
<1>7. \A i \in 1..Len(todo') : todo'[i] = Program'[i + Done']
  <2>1. \A i \in 1..Len(q) : i + 0 = i
    BY <1>3
  <2> QED BY <1>d, <1>6, <2>1
<1>8. Len(todo') <= Len(Program')
  BY <1>3, <1>d
<1> QED BY <1>2, <1>3, <1>d, <1>6, <1>7, <1>8 DEF Follows

\* After a command comes the next of the run, the start, or the end.
LEMMA Advances ==
  ASSUME FireTypes, Follows, todo # <<>>, Fire!Goto(Tail(todo)), NEW n, n = Done
  PROVE  /\ Follows'
         /\ \/ todo' # <<>> /\ UNCHANGED <<service, loaded>> /\ Done' = n + 1
            \/ service = "stopping" /\ service' = "starting" /\ loaded' = loaded /\ n = 6
               /\ todo' # <<>> /\ Done' = 0
            \/ /\ service = "starting" /\ service' = "active" /\ loaded' = configured'
               /\ n + 1 = Len(Fire!Enable(configured')) /\ todo' = <<>>
PROOF
<1> DEFINE t == Tail(todo)
<1>1. /\ todo \in Seq(Commands) /\ service \in {"stopping", "starting"} /\ Len(todo) <= Len(Program)
      /\ \A i \in 1..Len(todo) : todo[i] = Program[i + n]
  BY DEF Follows
<1>2. t \in Seq(Commands) /\ Len(t) = Len(todo) - 1 /\ \A i \in 1..Len(t) : t[i] = todo[i + 1]
  BY <1>1, HeadTailProperties
<1>3. Len(todo) \in Nat \ {0}
  BY <1>1, EmptySeq
<1> HIDE DEF t
<1>4. n \in Nat /\ n < Len(Program) /\ (service = "stopping" => n <= 6)
  BY AtCommand
<1>5. Len(Program) = n + Len(todo)
  <2>1. n = Len(Program) - Len(todo)
    BY DEF Done
  <2>2. Len(Program) \in Nat
    <3>1. Program = Fire!CleanUp \/ Program = Fire!Enable(configured)
      BY DEF Program
    <3>2. Fire!CleanUp \in Seq(Commands) /\ Fire!Enable(configured) \in Seq(Commands)
      BY CleanUpIs, EnableIs DEF FireTypes
    <3>3. Program \in Seq(Commands)
      BY <3>1, <3>2
    <3> QED BY <3>3
  <2> QED BY <1>3, <2>1, <2>2
<1>6. configured' = configured
  BY DEF Fire!Goto
<1>7. CASE t # <<>>
  <2>1. todo' = t /\ service' = service /\ loaded' = loaded
    BY <1>7 DEF Fire!Goto, t
  <2>2. Program' = Program
    BY <1>6, <2>1 DEF Program
  <2>3. Done' = n + 1
    <3>1. Done' = Len(Program) - Len(t)
      BY <2>1, <2>2 DEF Done
    <3> QED BY <1>2, <1>3, <1>4, <1>5, <3>1
  <2>4. \A i \in 1..Len(t) : t[i] = Program[i + (n + 1)]
    <3> SUFFICES ASSUME NEW i \in 1..Len(t)
                 PROVE  t[i] = Program[i + (n + 1)]
      OBVIOUS
    <3>1. i + 1 \in 1..Len(todo) /\ (i + 1) + n = i + (n + 1)
      BY <1>2, <1>3, <1>4
    <3>2. todo[i + 1] = Program[(i + 1) + n]
      BY <1>1, <3>1
    <3> QED BY <1>2, <3>1, <3>2
  <2>5. Len(t) <= Len(Program)
    BY <1>2, <1>3, <1>4, <1>5
  <2>6. Follows'
    BY <1>1, <1>2, <1>7, <2>1, <2>2, <2>3, <2>4, <2>5 DEF Follows
  <2> QED BY <1>7, <2>1, <2>3, <2>6
<1>8. CASE t = <<>>
  <2>1. Len(todo) = 1 /\ Len(Program) = n + 1
    <3>1. Len(t) = 0
      BY <1>8
    <3>2. Len(todo) = 1
      BY <1>2, <1>3, <3>1
    <3> QED BY <1>5, <3>2
  <2>2. CASE service = "stopping"
    <3>1. todo' = Fire!Enable(configured) /\ service' = "starting" /\ loaded' = loaded
      BY <1>8, <2>2 DEF Fire!Goto, t
    <3>2. configured' \subseteq Roles /\ todo' = Program'
      BY <1>6, <3>1 DEF Program, FireTypes
    <3>3. Follows' /\ todo' # <<>> /\ Done' = 0
      BY <3>1, <3>2, Begins
    <3>4. n = 6
      <4>1. Program = Fire!CleanUp
        BY <2>2 DEF Program
      <4>2. n + 1 = 7
        BY <2>1, <4>1, CleanUpIs
      <4> QED BY <1>4, <4>2
    <3> QED BY <2>2, <3>1, <3>3, <3>4
  <2>3. CASE service = "starting"
    <3>1. todo' = <<>> /\ service' = "active" /\ loaded' = configured
      BY <1>8, <2>3 DEF Fire!Goto, t
    <3>2. Program = Fire!Enable(configured)
      BY <2>3 DEF Program
    <3>3. n + 1 = Len(Fire!Enable(configured'))
      BY <1>6, <2>1, <3>2
    <3>4. todo' \in Seq(Commands)
      BY <3>1
    <3>5. Follows'
      BY <3>1, <3>4 DEF Follows
    <3> QED BY <1>6, <2>3, <3>1, <3>3, <3>5
  <2> QED BY <1>1, <2>2, <2>3
<1> QED BY <1>7, <1>8

LEMMA MovesKeep ==
  ASSUME FireInv, Moves
  PROVE  FireInv'
PROOF
<1>n. PICK n : n = Done
  OBVIOUS
<1>1. FireTypes /\ Follows /\ todo # <<>> /\ Table(n) /\ Fire!Goto(Tail(todo))
  BY <1>n, HowItMoves DEF FireInv
<1>2. n \in Nat
  BY <1>1, <1>n, AtCommand
<1>3. FireTypes' /\ NoDangling' /\ SshOK(n + 1)' /\ Cleaned(n + 1)' /\ Made(n + 1)'
  BY <1>n, TableMoves
<1>4. /\ Follows'
      /\ \/ todo' # <<>> /\ UNCHANGED <<service, loaded>> /\ Done' = n + 1
         \/ service = "stopping" /\ service' = "starting" /\ loaded' = loaded /\ n = 6
            /\ todo' # <<>> /\ Done' = 0
         \/ /\ service = "starting" /\ service' = "active" /\ loaded' = configured'
            /\ n + 1 = Len(Fire!Enable(configured')) /\ todo' = <<>>
  BY <1>1, <1>n, Advances
<1>5. service \in {"stopping", "starting"}
  BY <1>1 DEF Follows
<1>6. CASE todo' # <<>> /\ UNCHANGED <<service, loaded>> /\ Done' = n + 1
  <2>1. Fire!EnabledIsExact'
    BY <1>5, <1>6 DEF Fire!EnabledIsExact
  <2>2. Table(Done)'
    BY <1>3, <1>6 DEF Table
  <2> QED BY <1>3, <1>4, <1>6, <2>1, <2>2 DEF FireInv
<1>7. CASE service' = "starting" /\ n = 6 /\ todo' # <<>> /\ Done' = 0
  <2>1. Fire!EnabledIsExact'
    BY <1>7 DEF Fire!EnabledIsExact
  <2>2. SshOK(0)'
    BY <1>3, <1>7 DEF SshOK
  <2>3. Cleaned(0)' /\ Made(0)'
    BY DEF Cleaned, Made
  <2>4. Table(Done)'
    BY <1>3, <1>7, <2>2, <2>3 DEF Table
  <2> QED BY <1>3, <1>4, <1>7, <2>1, <2>4 DEF FireInv
<1>8. CASE /\ service' = "active" /\ loaded' = configured'
           /\ n + 1 = Len(Fire!Enable(configured')) /\ todo' = <<>>
  <2>1. Len(Fire!Enable(configured')) >= 16 /\ configured' \subseteq Roles
    BY <1>3, EnableIs DEF FireTypes
  <2>2. n + 1 >= 10
    BY <1>2, <1>8, <2>1
  <2>3. \A r : r \in rules' <=> \E i \in 11..(n + 1) : r = Fire!Enable(configured')[i][2]
    BY <1>3, <2>2 DEF Made
  <2>4. rules' = Fire!Rules(configured')
    <3>1. rules' = Added(configured')
      BY <1>8, <2>3 DEF Added
    <3>2. Added(configured') = Fire!Rules(configured')
      BY <2>1, AllAdded
    <3> QED BY <3>1, <3>2
  <2>5. Fire!EnabledIsExact'
    BY <1>8, <2>4 DEF Fire!EnabledIsExact
  <2>6. Fire!Ssh \in rules'
    BY <2>4, RulesAre DEF Fire!Basic
  <2>7. SshOK(0)'
    BY <2>6 DEF SshOK, Fire!LockedOut
  <2> QED BY <1>3, <1>4, <1>8, <2>5, <2>7 DEF FireInv
<1> QED BY <1>4, <1>6, <1>7, <1>8

\* systemd starts the script, whatever the last run has left.
LEMMA RestartKeeps ==
  ASSUME FireInv, Fire!Restart
  PROVE  FireInv'
PROOF
<1>1. /\ todo = <<>> /\ unlucky' = FALSE /\ UNCHANGED <<configured, chains, rules, loaded, faults>>
      /\ \/ service' = "stopping" /\ todo' = Fire!CleanUp
         \/ service' = "starting" /\ todo' = Fire!Enable(configured)
  BY DEF Fire!Restart
<1>2. FireTypes /\ NoDangling /\ SshOK(0)
  BY <1>1 DEF FireInv
<1>3. FireTypes' /\ NoDangling' /\ SshOK(0)'
  BY <1>1, <1>2 DEF FireTypes, NoDangling, SshOK, Fire!LockedOut
<1>4. Follows' /\ todo' # <<>> /\ Done' = 0
  <2>1. configured' \subseteq Roles /\ service' \in {"stopping", "starting"}
    BY <1>1, <1>2 DEF FireTypes
  <2>2. todo' = Program'
    BY <1>1 DEF Program
  <2> QED BY <2>1, <2>2, Begins
<1>5. Table(Done)'
  BY <1>3, <1>4 DEF Table, Cleaned, Made
<1>6. Fire!EnabledIsExact'
  BY <1>1 DEF Fire!EnabledIsExact
<1> QED BY <1>3, <1>4, <1>5, <1>6 DEF FireInv

\* A run ends after two failures if SSH is dropped: the chains were flushed long ago.
LEMMA EndKeeps ==
  ASSUME FireInv, Fire!EndAtFailure
  PROVE  FireInv'
PROOF
<1>1. /\ todo # <<>> /\ Fire!op \notin Fire!Ignored /\ todo' = <<>> /\ service' = "failed"
      /\ UNCHANGED <<configured, chains, rules, loaded>>
      /\ UNCHANGED <<faults, unlucky>> \/ (unlucky' = TRUE /\ faults' = faults + 1)
  BY DEF Fire!EndAtFailure, Fire!Fails, Fire!ByChance
<1>n. PICK n : n = Done
  OBVIOUS
<1>2. FireTypes /\ Follows /\ NoDangling /\ SshOK(n)
  BY <1>1, <1>n DEF FireInv, Table
<1>3. n > 6
  <2>1. /\ n \in Nat
        /\ n = 0 => Fire!op = "unjump"
        /\ n \in 1..3 => Fire!op = "flush"
        /\ n \in 4..6 => Fire!op = "delete"
    BY <1>1, <1>2, <1>n, AtCommand
  <2> QED BY <1>1, <2>1 DEF Fire!Ignored
<1>4. FireTypes'
  <2>1. faults' \in Nat /\ unlucky' \in BOOLEAN /\ (unlucky' = TRUE => faults' >= 1)
    <3>1. CASE UNCHANGED <<faults, unlucky>>
      BY <1>2, <3>1 DEF FireTypes
    <3>2. CASE unlucky' = TRUE /\ faults' = faults + 1
      BY <1>2, <3>2 DEF FireTypes
    <3> QED BY <1>1, <3>1, <3>2
  <2> QED BY <1>1, <1>2, <2>1 DEF FireTypes
<1>5. SshOK(0)'
  <2>1. Fire!LockedOut' = Fire!LockedOut
    BY <1>1 DEF Fire!LockedOut
  <2>2. Fire!LockedOut => faults >= 2
    BY <1>2, <1>3 DEF SshOK
  <2>3. faults \in Nat /\ faults' \in Nat /\ faults' >= faults
    BY <1>1, <1>2 DEF FireTypes
  <2> QED BY <2>1, <2>2, <2>3 DEF SshOK
<1>6. NoDangling'
  BY <1>1, <1>2 DEF NoDangling
<1>7. Follows' /\ Fire!EnabledIsExact'
  BY <1>1 DEF Follows, Fire!EnabledIsExact
<1> QED BY <1>1, <1>4, <1>5, <1>6, <1>7 DEF FireInv

\* Without `ip6tables -L` the run goes past this table.
LEMMA SkipKeeps ==
  ASSUME FireInv, Fire!SkipTable
  PROVE  FireInv'
PROOF
<1>1. /\ faults' = faults + 1 /\ unlucky' = TRUE /\ UNCHANGED <<configured, chains, rules, loaded>>
      /\ \/ /\ service = "stopping" /\ todo = Fire!CleanUp
            /\ service' = "starting" /\ todo' = Fire!Enable(configured)
         \/ /\ service = "starting" /\ todo = Fire!Enable(configured)
            /\ service' = "skipped" /\ todo' = <<>>
  BY DEF Fire!SkipTable, Fire!ByChance
<1>2. FireTypes /\ NoDangling /\ Follows
  BY DEF FireInv
<1>3. SshOK(0)
  <2>1. todo # <<>>
    BY <1>1, <1>2 DEF Follows
  <2>2. todo = Program
    BY <1>1 DEF Program
  <2>3. Len(todo) \in Nat
    BY <1>2 DEF Follows
  <2>4. Done = 0
    BY <2>2, <2>3 DEF Done
  <2> QED BY <2>1, <2>4 DEF FireInv, Table
<1>4. FireTypes' /\ NoDangling' /\ SshOK(0)'
  <2>1. FireTypes'
    BY <1>1, <1>2 DEF FireTypes
  <2>2. NoDangling'
    BY <1>1, <1>2 DEF NoDangling
  <2>3. SshOK(0)'
    BY <1>1, <1>2, <1>3 DEF SshOK, Fire!LockedOut, FireTypes
  <2> QED BY <2>1, <2>2, <2>3
<1>5. CASE service' = "starting" /\ todo' = Fire!Enable(configured)
  <2>1. configured' \subseteq Roles /\ todo' = Program'
    BY <1>1, <1>2, <1>5 DEF Program, FireTypes
  <2>2. Follows' /\ todo' # <<>> /\ Done' = 0
    BY <1>5, <2>1, Begins
  <2>3. Table(Done)'
    BY <1>4, <2>2 DEF Table, Cleaned, Made
  <2>4. Fire!EnabledIsExact'
    BY <1>5 DEF Fire!EnabledIsExact
  <2> QED BY <1>4, <2>2, <2>3, <2>4 DEF FireInv
<1>6. CASE service' = "skipped" /\ todo' = <<>>
  BY <1>4, <1>6 DEF FireInv, Follows, Fire!EnabledIsExact
<1> QED BY <1>1, <1>5, <1>6

LEMMA FireInductive == FireInv /\ [Next]_vars => FireInv'
PROOF
<1> SUFFICES ASSUME FireInv, [Next]_vars
             PROVE  FireInv'
  OBVIOUS
<1>1. CASE Moves
  BY <1>1, MovesKeep
<1>2. CASE Fire!EndAtFailure
  BY <1>2, EndKeeps
<1>3. CASE Fire!SkipTable
  BY <1>3, SkipKeeps
<1>4. CASE Fire!Restart
  BY <1>4, RestartKeeps
<1>5. CASE Fire!Configure
  <2>1. /\ todo = <<>> /\ UNCHANGED <<chains, rules, todo, service, loaded, faults, unlucky>>
        /\ \E r \in Roles : configured' \in {configured \ {r}, configured \cup {r}}
    BY <1>5 DEF Fire!Configure
  <2>2. FireTypes' /\ NoDangling' /\ SshOK(0)'
    BY <2>1 DEF FireInv, FireTypes, NoDangling, SshOK, Fire!LockedOut
  <2>3. Follows' /\ Fire!EnabledIsExact'
    BY <2>1 DEF FireInv, Follows, Fire!EnabledIsExact
  <2> QED BY <2>1, <2>2, <2>3 DEF FireInv
<1>6. CASE Fire!Reboot
  <2>1. /\ chains' = {} /\ rules' = {} /\ todo' = <<>> /\ service' = "inactive" /\ unlucky' = FALSE
        /\ UNCHANGED <<configured, loaded, faults>>
    BY <1>6 DEF Fire!Reboot
  <2>2. FireTypes'
    BY <2>1 DEF FireInv, FireTypes
  <2>3. Follows' /\ NoDangling' /\ SshOK(0)' /\ Fire!EnabledIsExact'
    BY <2>1 DEF Follows, NoDangling, SshOK, Fire!LockedOut, Fire!EnabledIsExact
  <2> QED BY <2>1, <2>2, <2>3 DEF FireInv
<1>7. CASE UNCHANGED firewall
  <2>1. UNCHANGED <<configured, chains, rules, todo, service, loaded, faults, unlucky>>
    BY <1>7 DEF firewall
  <2>2. FireTypes' /\ Follows' /\ Fire!EnabledIsExact' /\ NoDangling'
    BY <2>1 DEF FireInv, FireTypes, Follows, Fire!EnabledIsExact, NoDangling, Done, Program
  <2>3. todo' = <<>> => SshOK(0)'
    BY <2>1 DEF FireInv, SshOK, Fire!LockedOut
  <2>4. ASSUME todo' # <<>>
        PROVE  Table(Done)'
    BY <2>1, <2>4 DEF FireInv, Table, NoDangling, SshOK, Fire!LockedOut, Cleaned, Made, Done, Program
  <2> QED BY <2>2, <2>3, <2>4 DEF FireInv
<1> QED BY <1>1, <1>2, <1>3, <1>4, <1>5, <1>6, <1>7, FireSteps DEF Fire!Next, Moves

-----------------------------------------------------------------------------

\* Whenever the service says it is enabled, the table has the rules of the roles
\* it has loaded and no others, although failures of the clean-up are ignored.
THEOREM EnabledTablesAreExact == Spec => []EnabledIsExact
PROOF
<1>1. Init => FireInv
  BY FireInit DEF Init
<1>2. FireInv => EnabledIsExact
  BY DEF FireInv, EnabledIsExact
<1> QED BY <1>1, <1>2, FireInductive, PTL DEF Spec

\* A run in which no command fails by chance can do every command that would end
\* it, whatever an earlier run or its failure has left in the table.
THEOREM RunsStartOver == Spec => []CleanRunSucceeds
PROOF
<1>1. Init => FireInv
  BY FireInit DEF Init
<1>2. FireInv => CleanRunSucceeds
  <2> SUFFICES ASSUME FireInv, todo # <<>>, unlucky = FALSE, Fire!op \notin Fire!Ignored
               PROVE  Fire!Possible
    <3>1. FireInv => unlucky \in BOOLEAN
      BY DEF FireInv, FireTypes
    <3> QED BY <3>1 DEF CleanRunSucceeds, Fire!CleanRunSucceeds
  <2>n. PICK n : n = Done
    OBVIOUS
  <2>1. FireTypes /\ Follows /\ Cleaned(n) /\ (service = "starting" => Made(n))
    BY <2>n DEF FireInv, Table
  <2>2. /\ n \in Nat
        /\ n = 0 => Fire!op = "unjump"
        /\ n \in 1..3 => Fire!op = "flush"
        /\ n \in 4..6 => Fire!op = "delete"
        /\ n \in 7..9 => Fire!op = "create" /\ Fire!arg = Ch[n - 6]
        /\ n >= 10 => Fire!op = "append" /\ Fire!arg \in Fire!Rules(Roles)
        /\ n > 6 => service = "starting"
    BY <2>n, <2>1, AtCommand
  <2>3. n \in 7..9 \/ n >= 10
    BY <2>2 DEF Fire!Ignored
  <2>4. CASE n \in 7..9
    <3>1. n - 6 \in 1..3 /\ (n - 6) + 4 <= n /\ n < (n - 6) + 7 /\ n \in 1..10
      BY <2>4
    <3>2. Ch[n - 6] \notin chains
      BY <2>1, <3>1 DEF Cleaned
    <3> QED BY <2>2, <2>4, <3>2 DEF Fire!Possible
  <2>5. CASE n >= 10
    <3>1. chains = Chained
      BY <2>1, <2>2, <2>5 DEF Made
    <3>2. /\ Fire!arg[1] \in Chained \cup {"INPUT"}
          /\ Fire!arg[2] \in Chained \cup {"reject", "ssh", "drop"} \cup Roles
      BY <2>2, <2>5, RuleEnds
    <3>3. Fire!Exists(Fire!arg[1]) /\ Fire!Exists(Fire!arg[2])
      BY <3>1, <3>2 DEF Fire!Exists
    <3> QED BY <2>2, <2>5, <3>3 DEF Fire!Possible
  <2> QED BY <2>3, <2>4, <2>5
<1> QED BY <1>1, <1>2, FireInductive, PTL DEF Spec

\* SSH is dropped for a moment after one command of the clean-up failed by chance,
\* and until the next run only after two.
THEOREM SshSurvivesOneFailure == Spec => []SshStaysOpen
PROOF
<1>1. Init => FireInv
  BY FireInit DEF Init
<1>2. FireInv => SshStaysOpen
  <2> SUFFICES ASSUME FireInv, Fire!LockedOut
               PROVE  faults >= 1 /\ (todo = <<>> => faults >= 2)
    BY DEF SshStaysOpen, Fire!SshStaysOpen
  <2>1. CASE todo = <<>>
    BY <2>1 DEF FireInv, SshOK
  <2>2. CASE todo # <<>>
    BY <2>2 DEF FireInv, Table, SshOK
  <2> QED BY <2>1, <2>2
<1> QED BY <1>1, <1>2, FireInductive, PTL DEF Spec

================================================================================
