--------------------------- MODULE CalendarProofs ---------------------------
(***************************************************************************)
(* Theorems about CalendarIntegrations, for any number of requests and of  *)
(* credentials and any calendars set from the command line: which calendar *)
(* is active, what a lookup finds, and whose refresh token is stored.       *)
(***************************************************************************)
EXTENDS CalendarIntegrations, TLAPS

-----------------------------------------------------------------------------
(* The inductive invariant. *)

Task == Lookup \cup InUse \cup Connecting \cup {Idle}

UsesProvider(t) == t # Idle /\ t.op \in { "use", "find", "save" }

(* A task knows only credentials that were issued, as far as n. *)
KnowsIssued(t, n) ==
  /\ t # Idle /\ t.op = "lookup" => \A f \in t.found : f.secret <= n
  /\ UsesProvider(t) => t.secret <= n /\ t.stored <= n

(* Credentials that are stored or in use have been issued. *)
SecretsIssued ==
  /\ \A p \in DOMAIN rows : rows[p].secret <= issued
  /\ \A w \in Worker : KnowsIssued(task[w], issued)

IInv == TypeOK /\ SecretsIssued

(* A provider's refresh token was rotated from the same credentials as the    *)
(* one it knows stored.                                                      *)
SameRoot ==
  \A w \in Worker :
    UsesProvider(task[w]) => root[task[w].secret] = root[task[w].stored]

-----------------------------------------------------------------------------
(* Steps that several actions have in common. *)

LEMMA ProviderIs == Provider = { "msgraph", "microsoft", "nextcloud", "google" }
BY DEF Provider, Candidates

LEMMA SecretIsNat ==
  ASSUME TypeOK
  PROVE  issued \in Nat /\ Secret \subseteq Nat
<1>1. MaxSecret \in Nat /\ issued \in 0 .. MaxSecret
  BY IntegrationsAssumption DEF IntegrationsAssumption, TypeOK
<1>2. QED
  BY <1>1 DEF Secret

LEMMA KnowsMore ==
  ASSUME NEW t \in Task, NEW n \in Nat, Secret \subseteq Nat, KnowsIssued(t, n)
  PROVE  KnowsIssued(t, n + 1)
<1>1. CASE t \in Lookup /\ t # Idle
  <2>1. t.op = "lookup" /\ \A f \in t.found : f.secret \in Nat
    BY <1>1 DEF Lookup
  <2>2. \A f \in t.found : f.secret <= n
    BY <1>1, <2>1 DEF KnowsIssued
  <2>3. QED
    BY <2>1, <2>2 DEF KnowsIssued, UsesProvider
<1>2. CASE t \in InUse
  <2>1. t.op \in { "use", "find", "save" } /\ t.secret \in Nat /\ t.stored \in Nat
    BY <1>2 DEF InUse
  <2>2. QED
    BY <2>1 DEF KnowsIssued, UsesProvider
<1>3. CASE t \in Connecting \/ t = Idle
  BY <1>3 DEF KnowsIssued, UsesProvider, Connecting
<1>4. QED
  BY <1>1, <1>2, <1>3 DEF Task

(* Tasks keep all but their calm when the table changes. *)
LEMMA DisturbedTask ==
  ASSUME TypeOK, NEW u, NEW v \in Worker
  PROVE  /\ Disturbed(u)[v] \in Task
         /\ Disturbed(u)[v] # Idle =>
              /\ task[v] # Idle
              /\ Disturbed(u)[v].op = task[v].op
              /\ task[v].op = "lookup" => Disturbed(u)[v].found = task[v].found
              /\ task[v].op \in { "use", "find", "save" } =>
                   /\ Disturbed(u)[v].secret = task[v].secret
                   /\ Disturbed(u)[v].stored = task[v].stored
<1>1. task[v] \in Task
  BY DEF TypeOK, Task
<1>2. CASE v = u \/ task[v] = Idle
  BY <1>1, <1>2 DEF Disturbed
<1>3. CASE ~ (v = u \/ task[v] = Idle)
  <2>1. Disturbed(u)[v] = [task[v] EXCEPT !.calm = FALSE]
    BY <1>3 DEF Disturbed
  <2>2. CASE task[v] \in Lookup
    BY <2>1, <2>2, <1>3 DEF Lookup, Task
  <2>3. CASE task[v] \in InUse
    BY <2>1, <2>3, <1>3 DEF InUse, Task
  <2>4. CASE task[v] \in Connecting
    BY <2>1, <2>4, <1>3 DEF Connecting, Task
  <2>5. QED
    BY <1>1, <1>3, <2>2, <2>3, <2>4 DEF Task
<1>4. QED
  BY <1>2, <1>3

(* New credentials are numbered next, and are their own root. *)
LEMMA PutInType ==
  ASSUME TypeOK, NEW p \in Provider, PutIn(p)
  PROVE  /\ issued \in Nat /\ issued' = issued + 1 /\ issued' \in 0 .. MaxSecret
         /\ issued + 1 \in Secret
         /\ root' \in Seq(Secret) /\ Len(root') = issued'
         /\ root'[issued + 1] = issued + 1
         /\ \A s \in 1 .. issued : root'[s] = root[s]
         /\ latest' \in [Provider -> 0 .. MaxSecret]
         /\ latest' = [latest EXCEPT ![p] = issued + 1]
<1>1. issued \in 0 .. MaxSecret /\ MaxSecret \in Nat
  BY IntegrationsAssumption DEF TypeOK, IntegrationsAssumption
<1>2. issued < MaxSecret /\ issued' = issued + 1
  BY DEF PutIn
<1>3. issued + 1 \in Secret
  BY <1>1, <1>2 DEF Secret
<1>4. root \in Seq(Secret) /\ Len(root) = issued
  BY DEF TypeOK
<1>5. root' = Append(root, issued + 1)
  BY DEF PutIn
<1>6. /\ root' \in Seq(Secret) /\ Len(root') = issued'
      /\ root'[issued + 1] = issued + 1
      /\ \A s \in 1 .. issued : root'[s] = root[s]
  BY <1>1, <1>2, <1>3, <1>4, <1>5
<1>7. /\ latest' = [latest EXCEPT ![p] = issued + 1]
      /\ latest \in [Provider -> 0 .. MaxSecret]
  BY DEF PutIn, TypeOK
<1>8. QED
  BY <1>1, <1>2, <1>3, <1>6, <1>7

(* What the table is after credentials were put in for p. *)
LEMMA StoredType ==
  ASSUME TypeOK, NEW p \in Provider, NEW b \in BOOLEAN, PutIn(p)
  PROVE  /\ Stored(p, b) \in Row
         /\ DOMAIN With(p, Stored(p, b)) = DOMAIN rows \cup {p}
         /\ DOMAIN With(p, Stored(p, b)) \subseteq Provider
         /\ \A q \in DOMAIN With(p, Stored(p, b)) :
              /\ With(p, Stored(p, b))[q] \in Row
              /\ With(p, Stored(p, b))[q] = IF q = p THEN Stored(p, b) ELSE rows[q]
         /\ Stored(p, b).active = b
         /\ Stored(p, b).secret = issued + 1
<1>1. Stored(p, b) \in Row
  BY PutInType DEF Stored, Row, TypeOK
<1>2. QED
  BY <1>1 DEF With, TypeOK, Stored

(* Switching the others off leaves every row but its flag. *)
LEMMA DeactivateType ==
  ASSUME NEW t, NEW p \in Provider,
         DOMAIN t \subseteq Provider, \A q \in DOMAIN t : t[q] \in Row
  PROVE  /\ DOMAIN DeactivateOthers(t, p) = DOMAIN t
         /\ \A q \in DOMAIN t :
              /\ DeactivateOthers(t, p)[q] \in Row
              /\ DeactivateOthers(t, p)[q].id = t[q].id
              /\ DeactivateOthers(t, p)[q].secret = t[q].secret
              /\ DeactivateOthers(t, p)[q].active = (t[q].active /\ q = p)
<1>1. ASSUME NEW q \in DOMAIN t
      PROVE  DeactivateOthers(t, p)[q] = [t[q] EXCEPT !.active = @ /\ q = p]
  BY DEF DeactivateOthers
<1>2. QED
  BY <1>1 DEF DeactivateOthers, Row

(* IInv' from its parts, one for each variable. *)
LEMMA Assemble ==
  ASSUME TypeOK,
         DOMAIN rows' \subseteq Provider,
         \A p \in DOMAIN rows' : rows'[p] \in Row /\ rows'[p].secret <= issued',
         issued' \in 0 .. MaxSecret,
         task' \in [Worker -> Task],
         \A w \in Worker : KnowsIssued(task'[w], issued'),
         root' \in Seq(Secret), Len(root') = issued',
         latest' \in [Provider -> 0 .. MaxSecret],
         operated' \subseteq Provider,
         current' \in Provider \cup {""}
  PROVE  IInv'
BY DEF IInv, TypeOK, SecretsIssued, Task

(* The tasks after one that changed the table. *)
LEMMA DisturbedIssued ==
  ASSUME IInv, NEW u
  PROVE  /\ Disturbed(u) \in [Worker -> Task]
         /\ \A w \in Worker : /\ KnowsIssued(Disturbed(u)[w], issued)
                              /\ KnowsIssued(Disturbed(u)[w], issued + 1)
<1>1. ASSUME NEW w \in Worker
      PROVE  /\ Disturbed(u)[w] \in Task
             /\ KnowsIssued(Disturbed(u)[w], issued)
  BY DisturbedTask DEF IInv, SecretsIssued, KnowsIssued, UsesProvider
<1>2. ASSUME NEW w \in Worker
      PROVE  KnowsIssued(Disturbed(u)[w], issued + 1)
  BY <1>1, SecretIsNat, KnowsMore DEF IInv
<1>3. Disturbed(u) \in [Worker -> Task]
  BY <1>1 DEF Disturbed
<1>4. QED
  BY <1>1, <1>2, <1>3

(* A table of issued credentials is one after the others are switched off.    *)
TableIssued(t, n) ==
  /\ DOMAIN t \subseteq Provider
  /\ \A q \in DOMAIN t : t[q] \in Row /\ t[q].secret <= n

LEMMA StoredIssued ==
  ASSUME TypeOK, SecretsIssued, NEW p \in Provider, NEW b \in BOOLEAN, PutIn(p)
  PROVE  TableIssued(With(p, Stored(p, b)), issued + 1)
<1>1. issued \in Nat /\ Secret \subseteq Nat
  BY SecretIsNat
<1>2. ASSUME NEW q \in DOMAIN rows
      PROVE  rows[q].secret \in Nat /\ rows[q].secret <= issued
  BY <1>1 DEF TypeOK, SecretsIssued, Row
<1>3. ASSUME NEW q \in DOMAIN With(p, Stored(p, b))
      PROVE  With(p, Stored(p, b))[q].secret <= issued + 1
  <2>1. /\ q \in (DOMAIN rows) \cup {p}
        /\ With(p, Stored(p, b))[q] = IF q = p THEN Stored(p, b) ELSE rows[q]
    BY DEF With
  <2>2. CASE q = p
    BY <2>1, <2>2, <1>1 DEF Stored
  <2>3. CASE q # p
    BY <2>1, <2>3, <1>1, <1>2
  <2>4. QED
    BY <2>2, <2>3
<1>4. QED
  BY <1>3, StoredType DEF TableIssued

LEMMA DeactivateIssued ==
  ASSUME NEW t, NEW n, NEW p \in Provider, TableIssued(t, n)
  PROVE  TableIssued(DeactivateOthers(t, p), n)
BY DeactivateType DEF TableIssued

(* Credentials put in for p, and the other integrations switched off or not.  *)
LEMMA PutInIssued ==
  ASSUME IInv, NEW p \in Provider, NEW b \in BOOLEAN, PutIn(p),
         rows' \in { With(p, Stored(p, b)),
                     DeactivateOthers(With(p, Stored(p, b)), p) },
         NEW u, task' = Disturbed(u) \/ \E w \in Worker :
                          task' = [Disturbed(u) EXCEPT ![w] = Idle],
         operated' \subseteq Provider,
         current' \in Provider \cup {""}
  PROVE  IInv'
<1>1. TypeOK /\ SecretsIssued
  BY DEF IInv
<1>2. TableIssued(rows', issued + 1)
  BY <1>1, StoredIssued, DeactivateIssued
<1>3. /\ task' \in [Worker -> Task]
      /\ \A v \in Worker : KnowsIssued(task'[v], issued + 1)
  <2>1. Idle \in Task /\ KnowsIssued(Idle, issued + 1)
    BY DEF Task, KnowsIssued, UsesProvider
  <2>2. QED
    BY <2>1, DisturbedIssued
<1>4. issued' = issued + 1
  BY <1>1, PutInType
<1>5. QED
  BY <1>1, <1>2, <1>3, <1>4, PutInType, Assemble DEF TableIssued

(* A step of a task that leaves the table and the credentials alone. *)
LEMMA TaskIssued ==
  ASSUME IInv, NEW w \in Worker, NEW t \in Task, KnowsIssued(t, issued),
         task' = [task EXCEPT ![w] = t], UNCHANGED <<rows, issued, history>>
  PROVE  IInv'
BY DEF IInv, TypeOK, SecretsIssued, Task, history

(* Each step keeps the invariant. *)
LEMMA NextIInv == IInv /\ [Next]_vars => IInv'
<1> SUFFICES ASSUME IInv, [Next]_vars PROVE IInv'
  OBVIOUS
<1>0. /\ TypeOK /\ SecretsIssued
      /\ issued \in Nat /\ Secret \subseteq Nat
      /\ operated \subseteq Provider /\ Operated \subseteq Provider
      /\ current \in Provider \cup {""}
  BY SecretIsNat, IntegrationsAssumption DEF IInv, TypeOK, IntegrationsAssumption
<1>1. ASSUME HandleCallback
      PROVE  IInv'
  BY <1>1, PutInIssued, ProviderIs DEF HandleCallback
<1>2. ASSUME NEW p \in Operated, NEW e \in BOOLEAN, SetCmd(p, e)
      PROVE  IInv'
  <2>1. p \in Provider /\ operated' \subseteq Provider /\ current' \in Provider \cup {""}
    BY <1>0, <1>2 DEF SetCmd
  <2>2. QED
    BY <1>2, <2>1, PutInIssued DEF SetCmd
<1>3. ASSUME NEW p \in Provider, DeleteIntegration(p)
      PROVE  IInv'
  <2>1. task' = Disturbed(Nobody) /\ UNCHANGED <<issued, root, latest, operated>>
    BY <1>3 DEF DeleteIntegration
  <2>2. current' \in Provider \cup {""}
    BY <1>0, <1>3 DEF DeleteIntegration
  <2>3. TableIssued(rows', issued)
    BY <1>0, <1>3 DEF DeleteIntegration, TableIssued, TypeOK, SecretsIssued
  <2>4. /\ root \in Seq(Secret) /\ Len(root) = issued
        /\ latest \in [Provider -> 0 .. MaxSecret] /\ issued \in 0 .. MaxSecret
    BY <1>0 DEF TypeOK
  <2>5. QED
    BY <1>0, <2>1, <2>2, <2>3, <2>4, DisturbedIssued, Assemble DEF TableIssued
<1>4. ASSUME NEW w \in Worker, MSGraphRead(w)
      PROVE  IInv'
  <2> DEFINE t == [ op |-> "connect", calm |-> TRUE,
         seen |-> { [id |-> rows[p].id, active |-> rows[p].active] :
                      p \in (DOMAIN rows) \cap {"msgraph"} } ]
  <2>1. \A p \in DOMAIN rows : rows[p].id \in Secret /\ rows[p].active \in BOOLEAN
    BY <1>0 DEF TypeOK, Row
  <2>2. t \in Connecting
    BY <2>1 DEF Connecting
  <2>3. t \in Task /\ KnowsIssued(t, issued)
    BY <2>2 DEF Task, KnowsIssued, UsesProvider
  <2>4. task' = [task EXCEPT ![w] = t] /\ UNCHANGED <<rows, issued, history>>
    BY <1>4 DEF MSGraphRead
  <2> HIDE DEF t
  <2>5. QED
    BY <2>3, <2>4, TaskIssued
<1>5. ASSUME NEW w \in Worker, MSGraphSave(w)
      PROVE  IInv'
  <2> DEFINE seen == task[w].seen
  <2>1. "msgraph" \in Provider
    BY ProviderIs
  <2>2. CASE task' = [task EXCEPT ![w] = Idle] /\ UNCHANGED <<rows, issued, history>>
    BY <2>2, TaskIssued DEF Task, KnowsIssued, UsesProvider
  <2>3. CASE /\ rows' = DeactivateOthers(rows, "msgraph")
             /\ task' = [Disturbed(w) EXCEPT ![w] = Idle]
             /\ operated' = {} /\ current' = ""
             /\ UNCHANGED <<issued, root, latest>>
    <3>1. TableIssued(rows', issued)
      <4>1. TableIssued(rows, issued)
        BY <1>0 DEF TableIssued, TypeOK, SecretsIssued
      <4>2. QED
        BY <2>1, <2>3, <4>1, DeactivateIssued
    <3>2. /\ task' \in [Worker -> Task]
          /\ \A v \in Worker : KnowsIssued(task'[v], issued)
      BY <2>3, DisturbedIssued DEF Task, KnowsIssued, UsesProvider
    <3>3. /\ root \in Seq(Secret) /\ Len(root) = issued
          /\ latest \in [Provider -> 0 .. MaxSecret] /\ issued \in 0 .. MaxSecret
      BY <1>0 DEF TypeOK
    <3>4. QED
      BY <1>0, <2>3, <3>1, <3>2, <3>3, Assemble DEF TableIssued
  <2>4. CASE /\ seen = {} => "msgraph" \notin DOMAIN rows
             /\ \A s \in seen : "msgraph" \in DOMAIN rows /\ rows["msgraph"].id = s.id
             /\ PutIn("msgraph")
             /\ rows' = DeactivateOthers(With("msgraph", Stored("msgraph", Enabled(seen))),
                                         "msgraph")
             /\ task' = [Disturbed(w) EXCEPT ![w] = Idle]
             /\ operated' = {}
             /\ current' = IF task[w].calm THEN "msgraph" ELSE ""
    <3>1. Enabled(seen) \in BOOLEAN
      <4>1. CASE "msgraph" \in DOMAIN rows
        <5>1. rows["msgraph"].active \in BOOLEAN
          BY <1>0, <4>1 DEF TypeOK, Row
        <5>2. QED
          BY <5>1 DEF Enabled
      <4>2. CASE "msgraph" \notin DOMAIN rows
        BY <2>4, <4>2 DEF Enabled
      <4>3. QED
        BY <4>1, <4>2
    <3>2. operated' \subseteq Provider /\ current' \in Provider \cup {""}
      BY <2>1, <2>4
    <3>3. QED
      BY <2>1, <2>4, <3>1, <3>2, PutInIssued
  <2>5. QED
    BY <1>5, <2>2, <2>3, <2>4 DEF MSGraphSave
<1>6. ASSUME NEW w \in Worker, CalendarForHost(w)
      PROVE  IInv'
  <2> DEFINE t == [op |-> "lookup", next |-> 1, found |-> {}, calm |-> TRUE]
  <2>1. t \in Task /\ KnowsIssued(t, issued)
    BY DEF Task, Lookup, KnowsIssued, UsesProvider, Candidates
  <2>2. task' = [task EXCEPT ![w] = t] /\ UNCHANGED <<rows, issued, history>>
    BY <1>6 DEF CalendarForHost
  <2> HIDE DEF t
  <2>3. QED
    BY <2>1, <2>2, TaskIssued
<1>7. ASSUME NEW w \in Worker, FindIntegrationCredentials(w)
      PROVE  IInv'
  <2> DEFINE p == Candidates[task[w].next]
             more == { [provider |-> q, secret |-> rows[q].secret] :
                         q \in { r \in {p} : Active(r) } }
             t == [task[w] EXCEPT !.next = @ + 1, !.found = @ \cup more]
  <2>1. /\ task[w] \in Lookup /\ task[w] # Idle /\ task[w].next <= 4
        /\ KnowsIssued(task[w], issued)
    BY <1>0, <1>7 DEF FindIntegrationCredentials, TypeOK, SecretsIssued, InUse,
       Connecting, Candidates
  <2>2. task[w].next \in 1 .. 4 /\ Len(Candidates) = 4
    BY <2>1 DEF Lookup, Candidates
  <2>3. p \in Provider
    BY <2>2 DEF Provider, Candidates
  <2>4. \A f \in more : f \in [provider : Provider, secret : Secret] /\ f.secret <= issued
    <3>1. ASSUME Active(p)
          PROVE  rows[p].secret \in Secret /\ rows[p].secret <= issued
      BY <1>0, <3>1 DEF Active, TypeOK, SecretsIssued, Row
    <3>2. ASSUME NEW f \in more
          PROVE  Active(p) /\ f = [provider |-> p, secret |-> rows[p].secret]
      BY <3>2
    <3> HIDE DEF p
    <3>3. QED
      BY <2>3, <3>1, <3>2
  <2>5. task[w].op = "lookup" /\ \A f \in task[w].found : f.secret <= issued
    BY <2>1 DEF Lookup, KnowsIssued
  <2> HIDE DEF more
  <2>6. t \in Lookup
    <3>1. task[w].found \cup more \in SUBSET [provider : Provider, secret : Secret]
      BY <2>1, <2>4 DEF Lookup
    <3>2. task[w].next + 1 \in 1 .. Len(Candidates) + 1
      BY <2>2
    <3>3. QED
      BY <2>1, <3>1, <3>2 DEF Lookup
  <2>7. t.found = task[w].found \cup more /\ t.op = "lookup"
    BY <2>1, <2>5 DEF Lookup
  <2>8. task' = [task EXCEPT ![w] = t] /\ UNCHANGED <<rows, issued, history>>
    BY <1>7 DEF FindIntegrationCredentials, more
  <2> HIDE DEF t
  <2>9. t \in Task /\ KnowsIssued(t, issued)
    BY <2>4, <2>5, <2>6, <2>7 DEF Task, KnowsIssued, UsesProvider
  <2>10. QED
    BY <2>8, <2>9, TaskIssued
<1>8. ASSUME NEW w \in Worker, LoadIntegration(w)
      PROVE  IInv'
  <2>1. /\ task[w] \in Lookup /\ task[w] # Idle
        /\ KnowsIssued(task[w], issued)
    BY <1>0, <1>8 DEF LoadIntegration, TypeOK, SecretsIssued, InUse, Connecting
  <2>2. CASE task' = [task EXCEPT ![w] = Idle] /\ UNCHANGED <<rows, issued, history>>
    BY <2>2, TaskIssued DEF Task, KnowsIssued, UsesProvider
  <2>3. CASE { f.provider : f \in task[w].found } = {"microsoft"}
    <3> DEFINE f == CHOOSE f \in task[w].found : TRUE
               t == [ op |-> "use", secret |-> f.secret, stored |-> f.secret,
                      row |-> 0, calm |-> task[w].calm ]
    <3>1. f \in task[w].found
      BY <2>3
    <3> HIDE DEF f
    <3>2. f.secret \in Secret /\ f.secret <= issued /\ task[w].calm \in BOOLEAN
      BY <2>1, <3>1 DEF Lookup, KnowsIssued
    <3>3. t \in Task /\ KnowsIssued(t, issued)
      BY <3>2 DEF Task, InUse, KnowsIssued, UsesProvider
    <3>4. task' = [task EXCEPT ![w] = t] /\ UNCHANGED <<rows, issued, history>>
      BY <1>8, <2>3 DEF LoadIntegration, f
    <3> HIDE DEF t
    <3>5. QED
      BY <3>3, <3>4, TaskIssued
  <2>4. QED
    BY <1>8, <2>2, <2>3 DEF LoadIntegration
<1>9. ASSUME NEW w \in Worker, AccessToken(w)
      PROVE  IInv'
  <2> DEFINE t == [task[w] EXCEPT !.secret = issued + 1, !.op = "find"]
  <2>1. /\ task[w] \in InUse /\ task[w] # Idle
        /\ KnowsIssued(task[w], issued)
    BY <1>0, <1>9 DEF AccessToken, At, TypeOK, SecretsIssued, Lookup, Connecting
  <2>2. /\ issued' = issued + 1 /\ issued + 1 \in Secret /\ issued' \in 0 .. MaxSecret
        /\ task[w].secret \in 1 .. issued /\ task[w].stored \in 1 .. issued
    <3>1. issued < MaxSecret /\ issued' = issued + 1 /\ MaxSecret \in Nat
      BY <1>9, IntegrationsAssumption DEF AccessToken, IntegrationsAssumption
    <3>2. /\ task[w].op \in { "use", "find", "save" }
          /\ task[w].secret \in 1 .. MaxSecret /\ task[w].stored \in 1 .. MaxSecret
      BY <2>1 DEF InUse, Secret
    <3>3. task[w].secret <= issued /\ task[w].stored <= issued
      BY <2>1, <3>2 DEF KnowsIssued, UsesProvider
    <3>0. issued \in Nat
      BY <1>0
    <3>4. task[w].secret \in 1 .. issued /\ task[w].stored \in 1 .. issued
      BY <3>0, <3>1, <3>2, <3>3
    <3>5. issued + 1 \in Secret /\ issued + 1 \in 0 .. MaxSecret
      BY <3>0, <3>1 DEF Secret
    <3>6. QED
      BY <3>1, <3>4, <3>5
  <2>3. root' \in Seq(Secret) /\ Len(root') = issued'
    <3>1. root \in Seq(Secret) /\ Len(root) = issued
      BY <1>0 DEF TypeOK
    <3>2. root' = Append(root, root[task[w].secret]) /\ root[task[w].secret] \in Secret
      BY <1>9, <2>2, <3>1 DEF AccessToken
    <3>3. issued' = issued + 1 /\ issued \in Nat
      BY <1>0, <2>2
    <3>4. QED
      BY <3>1, <3>2, <3>3
  <2>4. t \in InUse /\ t.op = "find" /\ t.secret = issued + 1 /\ t.stored = task[w].stored
    BY <2>1, <2>2 DEF InUse
  <2>5. task' = [task EXCEPT ![w] = t] /\ UNCHANGED <<rows, latest, operated, current>>
    BY <1>9 DEF AccessToken
  <2> HIDE DEF t
  <2>6. t \in Task /\ KnowsIssued(t, issued + 1)
    <3>1. issued \in Nat
      BY <1>0
    <3>2. t.secret <= issued + 1 /\ t.stored <= issued + 1
      BY <2>2, <2>4, <3>1
    <3>3. QED
      BY <2>4, <3>2 DEF Task, KnowsIssued, UsesProvider
  <2>7. task \in [Worker -> Task] /\ \A v \in Worker : KnowsIssued(task[v], issued + 1)
    <3>1. task \in [Worker -> Task] /\ \A v \in Worker : KnowsIssued(task[v], issued)
      BY <1>0 DEF TypeOK, SecretsIssued, Task
    <3>2. QED
      BY <1>0, <3>1, KnowsMore
  <2>8. \A q \in DOMAIN rows : rows[q] \in Row /\ rows[q].secret <= issued'
    <3>1. ASSUME NEW q \in DOMAIN rows
          PROVE  rows[q] \in Row /\ rows[q].secret \in Nat /\ rows[q].secret <= issued
      BY <1>0 DEF TypeOK, SecretsIssued, Row
    <3>2. issued \in Nat
      BY <1>0
    <3>3. QED
      BY <2>2, <3>1, <3>2
  <2>9. DOMAIN rows \subseteq Provider /\ latest \in [Provider -> 0 .. MaxSecret]
    BY <1>0 DEF TypeOK
  <2>10. /\ task' \in [Worker -> Task]
         /\ \A v \in Worker : KnowsIssued(task'[v], issued')
    BY <2>2, <2>5, <2>6, <2>7
  <2>11. QED
    BY <1>0, <2>2, <2>3, <2>5, <2>8, <2>9, <2>10, Assemble
<1>10. ASSUME NEW w \in Worker, UpdateFind(w)
       PROVE  IInv'
  <2>1. /\ task[w] \in InUse /\ task[w] # Idle
        /\ KnowsIssued(task[w], issued)
    BY <1>0, <1>10 DEF UpdateFind, At, TypeOK, SecretsIssued, Lookup, Connecting
  <2>2. Active("microsoft") => rows["microsoft"].id \in Secret
    BY <1>0 DEF Active, TypeOK, Row
  <2>3. PICK t \in InUse : /\ t.secret = task[w].secret /\ t.stored = task[w].stored
                           /\ task' = [task EXCEPT ![w] = t]
    <3>1. CASE /\ Active("microsoft")
               /\ task' = [task EXCEPT ![w].op = "save", ![w].row = rows["microsoft"].id]
      <4> DEFINE t == [task[w] EXCEPT !.op = "save", !.row = rows["microsoft"].id]
      <4>1. t \in InUse /\ t.secret = task[w].secret /\ t.stored = task[w].stored
        BY <2>1, <2>2, <3>1 DEF InUse
      <4>2. QED
        BY <3>1, <4>1
    <3>2. CASE task' = [task EXCEPT ![w].op = "use"]
      <4> DEFINE t == [task[w] EXCEPT !.op = "use"]
      <4>1. t \in InUse /\ t.secret = task[w].secret /\ t.stored = task[w].stored
        BY <2>1 DEF InUse
      <4>2. QED
        BY <3>2, <4>1
    <3>3. CASE task' = [task EXCEPT ![w].op = "use", ![w].calm = FALSE]
      <4> DEFINE t == [task[w] EXCEPT !.op = "use", !.calm = FALSE]
      <4>1. t \in InUse /\ t.secret = task[w].secret /\ t.stored = task[w].stored
        BY <2>1 DEF InUse
      <4>2. QED
        BY <3>3, <4>1
    <3>4. QED
      BY <1>10, <3>1, <3>2, <3>3 DEF UpdateFind
  <2>4. t \in Task /\ KnowsIssued(t, issued)
    BY <2>1, <2>3 DEF Task, InUse, KnowsIssued, UsesProvider
  <2>5. QED
    BY <1>10, <2>3, <2>4, TaskIssued DEF UpdateFind
<1>11. ASSUME NEW w \in Worker, UpdateSave(w)
       PROVE  IInv'
  <2>1. /\ task[w] \in InUse /\ task[w] # Idle
        /\ KnowsIssued(task[w], issued)
    BY <1>0, <1>11 DEF UpdateSave, At, TypeOK, SecretsIssued, Lookup, Connecting
  <2>2. /\ task[w].secret \in Secret /\ task[w].secret <= issued
    BY <2>1 DEF InUse, KnowsIssued, UsesProvider
  <2>3. CASE /\ Holds(task[w])
             /\ rows' = [rows EXCEPT !["microsoft"].secret = task[w].secret]
             /\ task' = [Disturbed(w) EXCEPT ![w].op = "use", ![w].row = 0,
                                             ![w].stored = task[w].secret]
    <3>1. UNCHANGED <<issued, root, latest, operated, current>>
      BY <1>11 DEF UpdateSave, history
    <3>2. TableIssued(rows', issued)
      BY <1>0, <2>2, <2>3 DEF TableIssued, TypeOK, SecretsIssued, Row
    <3>3. Disturbed(w)[w] = task[w]
      BY DEF Disturbed
    <3> DEFINE t == [task[w] EXCEPT !.op = "use", !.row = 0, !.stored = task[w].secret]
    <3>4. t \in Task /\ KnowsIssued(t, issued)
      BY <2>1, <2>2 DEF Task, InUse, KnowsIssued, UsesProvider
    <3>5. task' = [Disturbed(w) EXCEPT ![w] = t]
      BY <2>3, <3>3
    <3> HIDE DEF t
    <3>6. /\ task' \in [Worker -> Task]
          /\ \A v \in Worker : KnowsIssued(task'[v], issued)
      BY <3>4, <3>5, DisturbedIssued
    <3>7. /\ root \in Seq(Secret) /\ Len(root) = issued
          /\ latest \in [Provider -> 0 .. MaxSecret] /\ issued \in 0 .. MaxSecret
      BY <1>0 DEF TypeOK
    <3>8. QED
      BY <1>0, <3>1, <3>2, <3>6, <3>7, Assemble DEF TableIssued
  <2>4. CASE task' = [task EXCEPT ![w].op = "use", ![w].row = 0] /\ UNCHANGED rows
    <3> DEFINE t == [task[w] EXCEPT !.op = "use", !.row = 0]
    <3>1. t \in Task /\ KnowsIssued(t, issued)
      BY <2>1 DEF Task, InUse, KnowsIssued, UsesProvider
    <3>2. task' = [task EXCEPT ![w] = t] /\ UNCHANGED <<rows, issued, history>>
      BY <1>11, <2>4 DEF UpdateSave
    <3> HIDE DEF t
    <3>3. QED
      BY <3>1, <3>2, TaskIssued
  <2>5. CASE /\ task' = [task EXCEPT ![w].op = "use", ![w].row = 0, ![w].calm = FALSE]
             /\ UNCHANGED rows
    <3> DEFINE t == [task[w] EXCEPT !.op = "use", !.row = 0, !.calm = FALSE]
    <3>1. t \in Task /\ KnowsIssued(t, issued)
      BY <2>1 DEF Task, InUse, KnowsIssued, UsesProvider
    <3>2. task' = [task EXCEPT ![w] = t] /\ UNCHANGED <<rows, issued, history>>
      BY <1>11, <2>5 DEF UpdateSave
    <3> HIDE DEF t
    <3>3. QED
      BY <3>1, <3>2, TaskIssued
  <2>6. QED
    BY <1>11, <2>3, <2>4, <2>5 DEF UpdateSave
<1>12. ASSUME NEW w \in Worker, Drop(w)
       PROVE  IInv'
  BY <1>12, TaskIssued DEF Drop, Task, KnowsIssued, UsesProvider
<1>13. CASE UNCHANGED vars
  BY <1>13 DEF vars, history, IInv, TypeOK, SecretsIssued
<1>14. QED
  BY <1>1, <1>2, <1>3, <1>4, <1>5, <1>6, <1>7, <1>8, <1>9, <1>10, <1>11, <1>12,
     <1>13 DEF Next

(* The integrations of a host, the tasks that use them and the history are    *)
(* well formed in every reachable state, and no task knows credentials that   *)
(* were never put in or rotated.                                             *)
THEOREM IntegrationsTypeCorrect == Spec => [](TypeOK /\ SecretsIssued)
<1>1. Init => IInv
  <2> SUFFICES ASSUME Init PROVE IInv
    OBVIOUS
  <2>1. DOMAIN rows = {} /\ issued = 0 /\ root = << >>
    BY DEF Init
  <2>2. MaxSecret \in Nat
    BY IntegrationsAssumption DEF IntegrationsAssumption
  <2>3. TypeOK
    <3>1. << >> \in Seq(Secret) /\ Len(<< >>) = 0 /\ 0 \in 0 .. MaxSecret
      BY <2>2
    <3>2. task \in [Worker -> Lookup \cup InUse \cup Connecting \cup {Idle}]
      BY DEF Init
    <3>3. latest \in [Provider -> 0 .. MaxSecret]
      BY <3>1 DEF Init
    <3>4. operated = {} /\ current = ""
      BY DEF Init
    <3>5. QED
      BY <2>1, <3>1, <3>2, <3>3, <3>4 DEF TypeOK
  <2>4. SecretsIssued
    BY <2>1 DEF Init, SecretsIssued, KnowsIssued, UsesProvider
  <2>5. QED
    BY <2>3, <2>4 DEF IInv
<1>2. IInv <=> TypeOK /\ SecretsIssued
  BY DEF IInv
<1>3. QED
  BY <1>1, <1>2, NextIInv, PTL DEF Spec

-----------------------------------------------------------------------------
(* One calendar is active. *)

ActiveIn(t, p) == p \in DOMAIN t /\ t[p].active

(* In t, two calendars are active only if one of them is among ops. *)
OneIn(t, ops) ==
  \A p, q \in Provider :
    ActiveIn(t, p) /\ ActiveIn(t, q) /\ p # q => {p, q} \cap ops # {}

LEMMA OneActiveIn == OneActive <=> OneIn(rows, operated)
BY DEF OneActive, OneIn, Active, ActiveIn

(* After the others were switched off, one is left at the most. *)
LEMMA DeactivatedOne ==
  ASSUME NEW t, NEW p \in Provider, NEW ops, TableIssued(t, issued + 1)
  PROVE  OneIn(DeactivateOthers(t, p), ops)
<1>1. \A q \in Provider : ActiveIn(DeactivateOthers(t, p), q) => q = p
  BY DeactivateType DEF TableIssued, ActiveIn
<1>2. QED
  BY <1>1 DEF OneIn

LEMMA NextOneActive == IInv /\ OneActive /\ [Next]_vars => OneActive'
<1> SUFFICES ASSUME IInv, OneIn(rows, operated), [Next]_vars
             PROVE  OneIn(rows', operated')
  BY DEF OneActive, OneIn, Active, ActiveIn
<1>0. TypeOK /\ SecretsIssued /\ Operated \subseteq Provider /\ "msgraph" \in Provider
      /\ "microsoft" \in Provider
  BY ProviderIs, IntegrationsAssumption DEF IInv, IntegrationsAssumption
<1>1. ASSUME HandleCallback
      PROVE  OneIn(rows', operated')
  BY <1>0, <1>1, StoredIssued, DeactivatedOne DEF HandleCallback
<1>2. ASSUME NEW p \in Operated, NEW e \in BOOLEAN, SetCmd(p, e)
      PROVE  OneIn(rows', operated')
  <2>1. /\ p \in Provider /\ PutIn(p)
        /\ rows' = With(p, Stored(p, e))
        /\ operated' = IF e THEN operated \cup {p} ELSE operated \ {p}
    BY <1>0, <1>2 DEF SetCmd
  <2>2. ASSUME NEW q \in Provider, ActiveIn(rows', q)
        PROVE  IF q = p THEN e ELSE ActiveIn(rows, q)
    BY <2>1, <2>2 DEF With, Stored, ActiveIn
  <2>3. ASSUME NEW q \in Provider, NEW u \in Provider, q # u,
               ActiveIn(rows', q), ActiveIn(rows', u)
        PROVE  {q, u} \cap operated' # {}
    <3>1. CASE q = p \/ u = p
      BY <2>1, <2>2, <2>3, <3>1
    <3>2. CASE q # p /\ u # p
      BY <2>1, <2>2, <2>3, <3>2 DEF OneIn
    <3>3. QED
      BY <3>1, <3>2
  <2>4. QED
    BY <2>3 DEF OneIn
<1>3. ASSUME NEW p \in Provider, DeleteIntegration(p)
      PROVE  OneIn(rows', operated')
  <2>1. operated' = operated /\ \A q \in Provider : ActiveIn(rows', q) => ActiveIn(rows, q)
    BY <1>3 DEF DeleteIntegration, ActiveIn
  <2>2. QED
    BY <2>1 DEF OneIn
<1>4. ASSUME NEW w \in Worker, MSGraphSave(w)
      PROVE  OneIn(rows', operated')
  <2> DEFINE b == Enabled(task[w].seen)
  <2>1. CASE UNCHANGED <<rows, issued, history>>
    BY <2>1 DEF history
  <2>2. CASE rows' = DeactivateOthers(rows, "msgraph")
    <3>1. DOMAIN rows \subseteq Provider /\ \A q \in DOMAIN rows : rows[q] \in Row
      BY <1>0 DEF TypeOK
    <3>2. \A q \in Provider : ActiveIn(rows', q) => q = "msgraph"
      BY <1>0, <2>2, <3>1, DeactivateType DEF ActiveIn
    <3>3. QED
      BY <3>2 DEF OneIn
  <2>3. CASE rows' = DeactivateOthers(With("msgraph", Stored("msgraph", b)), "msgraph")
    <3> DEFINE t == With("msgraph", Stored("msgraph", b))
    <3>1. ASSUME NEW q \in DOMAIN rows', q # "msgraph"
          PROVE  ~ rows'[q].active
      <4>1. q \in DOMAIN t /\ rows'[q] = [t[q] EXCEPT !.active = @ /\ q = "msgraph"]
        BY <2>3, <3>1 DEF DeactivateOthers
      <4>2. q \in DOMAIN rows /\ t[q] = rows[q]
        BY <3>1, <4>1 DEF With
      <4>3. rows[q] \in Row
        BY <1>0, <4>2 DEF TypeOK
      <4> HIDE DEF t
      <4>4. QED
        BY <3>1, <4>1, <4>2, <4>3 DEF Row
    <3>2. \A q \in Provider : ActiveIn(rows', q) => q = "msgraph"
      BY <3>1 DEF ActiveIn
    <3>3. QED
      BY <3>2 DEF OneIn
  <2>4. QED
    BY <1>4, <2>1, <2>2, <2>3 DEF MSGraphSave
<1>5. ASSUME NEW w \in Worker, UpdateSave(w)
      PROVE  OneIn(rows', operated')
  <2>1. operated' = operated /\ DOMAIN rows' = DOMAIN rows
        /\ \A q \in DOMAIN rows : rows'[q].active = rows[q].active
    <3>1. \A q \in DOMAIN rows : rows[q] \in Row
      BY <1>0 DEF TypeOK
    <3>2. operated' = operated
      BY <1>5 DEF UpdateSave, history
    <3>3. \/ UNCHANGED rows
          \/ rows' = [rows EXCEPT !["microsoft"].secret = task[w].secret]
      BY <1>5 DEF UpdateSave
    <3>4. QED
      BY <3>1, <3>2, <3>3 DEF Row
  <2>2. QED
    BY <2>1 DEF OneIn, ActiveIn
<1>6. QED
  BY <1>1, <1>2, <1>3, <1>4, <1>5 DEF Next, vars, history, MSGraphRead,
     CalendarForHost, FindIntegrationCredentials, LoadIntegration, AccessToken,
     UpdateFind, Drop

(* Two calendars of a host are active only if the operator switched one of    *)
(* them on: no order of connections, of which some save what they read        *)
(* before, leaves two (store.go, DeactivateOtherCalendarIntegrations).        *)
THEOREM OneCalendarActive == Spec => []OneActive
<1>1. Init => OneActive
  BY DEF Init, OneActive, Active
<1>2. IInv <=> TypeOK /\ SecretsIssued
  BY DEF IInv
<1>3. QED
  BY <1>1, <1>2, NextOneActive, IntegrationsTypeCorrect, PTL DEF Spec

-----------------------------------------------------------------------------
(* A reconnect is not written over. *)

RootInv == IInv /\ SameRoot /\ ReconnectKept

(* Roots given out stay as they are. *)
RootsKept == issued' >= issued /\ \A s \in 1 .. issued : root'[s] = root[s]

LEMMA NextRoots == IInv /\ [Next]_vars => RootsKept
<1> SUFFICES ASSUME IInv, [Next]_vars PROVE RootsKept
  OBVIOUS
<1>1. TypeOK /\ issued \in Nat
  BY SecretIsNat DEF IInv
<1>2. CASE UNCHANGED <<issued, root>>
  BY <1>1, <1>2 DEF RootsKept
<1>3. ASSUME NEW p \in Provider, PutIn(p)
      PROVE  RootsKept
  BY <1>1, <1>3, PutInType DEF RootsKept
<1>4. ASSUME NEW w \in Worker, AccessToken(w)
      PROVE  RootsKept
  <2>1. root \in Seq(Secret) /\ Len(root) = issued
    BY <1>1 DEF TypeOK
  <2>2. issued' = issued + 1 /\ root' = Append(root, root[task[w].secret])
    BY <1>4 DEF AccessToken
  <2>3. QED
    BY <1>1, <2>1, <2>2 DEF RootsKept
<1>5. "msgraph" \in Provider /\ "microsoft" \in Provider /\ Operated \subseteq Provider
  BY ProviderIs, IntegrationsAssumption DEF IntegrationsAssumption
<1>6. QED
  BY <1>2, <1>3, <1>4, <1>5 DEF Next, vars, history, HandleCallback, SetCmd,
     DeleteIntegration, MSGraphRead, MSGraphSave, CalendarForHost,
     FindIntegrationCredentials, LoadIntegration, UpdateFind, UpdateSave, Drop

(* A task that uses a provider knows credentials that have a root. *)
LEMMA UserKnows ==
  ASSUME IInv, NEW w \in Worker, UsesProvider(task[w])
  PROVE  /\ task[w] \in InUse /\ issued \in Nat
         /\ task[w].secret \in 1 .. issued /\ task[w].stored \in 1 .. issued
<1>1. TypeOK /\ KnowsIssued(task[w], issued) /\ issued \in Nat /\ MaxSecret \in Nat
  BY SecretIsNat, IntegrationsAssumption DEF IInv, SecretsIssued, IntegrationsAssumption
<1>2. task[w] \in InUse
  BY <1>1 DEF TypeOK, UsesProvider, Lookup, Connecting
<1>3. task[w].secret \in 1 .. MaxSecret /\ task[w].stored \in 1 .. MaxSecret
  BY <1>2 DEF InUse, Secret
<1>4. task[w].secret <= issued /\ task[w].stored <= issued
  BY <1>1 DEF KnowsIssued
<1>5. issued \in Nat
  BY <1>1
<1>6. QED
  BY <1>2, <1>3, <1>4, <1>5

(* What w knows after a step, it knew before, or it has it from a root. *)
Derived(w) ==
  UsesProvider(task'[w]) =>
    \/ task'[w].secret = task'[w].stored
    \/ /\ UsesProvider(task[w])
       /\ task'[w].stored = task[w].stored
       /\ \/ task'[w].secret = task[w].secret
          \/ root'[task'[w].secret] = root[task[w].secret]

LEMMA DerivedSameRoot ==
  ASSUME IInv, SameRoot, [Next]_vars, \A w \in Worker : Derived(w)
  PROVE  SameRoot'
<1> SUFFICES ASSUME NEW w \in Worker, UsesProvider(task'[w])
             PROVE  root'[task'[w].secret] = root'[task'[w].stored]
  BY DEF SameRoot, UsesProvider
<1>1. CASE task'[w].secret = task'[w].stored
  BY <1>1
<1>2. CASE task'[w].secret # task'[w].stored
  <2>1. /\ UsesProvider(task[w])
        /\ task'[w].stored = task[w].stored
        /\ \/ task'[w].secret = task[w].secret
           \/ root'[task'[w].secret] = root[task[w].secret]
    BY <1>2 DEF Derived
  <2>2. /\ root[task[w].secret] = root[task[w].stored]
        /\ root'[task[w].stored] = root[task[w].stored]
        /\ root'[task[w].secret] = root[task[w].secret]
    BY <2>1, UserKnows, NextRoots DEF SameRoot, RootsKept
  <2>3. QED
    BY <2>1, <2>2
<1>3. QED
  BY <1>1, <1>2

LEMMA NextSameRoot == IInv /\ SameRoot /\ [Next]_vars => SameRoot'
<1> SUFFICES ASSUME IInv, SameRoot, [Next]_vars, NEW v \in Worker
             PROVE  Derived(v)
  BY DerivedSameRoot
<1>0. TypeOK /\ task[v] \in Task /\ task \in [Worker -> Task]
  BY DEF IInv, TypeOK, Task
<1>1. ASSUME NEW u, task'[v] = Disturbed(u)[v]
      PROVE  Derived(v)
  BY <1>0, <1>1, DisturbedTask DEF Derived, UsesProvider
<1>2. CASE task'[v] = task[v] \/ task'[v] = Idle
  BY <1>2 DEF Derived, UsesProvider
<1>3. ASSUME NEW w \in Worker,
             \/ MSGraphRead(w) \/ MSGraphSave(w) \/ CalendarForHost(w)
             \/ FindIntegrationCredentials(w) \/ Drop(w)
      PROVE  Derived(v)
  <2>1. CASE v # w
    <3>1. task'[v] = task[v] \/ task'[v] = Disturbed(w)[v]
      BY <1>0, <1>3, <2>1 DEF MSGraphRead, MSGraphSave, CalendarForHost,
         FindIntegrationCredentials, Drop, Disturbed
    <3>2. QED
      BY <1>1, <1>2, <3>1
  <2>2. CASE v = w /\ (MSGraphRead(w) \/ CalendarForHost(w))
    BY <1>0, <2>2 DEF MSGraphRead, CalendarForHost, Derived, UsesProvider
  <2>3. CASE v = w /\ (MSGraphSave(w) \/ Drop(w))
    <3>1. task'[v] = Idle
      BY <1>0, <2>3 DEF MSGraphSave, Drop, Disturbed
    <3>2. QED
      BY <1>2, <3>1
  <2>4. CASE v = w /\ FindIntegrationCredentials(w)
    <3>1. task[v] \in Lookup
      BY <1>0, <2>4 DEF FindIntegrationCredentials, Task, InUse, Connecting
    <3>2. task'[v].op = "lookup"
      BY <1>0, <2>4, <3>1 DEF FindIntegrationCredentials, Lookup
    <3>3. QED
      BY <3>2 DEF Derived, UsesProvider
  <2>5. QED
    BY <1>3, <2>1, <2>2, <2>3, <2>4
<1>4. ASSUME NEW w \in Worker, LoadIntegration(w)
      PROVE  Derived(v)
  <2>1. CASE v # w
    BY <1>0, <1>2, <1>4, <2>1 DEF LoadIntegration
  <2>2. CASE v = w
    <3>1. task'[v] = Idle \/ task'[v].secret = task'[v].stored
      BY <1>0, <1>4, <2>2 DEF LoadIntegration
    <3>2. QED
      BY <1>2, <3>1 DEF Derived
  <2>3. QED
    BY <2>1, <2>2
<1>5. ASSUME NEW w \in Worker, AccessToken(w)
      PROVE  Derived(v)
  <2>1. CASE v # w
    BY <1>0, <1>2, <1>5, <2>1 DEF AccessToken
  <2>2. CASE v = w
    <3>1. UsesProvider(task[v])
      BY <1>5, <2>2 DEF AccessToken, At, UsesProvider
    <3>2. task[v] \in InUse
      BY <3>1, UserKnows
    <3>3. task'[v] = [task[v] EXCEPT !.secret = issued + 1, !.op = "find"]
      BY <1>0, <1>5, <2>2 DEF AccessToken
    <3>4. task'[v].secret = issued + 1 /\ task'[v].stored = task[v].stored
      BY <3>2, <3>3 DEF InUse
    <3>5. root'[issued + 1] = root[task[v].secret]
      <4>1. root \in Seq(Secret) /\ Len(root) = issued
        BY <1>0 DEF TypeOK
      <4>2. root' = Append(root, root[task[v].secret])
        BY <1>5, <2>2 DEF AccessToken
      <4>3. QED
        BY <4>1, <4>2
    <3>6. QED
      BY <3>1, <3>4, <3>5 DEF Derived
  <2>3. QED
    BY <2>1, <2>2
<1>6. ASSUME NEW w \in Worker, UpdateFind(w)
      PROVE  Derived(v)
  <2>1. CASE v # w
    BY <1>0, <1>2, <1>6, <2>1 DEF UpdateFind
  <2>2. CASE v = w
    <3>1. UsesProvider(task[v])
      BY <1>6, <2>2 DEF UpdateFind, At, UsesProvider
    <3>2. task[v] \in InUse
      BY <3>1, UserKnows
    <3>3. task'[v].secret = task[v].secret /\ task'[v].stored = task[v].stored
      BY <1>0, <1>6, <2>2, <3>2 DEF UpdateFind, InUse
    <3>4. QED
      BY <3>1, <3>3 DEF Derived
  <2>3. QED
    BY <2>1, <2>2
<1>7. ASSUME NEW w \in Worker, UpdateSave(w)
      PROVE  Derived(v)
  <2>1. CASE v # w
    <3>1. task'[v] = task[v] \/ task'[v] = Disturbed(w)[v]
      BY <1>0, <1>7, <2>1 DEF UpdateSave, Disturbed
    <3>2. QED
      BY <1>1, <1>2, <3>1
  <2>2. CASE v = w
    <3>1. UsesProvider(task[v])
      BY <1>7, <2>2 DEF UpdateSave, At, UsesProvider
    <3>2. task[v] \in InUse
      BY <3>1, UserKnows
    <3>3. Disturbed(v)[v] = task[v] /\ Disturbed(v) \in [Worker -> Task]
      BY DisturbedIssued DEF Disturbed
    <3>4. \/ task'[v] = [task[v] EXCEPT !.op = "use", !.row = 0,
                                        !.stored = task[v].secret]
          \/ task'[v] = [task[v] EXCEPT !.op = "use", !.row = 0]
          \/ task'[v] = [task[v] EXCEPT !.op = "use", !.row = 0, !.calm = FALSE]
      BY <1>0, <1>7, <2>2, <3>3 DEF UpdateSave
    <3>5. /\ task'[v].secret = task[v].secret
          /\ task'[v].stored \in { task[v].secret, task[v].stored }
      BY <3>2, <3>4 DEF InUse
    <3>6. QED
      BY <3>1, <3>5 DEF Derived
  <2>3. QED
    BY <2>1, <2>2
<1>8. CASE \/ HandleCallback
           \/ \E p \in Operated, enable \in BOOLEAN : SetCmd(p, enable)
           \/ \E p \in Provider : DeleteIntegration(p)
  BY <1>1, <1>8 DEF HandleCallback, SetCmd, DeleteIntegration
<1>9. CASE UNCHANGED vars
  BY <1>2, <1>9 DEF vars
<1>10. QED
  BY <1>3, <1>4, <1>5, <1>6, <1>7, <1>8, <1>9 DEF Next

LEMMA NextReconnect == RootInv /\ [Next]_vars => ReconnectKept'
<1> SUFFICES ASSUME RootInv, [Next]_vars, NEW q \in DOMAIN rows'
             PROVE  root'[rows'[q].secret] = latest'[q]
  BY DEF ReconnectKept
<1>0. IInv /\ TypeOK /\ SecretsIssued /\ SameRoot /\ ReconnectKept
  BY DEF RootInv, IInv
<1>1. \A p \in DOMAIN rows : /\ p \in Provider /\ rows[p] \in Row
                             /\ rows[p].secret \in 1 .. issued
                             /\ root'[rows[p].secret] = latest[p]
  <2>1. ASSUME NEW p \in DOMAIN rows
        PROVE  p \in Provider /\ rows[p] \in Row /\ rows[p].secret \in 1 .. issued
    <3>1. MaxSecret \in Nat /\ issued \in Nat
      BY <1>0, SecretIsNat, IntegrationsAssumption DEF IntegrationsAssumption
    <3>2. p \in Provider /\ rows[p] \in Row /\ rows[p].secret <= issued
      BY <1>0 DEF TypeOK, SecretsIssued
    <3>3. rows[p].secret \in 1 .. MaxSecret
      BY <3>2 DEF Row, Secret
    <3>4. QED
      BY <3>1, <3>2, <3>3
  <2>2. QED
    BY <1>0, <2>1, NextRoots DEF RootsKept, ReconnectKept
(* A row kept as it was, but for its flag. *)
<1>2. CASE q \in DOMAIN rows /\ rows'[q].secret = rows[q].secret /\ latest'[q] = latest[q]
  BY <1>1, <1>2
(* Or one with the credentials just put in. *)
<1>3. ASSUME NEW p \in Provider, NEW b, PutIn(p),
             rows' \in { With(p, Stored(p, b)),
                         DeactivateOthers(With(p, Stored(p, b)), p) }
      PROVE  root'[rows'[q].secret] = latest'[q]
  <2> DEFINE t == With(p, Stored(p, b))
  <2>1. \A u \in DOMAIN t : t[u] = IF u = p THEN Stored(p, b) ELSE rows[u]
    BY DEF With
  <2>2. DOMAIN t = DOMAIN rows \cup {p}
    BY DEF With
  <2> HIDE DEF t
  <2>3. q \in DOMAIN t
    BY <1>3 DEF DeactivateOthers, t
  <2>4. rows'[q] = t[q] \/ rows'[q] = [t[q] EXCEPT !.active = @ /\ q = p]
    BY <1>3, <2>3 DEF DeactivateOthers, t
  <2>5. rows'[q].secret = t[q].secret
    <3>1. CASE q = p
      BY <2>1, <2>3, <2>4, <3>1 DEF Stored
    <3>2. CASE q # p
      <4>1. t[q] = rows[q] /\ rows[q] \in Row
        BY <1>1, <2>1, <2>2, <2>3, <3>2
      <4>2. QED
        BY <2>4, <4>1 DEF Row
    <3>3. QED
      BY <3>1, <3>2
  <2>6. CASE q = p
    <3>1. rows'[q].secret = issued + 1
      BY <2>1, <2>3, <2>5, <2>6 DEF Stored
    <3>2. latest'[q] = issued + 1 /\ root'[issued + 1] = issued + 1
      BY <1>0, <1>3, <2>6, PutInType DEF TypeOK
    <3>3. QED
      BY <3>1, <3>2
  <2>7. CASE q # p
    <3>1. q \in DOMAIN rows /\ rows'[q].secret = rows[q].secret
      BY <2>1, <2>2, <2>3, <2>5, <2>7
    <3>2. latest'[q] = latest[q]
      BY <1>0, <1>1, <1>3, <2>7, <3>1, PutInType DEF TypeOK
    <3>3. QED
      BY <1>2, <3>1, <3>2
  <2>8. QED
    BY <2>6, <2>7
<1>4. CASE HandleCallback
  BY <1>3, <1>4, ProviderIs DEF HandleCallback
<1>5. ASSUME NEW p \in Operated, NEW e \in BOOLEAN, SetCmd(p, e)
      PROVE  root'[rows'[q].secret] = latest'[q]
  BY <1>3, <1>5, IntegrationsAssumption DEF SetCmd, IntegrationsAssumption
<1>6. ASSUME NEW p \in Provider, DeleteIntegration(p)
      PROVE  root'[rows'[q].secret] = latest'[q]
  BY <1>2, <1>6 DEF DeleteIntegration
<1>7. ASSUME NEW w \in Worker, MSGraphSave(w)
      PROVE  root'[rows'[q].secret] = latest'[q]
  <2>1. CASE UNCHANGED rows /\ UNCHANGED latest
    BY <1>2, <2>1
  <2>2. CASE rows' = DeactivateOthers(rows, "msgraph") /\ UNCHANGED latest
    <3>1. q \in DOMAIN rows /\ rows'[q] = [rows[q] EXCEPT !.active = @ /\ q = "msgraph"]
      BY <2>2 DEF DeactivateOthers
    <3>2. rows'[q].secret = rows[q].secret
      BY <1>1, <3>1 DEF Row
    <3>3. QED
      BY <1>2, <2>2, <3>1, <3>2
  <2>3. CASE /\ PutIn("msgraph")
             /\ rows' = DeactivateOthers(With("msgraph",
                          Stored("msgraph", Enabled(task[w].seen))), "msgraph")
    BY <1>3, <2>3, ProviderIs
  <2>4. QED
    BY <1>7, <2>1, <2>2, <2>3 DEF MSGraphSave, history
(* The compare-and-set: what is written has the root of what it replaces. *)
<1>8. ASSUME NEW w \in Worker, UpdateSave(w)
      PROVE  root'[rows'[q].secret] = latest'[q]
  <2>1. latest' = latest /\ root' = root
    BY <1>8 DEF UpdateSave, history
  <2>2. CASE UNCHANGED rows
    BY <1>2, <2>1, <2>2
  <2>3. CASE /\ Holds(task[w])
             /\ rows' = [rows EXCEPT !["microsoft"].secret = task[w].secret]
    <3>1. root[task[w].secret] = root[task[w].stored]
      BY <1>0, <1>8 DEF UpdateSave, At, UsesProvider, SameRoot
    <3>2. "microsoft" \in DOMAIN rows /\ rows["microsoft"].secret = task[w].stored
      BY <2>3 DEF Holds
    <3>3. q \in DOMAIN rows /\ rows[q] \in Row
      BY <1>1, <2>3
    <3>4. CASE q = "microsoft"
      <4>1. rows'[q].secret = task[w].secret
        BY <2>3, <3>3, <3>4 DEF Row
      <4>2. QED
        BY <1>1, <2>1, <3>1, <3>2, <3>4, <4>1
    <3>5. CASE q # "microsoft"
      BY <1>2, <2>1, <2>3, <3>3, <3>5
    <3>6. QED
      BY <3>4, <3>5
  <2>4. QED
    BY <1>8, <2>2, <2>3 DEF UpdateSave
<1>9. CASE UNCHANGED rows /\ UNCHANGED latest
  BY <1>2, <1>9
<1>10. QED
  BY <1>4, <1>5, <1>6, <1>7, <1>8, <1>9 DEF Next, vars, history, MSGraphRead,
     CalendarForHost, FindIntegrationCredentials, LoadIntegration, AccessToken,
     UpdateFind, Drop

(* Credentials that a host or the operator put in are replaced only by such   *)
(* as were rotated from them: the compare-and-set keeps a provider made       *)
(* before a reconnect from writing its own back (store.go,                    *)
(* UpdateIntegrationCredentials).                                            *)
THEOREM ReconnectNotOverwritten == Spec => []ReconnectKept
<1>1. Init => SameRoot /\ ReconnectKept
  BY DEF Init, SameRoot, UsesProvider, ReconnectKept
<1>2. IInv <=> TypeOK /\ SecretsIssued
  BY DEF IInv
<1>3. IInv /\ SameRoot /\ ReconnectKept /\ [Next]_vars => SameRoot' /\ ReconnectKept'
  BY NextSameRoot, NextReconnect DEF RootInv
<1>4. QED
  BY <1>1, <1>2, <1>3, IntegrationsTypeCorrect, PTL DEF Spec

-----------------------------------------------------------------------------
(* What a task no one interferes with knows of the table. *)

SeenIn(t) == { [id |-> t[p].id, active |-> t[p].active] :
                 p \in (DOMAIN t) \cap {"msgraph"} }

(* What a lookup finds among the first candidates, those before n. *)
FoundIn(t, n) ==
  { [provider |-> p, secret |-> t[p].secret] :
      p \in { q \in Provider : ActiveIn(t, q) /\ \E i \in 1 .. 4 : i < n /\ q = Candidates[i] } }

MicrosoftHolds(t, secret) ==
  ActiveIn(t, "microsoft") /\ t["microsoft"].secret = secret

Knows(k, t) ==
  /\ k.op = "connect" => k.seen = SeenIn(t)
  /\ k.op = "lookup" => k.found = FoundIn(t, k.next)
  /\ UsesProvider(k) =>
       /\ MicrosoftHolds(t, k.stored)
       /\ k.op = "use" => k.secret = k.stored
       /\ k.op = "save" => k.row = t["microsoft"].id

CalmKnows == \A w \in Worker : task[w] # Idle /\ task[w].calm => Knows(task[w], rows)

(* The others are not calm after the table was changed. *)
LEMMA DisturbedNotCalm ==
  ASSUME TypeOK, NEW u, NEW v \in Worker, v # u, Disturbed(u)[v] # Idle
  PROVE  ~ Disturbed(u)[v].calm
<1>1. task[v] \in Task /\ task[v] # Idle
  BY DEF TypeOK, Task, Disturbed
<1>2. Disturbed(u)[v] = [task[v] EXCEPT !.calm = FALSE]
  BY <1>1 DEF Disturbed
<1>3. CASE task[v] \in Lookup
  BY <1>2, <1>3 DEF Lookup
<1>4. CASE task[v] \in InUse
  BY <1>2, <1>4 DEF InUse
<1>5. CASE task[v] \in Connecting
  BY <1>2, <1>5 DEF Connecting
<1>6. QED
  BY <1>1, <1>3, <1>4, <1>5 DEF Task

(* A task that takes a step of its own and leaves the table alone. *)
LEMMA KnowsAlone ==
  ASSUME TypeOK, CalmKnows, NEW w \in Worker, UNCHANGED rows,
         \A v \in Worker : v # w => task'[v] = task[v],
         task'[w] # Idle /\ task'[w].calm => Knows(task'[w], rows)
  PROVE  CalmKnows'
BY DEF CalmKnows

(* One that changes the table, after which the others are not calm. *)
LEMMA KnowsOthers ==
  ASSUME TypeOK, NEW u,
         \A v \in Worker : v # u => task'[v] = Disturbed(u)[v],
         u \in Worker => (task'[u] # Idle /\ task'[u].calm => Knows(task'[u], rows'))
  PROVE  CalmKnows'
<1> SUFFICES ASSUME NEW v \in Worker, task'[v] # Idle, task'[v].calm
             PROVE  Knows(task'[v], rows')
  BY DEF CalmKnows
<1>1. CASE v = u
  BY <1>1
<1>2. CASE v # u
  BY <1>2, DisturbedNotCalm
<1>3. QED
  BY <1>1, <1>2

(* A lookup that has asked for one more candidate. *)
LEMMA FoundNext ==
  ASSUME NEW t, NEW n \in 1 .. 4
  PROVE  FoundIn(t, n + 1) =
           FoundIn(t, n) \cup { [provider |-> q, secret |-> t[q].secret] :
                                  q \in { r \in {Candidates[n]} : ActiveIn(t, r) } }
<1>1. Candidates[n] \in Provider
  BY DEF Provider, Candidates
<1> DEFINE P(m) == { q \in Provider : ActiveIn(t, q)
                                      /\ \E i \in 1 .. 4 : i < m /\ q = Candidates[i] }
           R == { r \in {Candidates[n]} : ActiveIn(t, r) }
<1>2. \A i \in 1 .. 4 : i < n + 1 <=> i < n \/ i = n
  OBVIOUS
<1>3. P(n + 1) = P(n) \cup R
  BY <1>1, <1>2
<1> HIDE DEF R, P
<1>4. { [provider |-> p, secret |-> t[p].secret] : p \in P(n + 1) }
        = { [provider |-> p, secret |-> t[p].secret] : p \in P(n) }
          \cup { [provider |-> p, secret |-> t[p].secret] : p \in R }
  BY <1>3
<1>5. QED
  BY <1>4 DEF P, R, FoundIn

(* A lookup has found nothing before it asked, and all that is active once it *)
(* has asked for all.                                                        *)
LEMMA FoundFirst == ASSUME NEW t PROVE FoundIn(t, 1) = {}
<1>1. \A i \in 1 .. 4 : ~ (i < 1)
  OBVIOUS
<1>2. QED
  BY <1>1 DEF FoundIn

LEMMA FoundAll ==
  ASSUME NEW t
  PROVE  FoundIn(t, 5) = { [provider |-> p, secret |-> t[p].secret] :
                             p \in { q \in Provider : ActiveIn(t, q) } }
<1>1. \A q \in Provider : \E i \in 1 .. 4 : i < 5 /\ q = Candidates[i]
  BY DEF Provider, Candidates
<1>2. { q \in Provider : ActiveIn(t, q) /\ \E i \in 1 .. 4 : i < 5 /\ q = Candidates[i] }
        = { q \in Provider : ActiveIn(t, q) }
  BY <1>1
<1>3. QED
  BY <1>2 DEF FoundIn

LEMMA KnowsRead ==
  ASSUME TypeOK, CalmKnows, NEW w \in Worker, MSGraphRead(w)
  PROVE  CalmKnows'
<1>1. task[w] = Idle /\ UNCHANGED rows /\ task \in [Worker -> Task]
  BY DEF MSGraphRead, TypeOK, Task
<1>2. task' = [task EXCEPT ![w] = [op |-> "connect", calm |-> TRUE, seen |-> SeenIn(rows)]]
  BY DEF MSGraphRead, SeenIn
<1>3. task'[w] = [op |-> "connect", calm |-> TRUE, seen |-> SeenIn(rows)]
  BY <1>1, <1>2
<1>4. Knows(task'[w], rows)
  BY <1>3 DEF Knows, UsesProvider
<1>5. QED
  BY <1>1, <1>2, <1>4, KnowsAlone

LEMMA KnowsLookup ==
  ASSUME TypeOK, CalmKnows, NEW w \in Worker,
         CalendarForHost(w) \/ FindIntegrationCredentials(w)
  PROVE  CalmKnows'
<1>1. UNCHANGED rows /\ task \in [Worker -> Task]
  BY DEF CalendarForHost, FindIntegrationCredentials, TypeOK, Task
<1>2. CASE CalendarForHost(w)
  <2>1. task' = [task EXCEPT ![w] = [op |-> "lookup", next |-> 1, found |-> {}, calm |-> TRUE]]
    BY <1>2 DEF CalendarForHost
  <2>2. task'[w] = [op |-> "lookup", next |-> 1, found |-> {}, calm |-> TRUE]
    BY <1>1, <2>1
  <2>3. Knows(task'[w], rows)
    BY <2>2, FoundFirst DEF Knows, UsesProvider
  <2>4. QED
    BY <1>1, <2>1, <2>3, KnowsAlone
<1>3. CASE FindIntegrationCredentials(w)
  <2> DEFINE more == { [provider |-> q, secret |-> rows[q].secret] :
                         q \in { r \in {Candidates[task[w].next]} : ActiveIn(rows, r) } }
  <2>1. /\ task[w] \in Lookup /\ task[w] # Idle /\ task[w].next \in 1 .. 4
        /\ task[w].op = "lookup"
    BY <1>1, <1>3 DEF FindIntegrationCredentials, Task, Lookup, InUse, Connecting, Candidates
  <2>2. task' = [task EXCEPT ![w] = [task[w] EXCEPT !.next = @ + 1, !.found = @ \cup more]]
    BY <1>3 DEF FindIntegrationCredentials, Active, ActiveIn
  <2>3. FoundIn(rows, task[w].next + 1) = FoundIn(rows, task[w].next) \cup more
    BY <2>1, FoundNext
  <2> HIDE DEF more
  <2>4. task'[w] = [task[w] EXCEPT !.next = @ + 1, !.found = @ \cup more]
    BY <1>1, <2>2
  <2>5. /\ task'[w].op = "lookup" /\ task'[w].calm = task[w].calm
        /\ task'[w].next = task[w].next + 1 /\ task'[w].found = task[w].found \cup more
    BY <2>1, <2>4 DEF Lookup
  <2>6. task[w].calm => task[w].found = FoundIn(rows, task[w].next)
    BY <2>1 DEF CalmKnows, Knows
  <2>7. task'[w].calm => Knows(task'[w], rows)
    BY <2>3, <2>5, <2>6 DEF Knows, UsesProvider
  <2>8. QED
    BY <1>1, <2>2, <2>7, KnowsAlone
<1>4. QED
  BY <1>2, <1>3

LEMMA KnowsLoad ==
  ASSUME TypeOK, CalmKnows, NEW w \in Worker, LoadIntegration(w)
  PROVE  CalmKnows'
<1>1. UNCHANGED rows /\ task \in [Worker -> Task]
  BY DEF LoadIntegration, TypeOK, Task
<1>2. CASE task' = [task EXCEPT ![w] = Idle]
  BY <1>1, <1>2, KnowsAlone
<1>3. CASE { f.provider : f \in task[w].found } = {"microsoft"}
  <2>1. PICK f \in task[w].found :
          task' = [task EXCEPT ![w] = [ op |-> "use", secret |-> f.secret,
                     stored |-> f.secret, row |-> 0, calm |-> task[w].calm ]]
    <3>1. \E f \in task[w].found : TRUE
      BY <1>3
    <3>2. (CHOOSE f \in task[w].found : TRUE) \in task[w].found
      BY <3>1
    <3>3. QED
      BY <1>3, <3>2 DEF LoadIntegration
  <2>2. f.provider = "microsoft"
    BY <1>3
  <2>3. /\ task[w] \in Lookup /\ task[w] # Idle /\ task[w].next = 5
        /\ task[w].op = "lookup"
    BY <1>1 DEF LoadIntegration, Task, Lookup, InUse, Connecting, Candidates
  <2>4. task'[w] = [ op |-> "use", secret |-> f.secret,
                     stored |-> f.secret, row |-> 0, calm |-> task[w].calm ]
    BY <1>1, <2>1
  <2>5. ASSUME task[w].calm PROVE MicrosoftHolds(rows, f.secret)
    <3>1. f \in FoundIn(rows, 5)
      BY <2>1, <2>3, <2>5 DEF CalmKnows, Knows
    <3>2. PICK p \in Provider : /\ ActiveIn(rows, p)
                                /\ f = [provider |-> p, secret |-> rows[p].secret]
      BY <3>1 DEF FoundIn
    <3>3. QED
      BY <2>2, <3>2 DEF MicrosoftHolds
  <2>6. task'[w].calm => Knows(task'[w], rows)
    BY <2>4, <2>5 DEF Knows, UsesProvider
  <2>7. QED
    BY <1>1, <2>1, <2>6, KnowsAlone
<1>4. QED
  BY <1>2, <1>3 DEF LoadIntegration

LEMMA KnowsUse ==
  ASSUME IInv, CalmKnows, NEW w \in Worker, AccessToken(w) \/ UpdateFind(w) \/ UpdateSave(w)
  PROVE  CalmKnows'
<1>1. TypeOK /\ task \in [Worker -> Task] /\ \A p \in DOMAIN rows : rows[p] \in Row
  BY DEF IInv, TypeOK, Task
<1>2. /\ UsesProvider(task[w]) /\ task[w] \in InUse
  BY UserKnows DEF AccessToken, UpdateFind, UpdateSave, At, UsesProvider
<1>3. task[w].calm =>
        /\ MicrosoftHolds(rows, task[w].stored)
        /\ task[w].op = "use" => task[w].secret = task[w].stored
        /\ task[w].op = "save" => task[w].row = rows["microsoft"].id
  BY <1>2 DEF CalmKnows, Knows, UsesProvider
<1>4. CASE AccessToken(w)
  <2>1. /\ UNCHANGED rows
        /\ task' = [task EXCEPT ![w] = [task[w] EXCEPT !.secret = issued + 1, !.op = "find"]]
    BY <1>4 DEF AccessToken
  <2>2. task'[w] = [task[w] EXCEPT !.secret = issued + 1, !.op = "find"]
    BY <1>1, <2>1
  <2>3. task'[w].op = "find" /\ task'[w].stored = task[w].stored
        /\ task'[w].calm = task[w].calm
    BY <1>2, <2>2 DEF InUse
  <2>4. task'[w].calm => Knows(task'[w], rows)
    BY <1>3, <2>3 DEF Knows
  <2>5. QED
    BY <1>1, <2>1, <2>4, KnowsAlone
<1>5. CASE UpdateFind(w)
  <2>0. UNCHANGED rows /\ task[w].op = "find"
    BY <1>5 DEF UpdateFind, At
  <2>1. CASE /\ Active("microsoft")
             /\ task' = [task EXCEPT ![w].op = "save", ![w].row = rows["microsoft"].id]
    <3>1. task' = [task EXCEPT ![w] = [task[w] EXCEPT !.op = "save",
                                                      !.row = rows["microsoft"].id]]
      BY <2>1
    <3>2. task'[w] = [task[w] EXCEPT !.op = "save", !.row = rows["microsoft"].id]
      BY <1>1, <3>1
    <3>3. /\ task'[w].op = "save" /\ task'[w].row = rows["microsoft"].id
          /\ task'[w].stored = task[w].stored /\ task'[w].calm = task[w].calm
      BY <1>2, <3>2 DEF InUse
    <3>4. task'[w].calm => Knows(task'[w], rows)
      BY <1>3, <3>3 DEF Knows
    <3>5. QED
      BY <1>1, <2>0, <3>1, <3>4, KnowsAlone
  <2>2. CASE ~ Active("microsoft") /\ task' = [task EXCEPT ![w].op = "use"]
    <3>1. task' = [task EXCEPT ![w] = [task[w] EXCEPT !.op = "use"]]
      BY <2>2
    <3>2. task'[w] = [task[w] EXCEPT !.op = "use"]
      BY <1>1, <3>1
    <3>3. task'[w].calm = task[w].calm
      BY <1>2, <3>2 DEF InUse
    <3>4. ~ task'[w].calm
      BY <1>3, <2>2, <3>3 DEF MicrosoftHolds, Active, ActiveIn
    <3>5. QED
      BY <1>1, <2>0, <3>1, <3>4, KnowsAlone
  <2>3. CASE task' = [task EXCEPT ![w].op = "use", ![w].calm = FALSE]
    <3>1. task' = [task EXCEPT ![w] = [task[w] EXCEPT !.op = "use", !.calm = FALSE]]
      BY <2>3
    <3>2. task'[w] = [task[w] EXCEPT !.op = "use", !.calm = FALSE]
      BY <1>1, <3>1
    <3>3. ~ task'[w].calm
      BY <1>2, <3>2 DEF InUse
    <3>4. QED
      BY <1>1, <2>0, <3>1, <3>3, KnowsAlone
  <2>4. QED
    BY <1>5, <2>1, <2>2, <2>3 DEF UpdateFind
<1>6. CASE UpdateSave(w)
  <2>0. task[w].op = "save"
    BY <1>6 DEF UpdateSave, At
  <2>1. CASE /\ Holds(task[w])
             /\ rows' = [rows EXCEPT !["microsoft"].secret = task[w].secret]
             /\ task' = [Disturbed(w) EXCEPT ![w].op = "use", ![w].row = 0,
                                             ![w].stored = task[w].secret]
    <3>1. Disturbed(w)[w] = task[w] /\ Disturbed(w) \in [Worker -> Task]
      BY DisturbedIssued DEF Disturbed
    <3>2. task' = [Disturbed(w) EXCEPT ![w] = [task[w] EXCEPT !.op = "use", !.row = 0,
                                                          !.stored = task[w].secret]]
      BY <2>1, <3>1
    <3>3. task'[w] = [task[w] EXCEPT !.op = "use", !.row = 0, !.stored = task[w].secret]
      BY <3>1, <3>2
    <3>4. /\ task'[w].op = "use" /\ task'[w].stored = task[w].secret
          /\ task'[w].secret = task[w].secret /\ task'[w].calm = task[w].calm
      BY <1>2, <3>3 DEF InUse
    <3>5. /\ "microsoft" \in DOMAIN rows'
          /\ rows'["microsoft"] = [rows["microsoft"] EXCEPT !.secret = task[w].secret]
          /\ rows["microsoft"] \in Row
      BY <1>1, <2>1 DEF Holds
    <3>6. /\ rows'["microsoft"].active = rows["microsoft"].active
          /\ rows'["microsoft"].secret = task[w].secret
      BY <3>5 DEF Row
    <3>7. task'[w].calm => Knows(task'[w], rows')
      BY <1>3, <3>4, <3>5, <3>6 DEF Knows, MicrosoftHolds, ActiveIn
    <3>8. \A v \in Worker : v # w => task'[v] = Disturbed(w)[v]
      BY <3>1, <3>2
    <3>9. QED
      BY <1>1, <3>7, <3>8, KnowsOthers
  <2>2. CASE /\ ~ Holds(task[w])
             /\ task' = [task EXCEPT ![w].op = "use", ![w].row = 0]
             /\ UNCHANGED rows
    <3>1. task' = [task EXCEPT ![w] = [task[w] EXCEPT !.op = "use", !.row = 0]]
      BY <2>2
    <3>2. task'[w] = [task[w] EXCEPT !.op = "use", !.row = 0]
      BY <1>1, <3>1
    <3>3. task'[w].calm = task[w].calm
      BY <1>2, <3>2 DEF InUse
    <3>4. ~ task'[w].calm
      BY <1>3, <2>0, <2>2, <3>3 DEF MicrosoftHolds, Holds, ActiveIn
    <3>5. QED
      BY <1>1, <2>2, <3>1, <3>4, KnowsAlone
  <2>3. CASE /\ task' = [task EXCEPT ![w].op = "use", ![w].row = 0, ![w].calm = FALSE]
             /\ UNCHANGED rows
    <3>1. task' = [task EXCEPT ![w] = [task[w] EXCEPT !.op = "use", !.row = 0,
                                                      !.calm = FALSE]]
      BY <2>3
    <3>2. task'[w] = [task[w] EXCEPT !.op = "use", !.row = 0, !.calm = FALSE]
      BY <1>1, <3>1
    <3>3. ~ task'[w].calm
      BY <1>2, <3>2 DEF InUse
    <3>4. QED
      BY <1>1, <2>3, <3>1, <3>3, KnowsAlone
  <2>4. QED
    BY <1>6, <2>1, <2>2, <2>3 DEF UpdateSave
<1>7. QED
  BY <1>4, <1>5, <1>6

LEMMA NextKnows == IInv /\ CalmKnows /\ [Next]_vars => CalmKnows'
<1> SUFFICES ASSUME IInv, CalmKnows, [Next]_vars PROVE CalmKnows'
  OBVIOUS
<1>1. TypeOK /\ task \in [Worker -> Task] /\ Nobody \notin Worker
  BY IntegrationsAssumption DEF IInv, TypeOK, Task, Nobody, IntegrationsAssumption
<1>2. CASE task' = Disturbed(Nobody)
  BY <1>1, <1>2, KnowsOthers
<1>3. ASSUME NEW w \in Worker, MSGraphSave(w)
      PROVE  CalmKnows'
  <2>1. CASE task' = [task EXCEPT ![w] = Idle] /\ UNCHANGED rows
    BY <1>1, <2>1, KnowsAlone
  <2>2. CASE task' = [Disturbed(w) EXCEPT ![w] = Idle]
    <3>1. Disturbed(w) \in [Worker -> Task]
      BY DisturbedIssued
    <3>2. task'[w] = Idle /\ \A v \in Worker : v # w => task'[v] = Disturbed(w)[v]
      BY <2>2, <3>1
    <3>3. QED
      BY <1>1, <3>2, KnowsOthers
  <2>3. QED
    BY <1>3, <2>1, <2>2 DEF MSGraphSave
<1>4. ASSUME NEW w \in Worker, Drop(w)
      PROVE  CalmKnows'
  BY <1>1, <1>4, KnowsAlone DEF Drop
<1>5. CASE UNCHANGED vars
  BY <1>5 DEF vars, CalmKnows
<1>6. QED
  BY <1>1, <1>2, <1>3, <1>4, <1>5, KnowsRead, KnowsLookup, KnowsLoad, KnowsUse
     DEF Next, HandleCallback, SetCmd, DeleteIntegration

LEMMA KnowsAlways == Spec => [](IInv /\ CalmKnows)
<1>1. Init => CalmKnows
  BY DEF Init, CalmKnows
<1>2. IInv <=> TypeOK /\ SecretsIssued
  BY DEF IInv
<1>3. QED
  BY <1>1, <1>2, NextKnows, IntegrationsTypeCorrect, PTL DEF Spec

(* A provider no one interferes with has its newest refresh token stored: what *)
(* it knows stored is what is stored, so the compare-and-set that follows a    *)
(* rotation succeeds (store.go, UpdateIntegrationCredentials).                *)
THEOREM RotationStored == Spec => []RotationKept
<1>1. IInv /\ CalmKnows => RotationKept
  BY DEF CalmKnows, RotationKept, At, Knows, UsesProvider, MicrosoftHolds, ActiveIn
<1>2. QED
  BY <1>1, KnowsAlways, PTL

(* A lookup no one interferes with finds the active calendars and no other    *)
(* (registry.go, loadIntegration).                                            *)
THEOREM LookupFindsActive == Spec => []LookupRight
<1>1. IInv /\ CalmKnows => LookupRight
  <2> SUFFICES ASSUME IInv, CalmKnows, NEW w \in Worker, At(w, "lookup"),
                      task[w].calm, task[w].next > Len(Candidates)
               PROVE  task[w].found = { [provider |-> p, secret |-> rows[p].secret] :
                                          p \in { q \in Provider : Active(q) } }
    BY DEF LookupRight
  <2>1. task[w] \in Lookup
    BY DEF IInv, TypeOK, At, InUse, Connecting
  <2>2. task[w].next = 5
    BY <2>1 DEF Lookup, Candidates
  <2>3. task[w].found = FoundIn(rows, 5)
    BY <2>2 DEF CalmKnows, Knows, At
  <2>4. QED
    BY <2>3, FoundAll DEF Active, ActiveIn
<1>2. QED
  BY <1>1, KnowsAlways, PTL

-----------------------------------------------------------------------------
(* The calendar connected last is active. *)

LastIn(t, last) == last # "" => ActiveIn(t, last)

(* The others are switched off after p was given new credentials: p's flag is *)
(* as it was stored.                                                         *)
LEMMA ConnectedActive ==
  ASSUME TypeOK, NEW p \in Provider, NEW b \in BOOLEAN, b, PutIn(p),
         rows' = DeactivateOthers(With(p, Stored(p, b)), p)
  PROVE  ActiveIn(rows', p)
<1> DEFINE t == With(p, Stored(p, b))
<1>1. /\ DOMAIN t \subseteq Provider /\ p \in DOMAIN t
      /\ \A q \in DOMAIN t : t[q] \in Row
      /\ t[p].active
  BY StoredType
<1> HIDE DEF t
<1>2. rows' = DeactivateOthers(t, p)
  BY DEF t
<1>3. p \in DOMAIN rows' /\ rows'[p] = [t[p] EXCEPT !.active = @ /\ p = p]
  BY <1>1, <1>2 DEF DeactivateOthers
<1>4. t[p] \in Row /\ t[p].active
  BY <1>1
<1>5. rows'[p].active
  BY <1>3, <1>4 DEF Row
<1>6. QED
  BY <1>3, <1>5 DEF ActiveIn

LEMMA NextLast ==
  IInv /\ CalmKnows /\ LastConnectedActive /\ [Next]_vars => LastConnectedActive'
<1> SUFFICES ASSUME IInv, CalmKnows, LastIn(rows, current), [Next]_vars
             PROVE  LastIn(rows', current')
  BY DEF LastConnectedActive, LastIn, Active, ActiveIn
<1>1. /\ TypeOK /\ "msgraph" \in Provider /\ "microsoft" \in Provider
      /\ task \in [Worker -> Task]
      /\ \A p \in DOMAIN rows : rows[p] \in Row
  BY ProviderIs DEF IInv, TypeOK, Task
<1>2. CASE HandleCallback
  BY <1>1, <1>2, ConnectedActive DEF HandleCallback, LastIn
<1>3. ASSUME NEW p \in Operated, NEW e \in BOOLEAN, SetCmd(p, e)
      PROVE  LastIn(rows', current')
  BY <1>3 DEF SetCmd, With, LastIn, ActiveIn
<1>4. ASSUME NEW p \in Provider, DeleteIntegration(p)
      PROVE  LastIn(rows', current')
  BY <1>4 DEF DeleteIntegration, LastIn, ActiveIn
<1>5. ASSUME NEW w \in Worker, MSGraphSave(w)
      PROVE  LastIn(rows', current')
  <2>1. CASE UNCHANGED <<rows, issued, history>>
    BY <2>1 DEF history
  <2>2. CASE current' = ""
    BY <2>2 DEF LastIn
  <2>3. CASE /\ task[w].seen = {} => "msgraph" \notin DOMAIN rows
             /\ PutIn("msgraph")
             /\ rows' = DeactivateOthers(
                  With("msgraph", Stored("msgraph", Enabled(task[w].seen))), "msgraph")
             /\ current' = "msgraph" /\ task[w].calm
    (* What was read is what is there, so the flag is or becomes TRUE. *)
    <3>1. task[w].seen = SeenIn(rows)
      BY <1>5, <2>3 DEF MSGraphSave, CalmKnows, Knows
    <3>2. Enabled(task[w].seen) = TRUE
      <4>1. CASE "msgraph" \in DOMAIN rows
        <5>1. rows["msgraph"].active \in BOOLEAN
          BY <1>1, <4>1 DEF Row
        <5>2. CASE rows["msgraph"].active
          <6>1. rows["msgraph"].active = TRUE
            BY <5>1, <5>2
          <6>2. QED
            BY <6>1 DEF Enabled
        <5>3. CASE ~ rows["msgraph"].active
          BY <3>1, <5>3 DEF Enabled, SeenIn
        <5>4. QED
          BY <5>2, <5>3
      <4>2. CASE "msgraph" \notin DOMAIN rows
        BY <3>1, <4>2 DEF Enabled, SeenIn
      <4>3. QED
        BY <4>1, <4>2
    <3>3. ActiveIn(rows', "msgraph")
      BY <1>1, <2>3, <3>2, ConnectedActive
    <3>4. QED
      BY <2>3, <3>3 DEF LastIn
  <2>4. QED
    BY <1>5, <2>1, <2>2, <2>3 DEF MSGraphSave
<1>6. ASSUME NEW w \in Worker, UpdateSave(w)
      PROVE  LastIn(rows', current')
  <2>1. current' = current
    BY <1>6 DEF UpdateSave, history
  <2>2. \/ UNCHANGED rows
        \/ rows' = [rows EXCEPT !["microsoft"].secret = task[w].secret]
    BY <1>6 DEF UpdateSave
  <2>3. DOMAIN rows' = DOMAIN rows /\ \A p \in DOMAIN rows : rows'[p].active = rows[p].active
    BY <1>1, <2>2 DEF Row
  <2>4. QED
    BY <2>1, <2>3 DEF LastIn, ActiveIn
<1>7. CASE UNCHANGED <<rows, current>>
  BY <1>7
<1>8. QED
  BY <1>2, <1>3, <1>4, <1>5, <1>6, <1>7 DEF Next, vars, history, MSGraphRead,
     CalendarForHost, FindIntegrationCredentials, LoadIntegration, AccessToken,
     UpdateFind, Drop

(* The calendar a host connected last is active, unless it was removed or set *)
(* from the command line since, or something else changed while it was being   *)
(* connected (oauth_microsoft.go, handleCallback; host.go,                    *)
(* hostCreateMSGraphIntegration).                                             *)
THEOREM LastConnectedStays == Spec => []LastConnectedActive
<1>1. Init => LastConnectedActive
  BY DEF Init, LastConnectedActive
<1>2. QED
  BY <1>1, NextLast, KnowsAlways, PTL DEF Spec

=============================================================================
