------------------------ MODULE CalendarIntegrations ------------------------
(***************************************************************************)
(* The calendar integrations of one host: how they are connected, switched  *)
(* and removed (internal/api, internal/cli), how the registry finds the one *)
(* that is active, and how a refresh token that the provider replaced is     *)
(* written back (internal/adapters, internal/store).                        *)
(*                                                                         *)
(* Credentials are numbers; every encryption gives another ciphertext, so a *)
(* number stands for a ciphertext and for the refresh token in it.  A row's  *)
(* id is the credentials it was made with.                                  *)
(***************************************************************************)
EXTENDS Integers, Sequences, FiniteSets

CONSTANTS
  Worker,     \* requests and goroutines at the same time
  Idle,       \* no task
  Operated,   \* calendars set up from the command line
  MaxSecret   \* bound: credentials ever stored or rotated

(* The calendar family, in the order in which the registry asks for it. *)
Candidates == << "msgraph", "microsoft", "nextcloud", "google" >>

Provider == { Candidates[i] : i \in DOMAIN Candidates }

ASSUME IntegrationsAssumption ==
  Operated \subseteq Provider /\ MaxSecret \in Nat /\ Idle \notin Worker

VARIABLES
  rows,       \* from the providers with an integration to its columns
  issued,     \* credentials so far: 1 .. issued
  task,       \* task[w]: what w is doing
  root,       \* history: root[s], the credentials put in that s was rotated from
  latest,     \* history: latest[p], the credentials last put in for p
  operated,   \* history: switched on by the operator, none connected since
  current     \* history: the calendar last connected, "" if undone since

history == <<root, latest, operated, current>>
vars == <<rows, issued, task, history>>

Secret == 1 .. MaxSecret

Row == [id : Secret, active : BOOLEAN, secret : Secret]

(* In every task, calm: no one else changed the table since it began, and no *)
(* call of its own failed.                                                  *)
Lookup == [op : { "lookup" }, next : 1 .. Len(Candidates) + 1,
           found : SUBSET [provider : Provider, secret : Secret], calm : BOOLEAN]

(* A provider in use, its refresh token and the credentials it knows stored; *)
(* writing a rotated token back, it has found a row or not yet.              *)
InUse == [op : { "use", "find", "save" }, secret : Secret, stored : Secret,
          row : Secret \cup {0}, calm : BOOLEAN]

Connecting == [op : { "connect" }, seen : SUBSET [id : Secret, active : BOOLEAN],
               calm : BOOLEAN]

TypeOK ==
  /\ DOMAIN rows \subseteq Provider /\ \A p \in DOMAIN rows : rows[p] \in Row
  /\ issued \in 0 .. MaxSecret
  /\ task \in [Worker -> Lookup \cup InUse \cup Connecting \cup {Idle}]
  /\ root \in Seq(Secret) /\ Len(root) = issued
  /\ latest \in [Provider -> 0 .. MaxSecret]
  /\ operated \subseteq Provider
  /\ current \in Provider \cup {""}

Init == /\ rows = [p \in {} |-> [id |-> 1, active |-> TRUE, secret |-> 1]]
        /\ issued = 0
        /\ task = [w \in Worker |-> Idle]
        /\ root = << >>
        /\ latest = [p \in Provider |-> 0]
        /\ operated = {} /\ current = ""

Active(p) == p \in DOMAIN rows /\ rows[p].active

(* The other tasks when w, or one outside the workers, changes the table. *)
Disturbed(w) ==
  [v \in Worker |-> IF v = w \/ task[v] = Idle THEN task[v]
                    ELSE [task[v] EXCEPT !.calm = FALSE]]

Nobody == Idle

(* The table with a row for p. *)
With(p, row) == [q \in (DOMAIN rows) \cup {p} |-> IF q = p THEN row ELSE rows[q]]

(* The table t with the integrations other than p switched off. *)
DeactivateOthers(t, p) == [q \in DOMAIN t |-> [t[q] EXCEPT !.active = @ /\ q = p]]

(* New credentials for p are put in, by whoever. *)
PutIn(p) == /\ issued < MaxSecret
            /\ issued' = issued + 1
            /\ root' = Append(root, issued + 1)
            /\ latest' = [latest EXCEPT ![p] = issued + 1]

(* The row of p, made now or before, with the new credentials. *)
Stored(p, active) ==
  [ id |-> IF p \in DOMAIN rows THEN rows[p].id ELSE issued + 1,
    active |-> active, secret |-> issued + 1 ]

-----------------------------------------------------------------------------
(* Connecting and removing. *)

(* Mutant: the other calendars are left as they are. *)
CallbackKeepsOthers ==
  /\ PutIn("microsoft")
  /\ rows' = With("microsoft", Stored("microsoft", TRUE))
  /\ task' = Disturbed(Nobody)
  /\ operated' = {} /\ current' = "microsoft"

(* Mutant: the provider's name is none the registry knows. *)
CallbackUnknown ==
  /\ PutIn("microsoft")
  /\ rows' = DeactivateOthers(With("outlook", Stored("outlook", TRUE)), "outlook")
  /\ task' = Disturbed(Nobody)
  /\ operated' = {} /\ current' = ""

(* handleCallback, once Microsoft has given a refresh token: one transaction. *)
HandleCallback ==
  /\ PutIn("microsoft")
  /\ rows' = DeactivateOthers(With("microsoft", Stored("microsoft", TRUE)), "microsoft")
  /\ task' = Disturbed(Nobody)
  /\ operated' = {} /\ current' = "microsoft"

(* hostCreateMSGraphIntegration looks for the row before its transaction. *)
MSGraphRead(w) ==
  /\ task[w] = Idle
  /\ task' = [task EXCEPT ![w] =
       [ op |-> "connect", calm |-> TRUE,
         seen |-> { [id |-> rows[p].id, active |-> rows[p].active] :
                      p \in (DOMAIN rows) \cap {"msgraph"} } ]]
  /\ UNCHANGED <<rows, issued, history>>

(* Mutant: an integration that was switched off stays so. *)
EnabledAsWas(seen) ==
  IF seen = {} THEN TRUE ELSE rows["msgraph"].active

(* sync_enabled is written only if it differs from what was read. *)
Enabled(seen) ==
  IF \A s \in seen : ~ s.active THEN TRUE ELSE rows["msgraph"].active

(* A row made meanwhile makes the insert fail; a row removed meanwhile is not *)
(* made again, and the update of it changes nothing.                         *)
MSGraphSave(w) ==
  LET seen == task[w].seen
      kept == \A s \in seen : "msgraph" \in DOMAIN rows /\ rows["msgraph"].id = s.id
  IN /\ task[w] # Idle /\ task[w].op = "connect"
     /\ \/ /\ seen = {} /\ "msgraph" \in DOMAIN rows
           /\ task' = [task EXCEPT ![w] = Idle]
           /\ UNCHANGED <<rows, issued, history>>
        \/ /\ seen # {} /\ ~ kept
           /\ rows' = DeactivateOthers(rows, "msgraph")
           /\ task' = [Disturbed(w) EXCEPT ![w] = Idle]
           /\ operated' = {} /\ current' = ""
           /\ UNCHANGED <<issued, root, latest>>
        \/ /\ seen = {} => "msgraph" \notin DOMAIN rows
           /\ kept
           /\ PutIn("msgraph")
           /\ rows' = DeactivateOthers(With("msgraph", Stored("msgraph", Enabled(seen))),
                                       "msgraph")
           /\ task' = [Disturbed(w) EXCEPT ![w] = Idle]
           /\ operated' = {}
           /\ current' = IF task[w].calm THEN "msgraph" ELSE ""

(* The operator's command leaves the other calendars as they are. *)
SetCmd(p, enable) ==
  /\ PutIn(p)
  /\ rows' = With(p, Stored(p, enable))
  /\ task' = Disturbed(Nobody)
  /\ operated' = IF enable THEN operated \cup {p} ELSE operated \ {p}
  /\ current' = IF current = p THEN "" ELSE current

(* By the host or from the command line. *)
DeleteIntegration(p) ==
  /\ p \in DOMAIN rows
  /\ rows' = [q \in (DOMAIN rows) \ {p} |-> rows[q]]
  /\ task' = Disturbed(Nobody)
  /\ current' = IF current = p THEN "" ELSE current
  /\ UNCHANGED <<issued, root, latest, operated>>

-----------------------------------------------------------------------------
(* CalendarForHost: one query per candidate, then the choice. *)

CalendarForHost(w) ==
  /\ task[w] = Idle
  /\ task' = [task EXCEPT ![w] = [op |-> "lookup", next |-> 1, found |-> {}, calm |-> TRUE]]
  /\ UNCHANGED <<rows, issued, history>>

(* Mutant: whether the integration is switched on is not asked. *)
FindWhetherActiveOrNot(w) ==
  LET p == Candidates[task[w].next]
  IN /\ task[w] # Idle /\ task[w].op = "lookup"
     /\ task[w].next <= Len(Candidates)
     /\ task' = [task EXCEPT ![w].next = @ + 1,
                   ![w].found = @ \cup { [provider |-> q, secret |-> rows[q].secret] :
                                           q \in (DOMAIN rows) \cap {p} }]
     /\ UNCHANGED <<rows, issued, history>>

FindIntegrationCredentials(w) ==
  LET p == Candidates[task[w].next]
  IN /\ task[w] # Idle /\ task[w].op = "lookup"
     /\ task[w].next <= Len(Candidates)
     /\ task' = [task EXCEPT ![w].next = @ + 1,
                   ![w].found = @ \cup { [provider |-> q, secret |-> rows[q].secret] :
                                           q \in { r \in {p} : Active(r) } }]
     /\ UNCHANGED <<rows, issued, history>>

(* The host has no calendar, or more than one and there is an error, or the   *)
(* provider is made.  Only Microsoft's replaces its credentials.              *)
LoadIntegration(w) ==
  LET t == task[w]
  IN /\ t # Idle /\ t.op = "lookup" /\ t.next > Len(Candidates)
     /\ task' = [task EXCEPT ![w] =
          IF { f.provider : f \in t.found } = {"microsoft"}
          THEN LET f == CHOOSE f \in t.found : TRUE
               IN [ op |-> "use", secret |-> f.secret, stored |-> f.secret,
                    row |-> 0, calm |-> t.calm ]
          ELSE Idle]
     /\ UNCHANGED <<rows, issued, history>>

At(w, op) == task[w] # Idle /\ task[w].op = op

(* accessToken: the refresh token was replaced. *)
AccessToken(w) ==
  /\ At(w, "use")
  /\ issued < MaxSecret
  /\ issued' = issued + 1
  /\ root' = Append(root, root[task[w].secret])
  /\ task' = [task EXCEPT ![w].secret = issued + 1, ![w].op = "find"]
  /\ UNCHANGED <<rows, latest, operated, current>>

(* UpdateIntegrationCredentials, the query: an integration that was switched  *)
(* off or removed is not written to.  This and the update may fail.           *)
UpdateFind(w) ==
  /\ At(w, "find")
  /\ \/ /\ Active("microsoft")
        /\ task' = [task EXCEPT ![w].op = "save", ![w].row = rows["microsoft"].id]
     \/ /\ ~ Active("microsoft")
        /\ task' = [task EXCEPT ![w].op = "use"]
     \/ task' = [task EXCEPT ![w].op = "use", ![w].calm = FALSE]
  /\ UNCHANGED <<rows, issued, history>>

(* Mutant: a provider overwrites what the row holds. *)
HoldsAnything(t) ==
  /\ "microsoft" \in DOMAIN rows
  /\ rows["microsoft"].id = t.row

(* Whether the row found still holds what the provider knows stored. *)
Holds(t) ==
  /\ "microsoft" \in DOMAIN rows
  /\ rows["microsoft"].id = t.row
  /\ rows["microsoft"].secret = t.stored

(* Mutant: the provider does not note what it has stored. *)
UpdateSaveForgotten(w) ==
  /\ At(w, "save")
  /\ \/ /\ Holds(task[w])
        /\ rows' = [rows EXCEPT !["microsoft"].secret = task[w].secret]
        /\ task' = [Disturbed(w) EXCEPT ![w].op = "use", ![w].row = 0]
     \/ /\ ~ Holds(task[w])
        /\ task' = [task EXCEPT ![w].op = "use", ![w].row = 0]
        /\ UNCHANGED rows
  /\ UNCHANGED <<issued, history>>

(* The compare-and-set, and what the provider makes of its result. *)
UpdateSave(w) ==
  /\ At(w, "save")
  /\ \/ /\ Holds(task[w])
        /\ rows' = [rows EXCEPT !["microsoft"].secret = task[w].secret]
        /\ task' = [Disturbed(w) EXCEPT ![w].op = "use", ![w].row = 0,
                                        ![w].stored = task[w].secret]
     \/ /\ ~ Holds(task[w])
        /\ task' = [task EXCEPT ![w].op = "use", ![w].row = 0]
        /\ UNCHANGED rows
     \/ /\ task' = [task EXCEPT ![w].op = "use", ![w].row = 0, ![w].calm = FALSE]
        /\ UNCHANGED rows
  /\ UNCHANGED <<issued, history>>

(* The provider is dropped, or the process is restarted. *)
Drop(w) ==
  /\ task[w] # Idle
  /\ task' = [task EXCEPT ![w] = Idle]
  /\ UNCHANGED <<rows, issued, history>>

-----------------------------------------------------------------------------

Next ==
  \/ HandleCallback
  \/ \E p \in Operated, enable \in BOOLEAN : SetCmd(p, enable)
  \/ \E p \in Provider : DeleteIntegration(p)
  \/ \E w \in Worker :
       \/ MSGraphRead(w) \/ MSGraphSave(w)
       \/ CalendarForHost(w) \/ FindIntegrationCredentials(w) \/ LoadIntegration(w)
       \/ AccessToken(w) \/ UpdateFind(w) \/ UpdateSave(w)
       \/ Drop(w)

Spec == Init /\ [][Next]_vars

-----------------------------------------------------------------------------
(* Properties. *)

(* Two calendars of a host are active at the same time only if the operator    *)
(* switched one of them on, whatever connections, half of them from stale      *)
(* reads, are made at the same time (store.go,                                *)
(* DeactivateOtherCalendarIntegrations; oauth_microsoft.go; host.go).          *)
OneActive ==
  \A p, q \in Provider : Active(p) /\ Active(q) /\ p # q => {p, q} \cap operated # {}

(* The calendar a host connected last is active, unless it was removed or set *)
(* from the command line since, or something else changed while it was being   *)
(* connected (oauth_microsoft.go, handleCallback; host.go,                    *)
(* hostCreateMSGraphIntegration).                                             *)
LastConnectedActive == current # "" => Active(current)

(* Credentials put in by a host or an operator are replaced only by such as    *)
(* were rotated from them: no provider made before a reconnect writes over     *)
(* them (store.go, UpdateIntegrationCredentials; registry.go,                 *)
(* CalendarForHost).                                                          *)
ReconnectKept == \A p \in DOMAIN rows : root[rows[p].secret] = latest[p]

(* A provider no one interferes with has its newest refresh token stored, each *)
(* time it was replaced (registry.go, CalendarForHost).                       *)
RotationKept ==
  \A w \in Worker :
    At(w, "use") /\ task[w].calm =>
      "microsoft" \in DOMAIN rows /\ rows["microsoft"].secret = task[w].secret

(* A lookup no one interferes with finds the active calendars and no other:   *)
(* the host's, or that there is none, or more than one (registry.go,          *)
(* loadIntegration).                                                          *)
LookupRight ==
  \A w \in Worker :
    At(w, "lookup") /\ task[w].calm /\ task[w].next > Len(Candidates) =>
      task[w].found = { [provider |-> p, secret |-> rows[p].secret] :
                          p \in { q \in Provider : Active(q) } }

=============================================================================
