----------------------------- MODULE TokensProofs -----------------------------
(***************************************************************************)
(* Proofs about ServiceTokens: no dead token is used and none reaches       *)
(* beyond its binding, for any workers, hosts, event types and grants.       *)
(*                                                                         *)
(* The argument: a token that is not good never becomes good again          *)
(* (Kept), so the verification in the handler turns away every request that *)
(* came with a dead one (Fit); what a token was issued with never changes,  *)
(* so what was within its binding stays so.                                 *)
(***************************************************************************)
EXTENDS ServiceTokens, TLAPS

Task == Call \cup Answer \cup Revoking

Bound(b) ==
  b.token # 0 =>
    /\ OfTypes(b.token, b)
    /\ grant[b.token].host # "" =>
         /\ Owner[b.type] = grant[b.token].host
         /\ b.host = grant[b.token].host \/ Pool[b.type] # { Owner[b.type] }

(* What is known of a request, apart from its type. *)
Fit(x) ==
  /\ x.token \in Issued
  /\ x.kind \in { "book", "read" } =>
       /\ x.dead => ~ Good(x.token)
       /\ x.step \notin { "limit", "verify" } => ~ x.dead
  /\ x.kind = "answer" =>
       /\ ~ x.dead
       /\ \A b \in x.rows : /\ OfTypes(x.token, b)
                             /\ grant[x.token].host \in { "", b.host }

(* What is shared. *)
World ==
  /\ now \in Time
  /\ Len(grant) <= MaxTokens /\ grant \in Seq(Grant)
  /\ DOMAIN tokens \subseteq Issued /\ \A t \in DOMAIN tokens : tokens[t] \in Row
  /\ bookings \subseteq Booking
  /\ \A b \in bookings : b.token \in Issued \cup {0} /\ Bound(b)

Tasks ==
  /\ task \in [Worker -> Task \cup {Idle}]
  /\ \A w \in Worker : task[w] # Idle => Fit(task[w])

Inv == World /\ Tasks

(* Of a step: nothing issued is changed, and nothing dead comes back. *)
Kept == \A t \in Issued : /\ t \in Issued'
                          /\ grant'[t] = grant[t]
                          /\ ~ Good(t) => ~ Good(t)'

-----------------------------------------------------------------------------

LEMMA Bounds == MaxTokens \in Nat /\ MaxNow \in Nat
  BY TokensAssumption DEF TokensAssumption

LEMMA InitInv == Init => Inv
<1> SUFFICES ASSUME Init PROVE Inv
  OBVIOUS
<1>1. /\ bookings \subseteq Booking
      /\ \A b \in bookings : b.token = 0
  BY DEF Init, Booking
<1>3. World
  <2>1. /\ now \in Time /\ Len(grant) <= MaxTokens /\ grant \in Seq(Grant)
        /\ DOMAIN tokens \subseteq Issued /\ \A t \in DOMAIN tokens : tokens[t] \in Row
    BY Bounds DEF Init, Time, Issued
  <2>2. \A b \in bookings : b.token \in Issued \cup {0} /\ Bound(b)
    BY <1>1 DEF Bound
  <2> QED BY <1>1, <2>1, <2>2 DEF World
<1>2. Tasks
  BY DEF Init, Tasks
<1> QED BY <1>2, <1>3 DEF Inv

LEMMA FitKept ==
  ASSUME Kept, NEW x, Fit(x)
  PROVE  Fit(x)'
<1>1. x.token \in Issued' /\ grant'[x.token] = grant[x.token]
  BY DEF OfTypes, Fit, Kept
<1>2. ~ Good(x.token) => ~ Good(x.token)'
  BY DEF OfTypes, Fit, Kept
<1> QED BY <1>1, <1>2 DEF OfTypes, Fit

(* A step of one request that keeps the rest. *)
LEMMA OneTask ==
  ASSUME Inv, Kept, NEW w \in Worker, NEW v,
         task' = [task EXCEPT ![w] = v],
         v = Idle \/ (v \in Task /\ Fit(v)')
  PROVE  Tasks'
<1>1. task' \in [Worker -> Task \cup {Idle}]
  BY DEF Inv, Tasks
<1>2. ASSUME NEW u \in Worker, NEW x, x = task'[u], x # Idle PROVE Fit(x)'
  <2>1. CASE u = w
    BY <1>2, <2>1 DEF Inv, Tasks
  <2>2. CASE u # w
    <3>1. x = task[u]
      BY <1>2, <2>2 DEF Inv, Tasks
    <3>2. Fit(x)
      BY <1>2, <3>1 DEF Inv, Tasks
    <3> QED BY <3>2, FitKept
  <2> QED BY <2>1, <2>2
<1>3. \A u \in Worker : (task[u] # Idle)' => Fit(task[u])'
  BY <1>2 DEF Fit, Good, Issued
<1> QED BY <1>1, <1>3 DEF Tasks, Task, Call, Answer, Revoking, Row, Time

(* A step of one request that changes nothing shared. *)
LEMMA Alone ==
  ASSUME Inv, NEW w \in Worker, NEW v,
         task' = [task EXCEPT ![w] = v],
         v = Idle \/ (v \in Task /\ Fit(v)),
         UNCHANGED <<now, tokens, grant, bookings>>
  PROVE  Inv'
<1>1. Kept
  BY DEF Kept, Good, Issued
<1>2. World'
  BY DEF Inv, World, Bound, OfTypes, Issued
<1>3. v = Idle \/ (v \in Task /\ Fit(v)')
  BY <1>1, FitKept
<1>4. Tasks'
  BY <1>1, <1>3, OneTask
<1> QED BY <1>2, <1>4 DEF Inv

-----------------------------------------------------------------------------
(* The clock and the administrator. *)

(* The requests go on as they were. *)
LEMMA AllTasks ==
  ASSUME Inv, Kept, UNCHANGED task
  PROVE  Tasks'
<1>1. ASSUME NEW u \in Worker, NEW x, x = task[u], x # Idle PROVE Fit(x)'
  BY <1>1, FitKept DEF Inv, Tasks
<1>2. \A u \in Worker : (task[u] # Idle)' => Fit(task[u])'
  BY <1>1 DEF Fit, Good, Issued
<1> QED BY <1>2 DEF Inv, Tasks, Task, Call, Answer, Revoking, Row, Time

LEMMA StepTick == ASSUME Inv, Tick PROVE Inv'
<1>1. now' = now + 1 /\ now' \in Time /\ UNCHANGED <<tokens, grant, task, bookings>>
  BY Bounds DEF Tick, Inv, World, Time
<1>2. World'
  BY <1>1 DEF Inv, World, Bound, OfTypes, Issued
<1>3. ASSUME NEW t \in Issued, ~ Good(t) PROVE ~ Good(t)'
  <2>1. grant[t] \in Grant
    BY DEF Inv, World, Issued
  <2>2. grant[t].expires \in Nat
    BY <2>1, TokensAssumption DEF TokensAssumption
  <2>3. now' <= grant[t].expires => now <= grant[t].expires
    BY <1>1, <2>2 DEF Inv, World, Time
  <2> QED BY <1>1, <1>3, <2>3 DEF Good
<1>4. Kept
  BY <1>1, <1>3 DEF Kept, Issued
<1>5. Tasks'
  BY <1>1, <1>4, AllTasks
<1> QED BY <1>2, <1>5 DEF Inv

LEMMA StepCreate == ASSUME Inv, CreateServiceToken PROVE Inv'
<1> DEFINE n == Len(grant) + 1
<1>1. PICK g \in Grant : grant' = Append(grant, g)
  BY DEF CreateServiceToken
<1>2. /\ Len(grant) < MaxTokens
      /\ tokens' = [t \in (DOMAIN tokens) \cup {n} |->
                      IF t \in DOMAIN tokens THEN tokens[t] ELSE Fresh]
      /\ UNCHANGED <<now, task, bookings>>
  BY DEF CreateServiceToken
<1>3. grant \in Seq(Grant) /\ Len(grant) \in Nat
  BY DEF Inv, World
<1>4. /\ grant' \in Seq(Grant) /\ Len(grant') = n
      /\ Issued = 1 .. Len(grant) /\ Issued' = 1 .. n
      /\ \A t \in Issued : grant'[t] = grant[t]
  BY <1>1, <1>3 DEF Issued
<1>5. n \notin Issued /\ Issued \subseteq Issued' /\ n \in Issued'
  BY <1>3, <1>4
<1>6. DOMAIN tokens \subseteq Issued
  BY DEF Inv, World
<1>7. n <= MaxTokens
  BY <1>2, <1>3, Bounds
<1>8. Fresh \in Row
  BY Bounds DEF Fresh, Row, Time
<1> HIDE DEF n
<1>9. /\ DOMAIN tokens' = (DOMAIN tokens) \cup {n}
      /\ \A t \in DOMAIN tokens' :
           tokens'[t] = IF t \in DOMAIN tokens THEN tokens[t] ELSE Fresh
  BY <1>2
<1>10. \A t \in DOMAIN tokens' : tokens'[t] \in Row
  BY <1>8, <1>9 DEF Inv, World
<1>11. Kept
  BY <1>2, <1>4, <1>5, <1>9 DEF Kept, Good
<1>12. \A b \in bookings : b.token \in Issued \cup {0} /\ Bound(b)
  BY DEF Inv, World
<1>13. \A b \in bookings : b.token \in Issued' \cup {0} /\ Bound(b)'
  BY <1>4, <1>5, <1>12 DEF Bound, OfTypes
<1>14. bookings' \subseteq Booking
  BY <1>2 DEF Inv, World
<1>15. World'
  <2>1. DOMAIN tokens' \subseteq Issued'
    BY <1>5, <1>6, <1>9
  <2>2. \A b \in bookings' : b.token \in Issued' \cup {0} /\ Bound(b)'
    BY <1>2, <1>13
  <2>3. now' \in Time
    BY <1>2 DEF Inv, World
  <2> QED BY <1>4, <1>7, <1>10, <1>14, <2>1, <2>2, <2>3 DEF World, Row, Time
<1>16. Tasks'
  BY <1>2, <1>11, AllTasks
<1> QED BY <1>15, <1>16 DEF Inv

LEMMA StepDelete == ASSUME Inv, NEW t \in Issued, DeleteServiceToken(t) PROVE Inv'
<1>1. /\ tokens' = [u \in (DOMAIN tokens) \ {t} |-> tokens[u]]
      /\ UNCHANGED <<now, grant, task, bookings>>
  BY DEF DeleteServiceToken
<1>2. Kept
  BY <1>1 DEF Kept, Good, Issued
<1>3. World'
  BY <1>1 DEF Inv, World, Bound, OfTypes, Issued
<1>4. Tasks'
  BY <1>1, <1>2, AllTasks
<1> QED BY <1>3, <1>4 DEF Inv

(* A step that changes what the tokens' rows say and one request, and makes no *)
(* dead token good.                                                          *)
LEMMA Marked ==
  ASSUME Inv, NEW w \in Worker, NEW v,
         DOMAIN tokens' = DOMAIN tokens,
         \A t \in DOMAIN tokens : tokens'[t] \in Row,
         \A t \in DOMAIN tokens : tokens[t].revoked => tokens'[t].revoked,
         task' = [task EXCEPT ![w] = v],
         v = Idle \/ (v \in Task /\ Fit(v)),
         UNCHANGED <<now, grant, bookings>>
  PROVE  Inv'
<1>1. Kept
  BY DEF Kept, Good, Issued
<1>2. World'
  BY DEF Inv, World, Bound, OfTypes, Issued, Row, Time
<1>3. v = Idle \/ (v \in Task /\ Fit(v)')
  BY <1>1, FitKept
<1>4. Tasks'
  BY <1>1, <1>3, OneTask
<1> QED BY <1>2, <1>4 DEF Inv

LEMMA StepRevokeFind ==
  ASSUME Inv, NEW w \in Worker, NEW t \in Issued, RevokeFind(w, t) PROVE Inv'
<1> DEFINE v == [kind |-> "revoke", token |-> t]
<1>1. task' = [task EXCEPT ![w] = v] /\ UNCHANGED <<now, tokens, grant, bookings>>
  BY DEF RevokeFind
<1>2. t \in 1 .. MaxTokens
  BY Bounds DEF Inv, World, Issued
<1>3. v \in Task /\ Fit(v)
  BY <1>2 DEF Task, Revoking, Fit
<1> HIDE DEF v
<1> QED BY <1>1, <1>3, Alone

LEMMA StepRevokeSave == ASSUME Inv, NEW w \in Worker, RevokeSave(w) PROVE Inv'
<1> DEFINE t == task[w].token
<1>1. /\ tokens' = IF t \in DOMAIN tokens THEN [tokens EXCEPT ![t].revoked = TRUE]
                                           ELSE tokens
      /\ task' = [task EXCEPT ![w] = Idle]
      /\ UNCHANGED <<now, grant, bookings>>
  BY DEF RevokeSave, Revoked
<1> HIDE DEF t
<1>2. DOMAIN tokens' = DOMAIN tokens
  BY <1>1
<1>3. ASSUME NEW u \in DOMAIN tokens
      PROVE  /\ tokens'[u] \in Row
             /\ tokens[u].revoked => tokens'[u].revoked
  <2>1. tokens[u] \in Row
    BY DEF Inv, World
  <2>2. tokens'[u] = tokens[u] \/ tokens'[u] = [tokens[u] EXCEPT !.revoked = TRUE]
    BY <1>1
  <2> QED BY <2>1, <2>2 DEF Row
<1> QED BY <1>1, <1>2, <1>3, Marked

-----------------------------------------------------------------------------
(* Requests. *)

LEMMA Calling ==
  ASSUME Inv, NEW w \in Worker, NEW step, At(w, step)
  PROVE  task[w] \in Call /\ Fit(task[w]) /\ task[w].step = step
<1>1. task[w] \in Task /\ Fit(task[w]) /\ task[w].kind \in { "book", "read" }
  BY DEF At, Inv, Tasks
<1>2. task[w] \notin Answer /\ task[w] \notin Revoking
  BY <1>1 DEF Answer, Revoking
<1> QED BY <1>1, <1>2 DEF Task, At

(* A request may go on to any step if the token it came with was good. *)
LEMMA GoesOn ==
  ASSUME Inv, NEW w \in Worker, NEW from, At(w, from),
         NEW to \in { "limit", "touch first", "save first", "verify",
                      "touch", "save", "act" },
         to \in { "limit", "verify" } \/ ~ task[w].dead
  PROVE  [task[w] EXCEPT !.step = to] \in Task /\ Fit([task[w] EXCEPT !.step = to])
<1> DEFINE x == task[w]
           v == [task[w] EXCEPT !.step = to]
<1>1. x \in Call /\ Fit(x) /\ x.kind \in { "book", "read" }
  BY Calling DEF At
<1>2. v \in Call
  BY <1>1 DEF Call
<1>3. v.token = x.token /\ v.kind = x.kind /\ v.dead = x.dead /\ v.step = to
  BY <1>1 DEF Call
<1> HIDE DEF x, v
<1>4. to \in { "limit", "verify" } \/ ~ x.dead
  BY DEF x
<1>5. Fit(v)
  BY <1>1, <1>3, <1>4 DEF Fit
<1> QED BY <1>2, <1>5 DEF Task, v

LEMMA StepRequest ==
  ASSUME Inv, NEW w \in Worker, NEW kind \in { "book", "read" }, NEW t \in Issued,
         NEW e \in EventType, Request(w, kind, t, e)
  PROVE  Inv'
<1> DEFINE v == [ kind |-> kind, token |-> t, type |-> e,
                  step |-> IF kind = "book" THEN "limit" ELSE "verify",
                  at |-> now, seen |-> Fresh, dead |-> ~ Good(t) ]
<1>1. task' = [task EXCEPT ![w] = v] /\ UNCHANGED <<now, tokens, grant, bookings>>
  BY DEF Request
<1>2. t \in 1 .. MaxTokens /\ now \in Time
  BY Bounds DEF Inv, World, Issued
<1>3. Fresh \in Row
  BY Bounds DEF Fresh, Row, Time
<1>4. (~ Good(t)) \in BOOLEAN
  OBVIOUS
<1>5. v \in Call
  BY <1>2, <1>3, <1>4 DEF Call
<1>6. Fit(v)
  BY DEF Fit
<1> HIDE DEF v
<1> QED BY <1>1, <1>5, <1>6, Alone DEF Task

LEMMA StepRateLimit == ASSUME Inv, NEW w \in Worker, RateLimit(w) PROVE Inv'
<1>1. At(w, "limit") /\ UNCHANGED <<now, tokens, grant, bookings>>
  BY DEF RateLimit
<1>2. PICK v : /\ task' = [task EXCEPT ![w] = v]
               /\ \/ v = Idle
                  \/ v = [task[w] EXCEPT !.step = "verify"]
                  \/ Good(task[w].token) /\ v = [task[w] EXCEPT !.step = "touch first"]
  BY DEF RateLimit, Goto
<1>3. Fit(task[w]) /\ task[w].kind \in { "book", "read" }
  BY <1>1, Calling DEF At
<1>4. Good(task[w].token) => ~ task[w].dead
  BY <1>3 DEF Fit
<1>5. v = Idle \/ (v \in Task /\ Fit(v))
  BY <1>1, <1>2, <1>4, GoesOn
<1> QED BY <1>1, <1>2, <1>5, Alone

LEMMA StepVerify == ASSUME Inv, NEW w \in Worker, Verify(w) PROVE Inv'
<1>1. At(w, "verify") /\ UNCHANGED <<now, tokens, grant, bookings>>
  BY DEF Verify
<1>2. PICK v : /\ task' = [task EXCEPT ![w] = v]
               /\ \/ v = Idle
                  \/ Good(task[w].token) /\ v = [task[w] EXCEPT !.step = "touch"]
  BY DEF Verify, Goto
<1>3. Fit(task[w]) /\ task[w].kind \in { "book", "read" }
  BY <1>1, Calling DEF At
<1>4. Good(task[w].token) => ~ task[w].dead
  BY <1>3 DEF Fit
<1>5. v = Idle \/ (v \in Task /\ Fit(v))
  BY <1>1, <1>2, <1>4, GoesOn
<1> QED BY <1>1, <1>2, <1>5, Alone

LEMMA TouchSteps ==
  ASSUME NEW s \in Touching
  PROVE  /\ s[1] \in { "touch first", "touch" }
         /\ s[2] \in { "save first", "save" }
         /\ s[3] \in { "verify", "act" }
<1>1. \/ s = <<"touch first", "save first", "verify">>
      \/ s = <<"touch", "save", "act">>
  BY DEF Touching
<1>2. CASE s = <<"touch first", "save first", "verify">>
  BY <1>2
<1>3. CASE s = <<"touch", "save", "act">>
  BY <1>3
<1> QED BY <1>1, <1>2, <1>3

(* Where a request with a dead token cannot be. *)
LEMMA TouchingLive ==
  ASSUME Inv, NEW w \in Worker, NEW s \in Touching, NEW step \in { s[1], s[2] },
         At(w, step)
  PROVE  ~ task[w].dead
<1>1. Fit(task[w]) /\ task[w].kind \in { "book", "read" } /\ task[w].step = step
  BY Calling DEF At
<1>2. step \notin { "limit", "verify" }
  BY TouchSteps
<1> QED BY <1>1, <1>2 DEF Fit

LEMMA StepTouchFind == ASSUME Inv, NEW w \in Worker, TouchFind(w) PROVE Inv'
<1>1. PICK s \in Touching :
        /\ At(w, s[1])
        /\ IF task[w].token \in DOMAIN tokens
           THEN task' = [task EXCEPT ![w].step = s[2], ![w].at = now,
                                     ![w].seen = tokens[task[w].token]]
           ELSE Goto(w, s[3])
        /\ UNCHANGED <<now, tokens, grant, bookings>>
  BY DEF TouchFind
<1>2. ~ task[w].dead
  BY <1>1, TouchingLive
<1>3. /\ s[2] \in { "save first", "save" }
      /\ s[3] \in { "verify", "act" }
  BY TouchSteps
<1>4. CASE task[w].token \notin DOMAIN tokens
  <2>1. task' = [task EXCEPT ![w] = [task[w] EXCEPT !.step = s[3]]]
    BY <1>1, <1>4 DEF Goto
  <2> QED BY <1>1, <1>2, <1>3, <2>1, GoesOn, Alone
<1>5. CASE task[w].token \in DOMAIN tokens
  <2> DEFINE v == [task[w] EXCEPT !.step = s[2], !.at = now,
                                  !.seen = tokens[task[w].token]]
  <2>1. task' = [task EXCEPT ![w] = v]
    BY <1>1, <1>5 DEF Inv, Tasks
  <2>2. task[w] \in Call /\ Fit(task[w])
    BY <1>1, Calling
  <2>3. now \in Time /\ tokens[task[w].token] \in Row
    BY <1>5 DEF Inv, World
  <2>4. v \in Call
    BY <1>3, <2>2, <2>3 DEF Call
  <2>5. /\ v.token = task[w].token /\ v.kind = task[w].kind
        /\ v.dead = task[w].dead /\ v.step = s[2]
    BY <2>2 DEF Call
  <2>6. v.kind \in { "book", "read" }
    BY <2>4 DEF Call
  <2> HIDE DEF v
  <2>7. Fit(v)
    BY <1>2, <2>2, <2>5, <2>6 DEF Fit
  <2> QED BY <1>1, <2>1, <2>4, <2>7, Alone DEF Task
<1> QED BY <1>4, <1>5

LEMMA StepTouchSave == ASSUME Inv, NEW w \in Worker, TouchSave(w) PROVE Inv'
<1> DEFINE t == task[w].token
<1>1. PICK s \in Touching :
        /\ At(w, s[2])
        /\ \/ tokens' = IF t \in DOMAIN tokens
                        THEN [tokens EXCEPT ![t].used = task[w].at] ELSE tokens
           \/ UNCHANGED tokens
        /\ Goto(w, s[3])
        /\ UNCHANGED <<now, grant, bookings>>
  BY DEF TouchSave
<1>2. task[w].at \in Time
  BY <1>1, Calling DEF Call
<1>3. ~ task[w].dead /\ s[3] \in { "verify", "act" }
  BY <1>1, TouchingLive, TouchSteps
<1>4. task' = [task EXCEPT ![w] = [task[w] EXCEPT !.step = s[3]]]
  BY <1>1 DEF Goto
<1>5. LET v == [task[w] EXCEPT !.step = s[3]] IN v \in Task /\ Fit(v)
  BY <1>1, <1>3, GoesOn
<1> HIDE DEF t
<1>6. DOMAIN tokens' = DOMAIN tokens
  BY <1>1
<1>7. ASSUME NEW u \in DOMAIN tokens
      PROVE  /\ tokens'[u] \in Row
             /\ tokens[u].revoked => tokens'[u].revoked
  <2>1. tokens[u] \in Row
    BY DEF Inv, World
  <2>2. tokens'[u] = tokens[u] \/ tokens'[u] = [tokens[u] EXCEPT !.used = task[w].at]
    BY <1>1
  <2> QED BY <1>2, <2>1, <2>2 DEF Row
<1> QED BY <1>1, <1>4, <1>5, <1>6, <1>7, Marked

LEMMA StepBook == ASSUME Inv, NEW w \in Worker, Book(w) PROVE Inv'
<1> DEFINE t == task[w].token
           e == task[w].type
<1>1. /\ At(w, "act")
      /\ task' = [task EXCEPT ![w] = Idle]
      /\ UNCHANGED <<now, tokens, grant>>
  BY DEF Book
<1>2. \/ UNCHANGED bookings
      \/ /\ CanBookFor(t, e)
         /\ \E h \in Pool[e] :
              bookings' = bookings \cup { [token |-> t, type |-> e, host |-> h] }
  BY DEF Book
<1>3. e \in EventType /\ t \in Issued
  BY <1>1, Calling DEF Call, Fit
<1>4. Pool[e] \subseteq Host
  BY <1>3, TokensAssumption DEF TokensAssumption
<1>5. Kept
  BY <1>1 DEF Kept, Good, Issued
<1>6. Tasks'
  BY <1>1, <1>5, OneTask
<1> HIDE DEF t, e
<1>7. World'
  <2>1. CASE UNCHANGED bookings
    BY <1>1, <2>1 DEF Inv, World, Bound, OfTypes, Issued
  <2>2. CASE CanBookFor(t, e) /\ \E h \in Pool[e] :
               bookings' = bookings \cup { [token |-> t, type |-> e, host |-> h] }
    <3>1. PICK h \in Pool[e] :
            bookings' = bookings \cup { [token |-> t, type |-> e, host |-> h] }
      BY <2>2
    <3> DEFINE b == [token |-> t, type |-> e, host |-> h]
    <3>2. b \in Booking /\ b.token \in Issued
      <4>1. t \in Nat
        BY <1>3, Bounds DEF Inv, World, Issued
      <4>2. h \in Host
        BY <1>4
      <4> QED BY <1>3, <4>1, <4>2 DEF Booking
    <3>3. Bound(b)
      <4>1. h \in Pool[e] /\ b.token = t /\ b.type = e /\ b.host = h
        BY <3>1
      <4> QED BY <2>2, <4>1 DEF CanBookFor, Bound, OfTypes
    <3>4. bookings' = bookings \cup {b}
      BY <3>1
    <3> HIDE DEF b
    <3>5. \A c \in bookings' : c.token \in Issued \cup {0} /\ Bound(c)
      BY <3>2, <3>3, <3>4 DEF Inv, World
    <3>6. bookings' \subseteq Booking
      BY <3>2, <3>4 DEF Inv, World
    <3> QED BY <1>1, <3>5, <3>6 DEF Inv, World, Bound, OfTypes, Issued
  <2> QED BY <1>2, <2>1, <2>2
<1> QED BY <1>6, <1>7 DEF Inv

LEMMA StepTeamBookings ==
  ASSUME Inv, NEW w \in Worker, TeamBookings(w) PROVE Inv'
<1> DEFINE t == task[w].token
           v == [ kind |-> "answer", token |-> t,
                  dead |-> task[w].dead, rows |-> Shown(t) ]
<1>1. /\ At(w, "act")
      /\ task' = [task EXCEPT ![w] = v] \/ task' = [task EXCEPT ![w] = Idle]
      /\ UNCHANGED <<now, tokens, grant, bookings>>
  BY DEF TeamBookings
<1>2. /\ task[w] \in Call /\ Fit(task[w]) /\ task[w].step = "act"
      /\ task[w].kind \in { "book", "read" }
  BY <1>1, Calling DEF At
<1>3. t \in 1 .. MaxTokens /\ task[w].dead \in BOOLEAN /\ ~ task[w].dead /\ t \in Issued
  BY <1>2 DEF Call, Fit
<1>4. Issued \subseteq 1 .. MaxTokens
  BY Bounds DEF Inv, World, Issued
<1>5. Shown(t) \subseteq Booking
  BY DEF Shown, Inv, World
<1>6. v \in Answer
  BY <1>3, <1>5 DEF Answer
<1>7. \A b \in Shown(t) : OfTypes(t, b) /\ grant[t].host \in { "", b.host }
  BY DEF Shown, OfTypes
<1>8. Fit(v)
  BY <1>3, <1>7 DEF Fit
<1> HIDE DEF t, v
<1> QED BY <1>1, <1>6, <1>8, Alone DEF Task

LEMMA StepReply == ASSUME Inv, NEW w \in Worker, Reply(w) PROVE Inv'
  BY Alone DEF Reply

-----------------------------------------------------------------------------

LEMMA Step == Inv /\ [Next]_vars => Inv'
<1> SUFFICES ASSUME Inv, [Next]_vars PROVE Inv'
  OBVIOUS
<1>1. CASE UNCHANGED vars
  <2>1. /\ UNCHANGED <<now, tokens, grant, bookings>> /\ UNCHANGED task
    BY <1>1 DEF vars
  <2>2. Kept
    BY <2>1 DEF Kept, Good, Issued
  <2>3. Tasks'
    BY <2>1, <2>2, AllTasks
  <2> QED BY <2>1, <2>3 DEF Inv, World, Bound, OfTypes, Issued
<1>2. CASE Tick
  BY <1>2, StepTick
<1>3. CASE CreateServiceToken
  BY <1>3, StepCreate
<1>4. CASE \E t \in Issued : DeleteServiceToken(t)
  BY <1>4, StepDelete
<1>5. ASSUME NEW w \in Worker, \E t \in Issued : RevokeFind(w, t) PROVE Inv'
  BY <1>5, StepRevokeFind
<1>6. ASSUME NEW w \in Worker, RevokeSave(w) PROVE Inv'
  BY <1>6, StepRevokeSave
<1>7. ASSUME NEW w \in Worker,
             \E kind \in { "book", "read" }, t \in Issued, e \in EventType :
               Request(w, kind, t, e)
      PROVE  Inv'
  BY <1>7, StepRequest
<1>8. ASSUME NEW w \in Worker,
             RateLimit(w) \/ Verify(w) \/ TouchFind(w) \/ TouchSave(w)
      PROVE  Inv'
  BY <1>8, StepRateLimit, StepVerify, StepTouchFind, StepTouchSave
<1>9. ASSUME NEW w \in Worker, Book(w) \/ TeamBookings(w) \/ Reply(w) PROVE Inv'
  BY <1>9, StepBook, StepTeamBookings, StepReply
<1> QED BY <1>1, <1>2, <1>3, <1>4, <1>5, <1>6, <1>7, <1>8, <1>9 DEF Next

LEMMA Always == Spec => []Inv
  BY InitInv, Step, PTL DEF Spec

(* The tokens' rows, the requests and what was booked keep their types        *)
(* (store.go, ServiceToken; svctoken.go).                                    *)
THEOREM TokensTypeCorrect == Spec => []TypeOK
<1>1. Inv => TypeOK
  BY DEF Inv, World, Tasks, Task, TypeOK
<1> QED BY <1>1, Always, PTL

(* For any number of requests, tokens and administrators at work, a request    *)
(* that came with a token revoked, deleted or expired before is not carried    *)
(* out: notes of use never undo a revocation (svctoken.go, Verify).            *)
THEOREM DeadTokensUnused == Spec => []NoUseOnceDead
<1>1. Inv => NoUseOnceDead
  <2> SUFFICES ASSUME Inv, NEW w \in Worker, task[w] # Idle,
                      At(w, "act") \/ task[w].kind = "answer"
               PROVE  ~ task[w].dead
    BY DEF NoUseOnceDead
  <2>1. Fit(task[w])
    BY DEF Inv, Tasks
  <2>2. CASE At(w, "act")
    BY <2>1, <2>2 DEF Fit, At
  <2>3. CASE task[w].kind = "answer"
    BY <2>1, <2>3 DEF Fit
  <2> QED BY <2>2, <2>3
<1> QED BY <1>1, Always, PTL

(* Whatever hosts and pools there are, what a token books and is shown is of   *)
(* the event types it was issued for; what it is shown is with its host; what  *)
(* it books is an event type of its host, with that host unless the type has   *)
(* a pool (host.go, teamBookings; api.go, handleCreateBooking).                *)
THEOREM TokensWithinBinding == Spec => []WithinBinding
<1>1. Inv => WithinBinding
  BY DEF Inv, World, Tasks, Bound, Fit, WithinBinding
<1> QED BY <1>1, Always, PTL
=============================================================================
