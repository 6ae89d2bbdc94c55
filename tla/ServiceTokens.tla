---------------------------- MODULE ServiceTokens ----------------------------
(***************************************************************************)
(* Service tokens: issued, revoked and deleted by an administrator           *)
(* (internal/api/admin.go, internal/svctoken/cli.go), verified and marked as *)
(* used with each request (internal/svctoken, internal/store), and bound to  *)
(* a host and to event types (internal/api/host.go, api.go).                 *)
(*                                                                         *)
(* Tokens are numbers in the order of their issue; that a request's string   *)
(* has the hash of a token is that the request carries its number.           *)
(***************************************************************************)
EXTENDS Integers, Sequences, FiniteSets

CONSTANTS
  Worker,      \* requests at the same time
  Idle,        \* no request
  Host, EventType,
  Owner, Pool, \* of an event type: its host, and the hosts that may take it
  Grant,       \* what tokens are issued with
  MaxTokens,   \* bound: tokens ever issued
  MaxNow       \* bound: the clock

ASSUME TokensAssumption ==
  /\ Owner \in [EventType -> Host]
  /\ Pool \in [EventType -> SUBSET Host]
  /\ Grant \subseteq [scopes : SUBSET { "create", "read" }, host : Host \cup {""},
                      types : SUBSET EventType, expires : Nat]
  /\ MaxTokens \in Nat /\ MaxNow \in Nat

VARIABLES
  now,
  tokens,     \* from the tokens there are to what changes of them
  grant,      \* grant[t]: what t was issued with
  task,       \* task[w]: the request w is handling
  bookings    \* those there are, and the token each was made with

vars == <<now, tokens, grant, task, bookings>>

Time == 0 .. MaxNow

Issued == DOMAIN grant

(* The token is 0 for a booking made without one, by a visitor.               *)
Booking == [ token : Nat, type : EventType, host : Host ]

Row == [revoked : BOOLEAN, used : Time]

(* dead: the token was no longer good when the request came.                  *)
Call == [ kind : { "book", "read" }, token : 1 .. MaxTokens, type : EventType,
          step : { "limit", "touch first", "save first",
                   "verify", "touch", "save", "act" },
          at : Time, seen : Row, dead : BOOLEAN ]

Answer == [ kind : { "answer" }, token : 1 .. MaxTokens, dead : BOOLEAN,
            rows : SUBSET Booking ]

Revoking == [kind : { "revoke" }, token : 1 .. MaxTokens]

TypeOK ==
  /\ now \in Time
  /\ Len(grant) <= MaxTokens /\ grant \in Seq(Grant)
  /\ DOMAIN tokens \subseteq Issued /\ \A t \in DOMAIN tokens : tokens[t] \in Row
  /\ task \in [Worker -> Call \cup Answer \cup Revoking \cup {Idle}]
  /\ bookings \subseteq Booking /\ \A b \in bookings : b.token \in Issued \cup {0}

Fresh == [revoked |-> FALSE, used |-> 0]

(* Visitors have booked before. *)
Init == /\ now = 0
        /\ tokens = [t \in {} |-> Fresh]
        /\ grant = << >>
        /\ task = [w \in Worker |-> Idle]
        /\ bookings \in SUBSET { b \in [ token : {0}, type : EventType, host : Host ] :
                                  b.host \in Pool[b.type] }

Tick == now < MaxNow /\ now' = now + 1 /\ UNCHANGED <<tokens, grant, task, bookings>>

-----------------------------------------------------------------------------
(* The administrator. *)

CreateServiceToken ==
  /\ Len(grant) < MaxTokens
  /\ \E g \in Grant : grant' = Append(grant, g)
  /\ tokens' = [t \in (DOMAIN tokens) \cup {Len(grant) + 1} |->
                  IF t \in DOMAIN tokens THEN tokens[t] ELSE Fresh]
  /\ UNCHANGED <<now, task, bookings>>

RevokeFind(w, t) ==
  /\ task[w] = Idle
  /\ t \in DOMAIN tokens
  /\ task' = [task EXCEPT ![w] = [kind |-> "revoke", token |-> t]]
  /\ UNCHANGED <<now, tokens, grant, bookings>>

Revoked(t) == IF t \in DOMAIN tokens THEN [tokens EXCEPT ![t].revoked = TRUE] ELSE tokens

RevokeSave(w) ==
  /\ task[w] # Idle /\ task[w].kind = "revoke"
  /\ tokens' = Revoked(task[w].token)
  /\ task' = [task EXCEPT ![w] = Idle]
  /\ UNCHANGED <<now, grant, bookings>>

DeleteServiceToken(t) ==
  /\ t \in DOMAIN tokens
  /\ tokens' = [u \in (DOMAIN tokens) \ {t} |-> tokens[u]]
  /\ UNCHANGED <<now, grant, task, bookings>>

-----------------------------------------------------------------------------
(* Requests. *)

Good(t) == /\ t \in DOMAIN tokens
           /\ ~ tokens[t].revoked
           /\ grant[t].expires = 0 \/ now <= grant[t].expires

At(w, step) == /\ task[w] # Idle /\ task[w].kind \in { "book", "read" }
               /\ task[w].step = step

(* A booking passes the rate limit first, the team's pages have none.         *)
Request(w, kind, t, e) ==
  /\ task[w] = Idle
  /\ task' = [task EXCEPT ![w] =
       [ kind |-> kind, token |-> t, type |-> e,
         step |-> IF kind = "book" THEN "limit" ELSE "verify",
         at |-> now, seen |-> Fresh, dead |-> ~ Good(t) ]]
  /\ UNCHANGED <<now, tokens, grant, bookings>>

Goto(w, step) == task' = [task EXCEPT ![w].step = step]

(* Verify in the rate limit's middleware: a request without a good token is    *)
(* let through or not like any other.                                        *)
RateLimit(w) ==
  /\ At(w, "limit")
  /\ \/ Good(task[w].token) /\ Goto(w, "touch first")
     \/ ~ Good(task[w].token) /\ Goto(w, "verify")
     \/ ~ Good(task[w].token) /\ task' = [task EXCEPT ![w] = Idle]
  /\ UNCHANGED <<now, tokens, grant, bookings>>

(* Verify in the handler. *)
Verify(w) ==
  /\ At(w, "verify")
  /\ IF Good(task[w].token) THEN Goto(w, "touch") ELSE task' = [task EXCEPT ![w] = Idle]
  /\ UNCHANGED <<now, tokens, grant, bookings>>

(* TouchServiceTokenLastUsed; whether it fails is not looked at.              *)
Touching == { <<"touch first", "save first", "verify">>, <<"touch", "save", "act">> }

TouchFind(w) ==
  \E s \in Touching :
    /\ At(w, s[1])
    /\ IF task[w].token \in DOMAIN tokens
       THEN task' = [task EXCEPT ![w].step = s[2], ![w].at = now,
                                 ![w].seen = tokens[task[w].token]]
       ELSE Goto(w, s[3])
    /\ UNCHANGED <<now, tokens, grant, bookings>>

(* Mutant: the whole row is written, as it was read. *)
TouchSaveWhole(w) ==
  \E s \in Touching :
    /\ At(w, s[2])
    /\ tokens' = IF task[w].token \in DOMAIN tokens
                 THEN [tokens EXCEPT ![task[w].token] =
                         [task[w].seen EXCEPT !.used = task[w].at]] ELSE tokens
    /\ Goto(w, s[3])
    /\ UNCHANGED <<now, grant, bookings>>

(* Only the column that changed is written. *)
TouchSave(w) ==
  \E s \in Touching :
    /\ At(w, s[2])
    /\ \/ tokens' = IF task[w].token \in DOMAIN tokens
                    THEN [tokens EXCEPT ![task[w].token].used = task[w].at] ELSE tokens
       \/ UNCHANGED tokens
    /\ Goto(w, s[3])
    /\ UNCHANGED <<now, grant, bookings>>

HasScope(t, scope) == scope \in grant[t].scopes

(* Mutant: the binding is checked against the pool. *)
CanBookForPool(t, e) ==
  /\ grant[t].host # "" => grant[t].host \in Pool[e]
  /\ grant[t].types # {} => e \in grant[t].types

CanBookFor(t, e) ==
  /\ grant[t].host # "" => grant[t].host = Owner[e]
  /\ grant[t].types # {} => e \in grant[t].types

(* handleCreateBooking, from the scope on; what Pipeline.Run makes of it is in *)
(* BookingPipeline.                                                          *)
Book(w) ==
  LET t == task[w].token
      e == task[w].type
  IN /\ At(w, "act") /\ task[w].kind = "book"
     /\ \/ /\ HasScope(t, "create") /\ CanBookFor(t, e)
           /\ \E h \in Pool[e] :
                bookings' = bookings \cup { [token |-> t, type |-> e, host |-> h] }
        \/ UNCHANGED bookings
     /\ task' = [task EXCEPT ![w] = Idle]
     /\ UNCHANGED <<now, tokens, grant>>

(* Mutant: the list of event types is not looked at. *)
ShownOfAllTypes(t) ==
  { b \in bookings : grant[t].host # "" => b.host = grant[t].host }

(* What teamBookings shows. *)
Shown(t) ==
  { b \in bookings : /\ grant[t].host # "" => b.host = grant[t].host
                     /\ grant[t].types # {} => b.type \in grant[t].types }

(* The query may fail; with a list of event types it is in words that the      *)
(* database layer's filters do not have.                                     *)
TeamBookings(w) ==
  LET t == task[w].token
  IN /\ At(w, "act") /\ task[w].kind = "read"
     /\ \/ /\ HasScope(t, "read")
           /\ task' = [task EXCEPT ![w] = [ kind |-> "answer", token |-> t,
                                            dead |-> task[w].dead, rows |-> Shown(t) ]]
        \/ task' = [task EXCEPT ![w] = Idle]
     /\ UNCHANGED <<now, tokens, grant, bookings>>

Reply(w) ==
  /\ task[w] # Idle /\ task[w].kind = "answer"
  /\ task' = [task EXCEPT ![w] = Idle]
  /\ UNCHANGED <<now, tokens, grant, bookings>>

-----------------------------------------------------------------------------

Next ==
  \/ Tick \/ CreateServiceToken
  \/ \E t \in Issued : DeleteServiceToken(t)
  \/ \E w \in Worker :
       \/ \E t \in Issued : RevokeFind(w, t)
       \/ RevokeSave(w)
       \/ \E kind \in { "book", "read" }, t \in Issued, e \in EventType :
            Request(w, kind, t, e)
       \/ RateLimit(w) \/ Verify(w) \/ TouchFind(w) \/ TouchSave(w)
       \/ Book(w) \/ TeamBookings(w) \/ Reply(w)

Spec == Init /\ [][Next]_vars

-----------------------------------------------------------------------------
(* Properties. *)

(* A request that comes when its token is revoked, deleted or expired is not   *)
(* carried out, even while requests that came earlier note the token's use    *)
(* (svctoken.go, Verify; store.go, TouchServiceTokenLastUsed,                 *)
(* RevokeServiceToken).                                                      *)
NoUseOnceDead ==
  \A w \in Worker :
    task[w] # Idle /\ (At(w, "act") \/ task[w].kind = "answer") => ~ task[w].dead

OfTypes(t, b) == grant[t].types # {} => b.type \in grant[t].types

(* What a token that is bound to event types books and is shown is of those    *)
(* types.  A token bound to a host is shown what is booked with that host, and *)
(* books the event types the host owns.  That is less than svctoken.go:9 says, *)
(* which has it book for the host only: a type with a pool may be given to     *)
(* another host of the pool, and the token is not shown that booking           *)
(* (svctoken.go, CanBookFor; host.go, teamBookings; api.go,                    *)
(* handleCreateBooking; host_select.go).                                     *)
WithinBinding ==
  /\ \A b \in bookings : b.token # 0 =>
       /\ OfTypes(b.token, b)
       /\ grant[b.token].host # "" =>
            /\ Owner[b.type] = grant[b.token].host
            /\ b.host = grant[b.token].host \/ Pool[b.type] # { Owner[b.type] }
  /\ \A w \in Worker : task[w] # Idle /\ task[w].kind = "answer" =>
       \A b \in task[w].rows : /\ OfTypes(task[w].token, b)
                               /\ grant[task[w].token].host \in { "", b.host }

=============================================================================
