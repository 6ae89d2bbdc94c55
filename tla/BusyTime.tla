------------------------------- MODULE BusyTime -------------------------------
(***************************************************************************)
(* What keeps a booking off the host's own calendar: the check of           *)
(* internal/pipeline, validate, and under it FreeBusy of the four calendar  *)
(* adapters.  Microsoft is read page by page, and the calendar may change   *)
(* between two pages; the others answer with all of it at once.             *)
(*                                                                         *)
(* One request for one slot.  An event is near if it meets the slot with    *)
(* its buffers.  It is legible if its times can be read and it ends after   *)
(* it began; it is reversed if they can be read and it does not.            *)
(***************************************************************************)
EXTENDS Integers, FiniteSets, SequencesExt

CONSTANTS
  EventId,    \* external events
  PageSize,   \* events on a page
  maxPages,   \* pages read before the adapter gives up
  MaxChanges  \* bound: changes of the calendar during the check

ASSUME BusyTimeAssumption ==
  /\ IsFiniteSet(EventId)
  /\ PageSize \in Nat \ {0} /\ maxPages \in Nat \ {0}
  /\ MaxChanges \in Nat

VARIABLES
  provider,   \* the host's calendar, or "none"; does not change
  simple,     \* one host and one attendee; does not change
  event,      \* event[e]: what e is; does not change
  calendar,   \* the events in it, by their start
  page,       \* pages read
  busy,       \* the events FreeBusy has taken up
  answer,     \* "reading", "error" or "ok"
  verdict,    \* "none", "accepted" or "refused"
  asked,      \* history: the events in the calendar since it was asked,
  shifted,    \*   the events pulled onto a page already read, since one before
              \*   them was removed,
  withheld,   \*   the server's answer was not all of it,
  changes     \*   the changes of the calendar

request == <<provider, simple, event>>
reading == <<page, busy, answer>>
busyVars == <<request, calendar, reading, verdict, asked, shifted, withheld, changes>>

Event == [ status : { "busy", "free" },
           times : { "legible", "reversed", "illegible" },
           near : BOOLEAN ]

Providers == { "none", "microsoft", "msgraph", "google", "nextcloud" }

InCalendar == { calendar[i] : i \in DOMAIN calendar }

BusyTypeOK == /\ provider \in Providers /\ simple \in BOOLEAN
              /\ event \in [EventId -> Event]
              /\ calendar \in Seq(EventId)
              /\ page \in 0 .. maxPages
              /\ busy \subseteq EventId /\ asked \subseteq EventId
              /\ answer \in { "reading", "error", "ok" }
              /\ verdict \in { "none", "accepted", "refused" }
              /\ shifted \subseteq EventId /\ withheld \in BOOLEAN
              /\ changes \in 0 .. MaxChanges

(* The check begins with what the calendar holds then. *)
BusyInit == /\ provider \in Providers /\ simple \in BOOLEAN
            /\ event \in [EventId -> Event]
            /\ calendar \in { c \in UNION { [1 .. n -> EventId] : n \in 0 .. Cardinality(EventId) } :
                                \A i, j \in DOMAIN c : c[i] = c[j] => i = j }
            /\ page = 0 /\ busy = {} /\ answer = "reading" /\ verdict = "none"
            /\ asked = InCalendar
            /\ shifted = {} /\ withheld = FALSE /\ changes = 0

-----------------------------------------------------------------------------
(* The calendar, which its owner goes on using. *)

FreeEvent(e) == event[e].status = "free"

(* Those behind it move up: the first of the next page to the one before. *)
PulledBack(i) ==
  { calendar[j] : j \in { k \in DOMAIN calendar : /\ answer = "reading"
                                                 /\ i <= page * PageSize
                                                 /\ k = page * PageSize + 1 } }

EventGone(i) ==
  /\ verdict = "none" /\ changes < MaxChanges
  /\ calendar' = RemoveAt(calendar, i)
  /\ asked' = asked \ { calendar[i] }
  /\ shifted' = shifted \cup PulledBack(i)
  /\ changes' = changes + 1
  /\ UNCHANGED <<request, reading, verdict, withheld>>

EventCame(e, i) ==
  /\ verdict = "none" /\ changes < MaxChanges
  /\ e \notin InCalendar
  /\ calendar' = InsertAt(calendar, i, e)
  /\ changes' = changes + 1
  /\ UNCHANGED <<request, reading, verdict, asked, shifted, withheld>>

-----------------------------------------------------------------------------
(* FreeBusy. *)

(* Mutant: a busy event whose times cannot be read is passed over. *)
RefusesOnlyOthers(p, es) == p = "google" /\ \E e \in es : event[e].times = "illegible"

(* An event that makes the whole answer an error.  Google's times are        *)
(* decoded with the answer.                                                  *)
Refuses(p, es) ==
  \/ p = "microsoft" /\ \E e \in es : ~ FreeEvent(e) /\ event[e].times # "legible"
  \/ p = "google" /\ \E e \in es : event[e].times = "illegible"

(* The events taken up from an answer; Nextcloud's FREEBUSY lines whatever   *)
(* their type.                                                               *)
Takes(p, es) ==
  CASE p = "microsoft" -> { e \in es : ~ FreeEvent(e) }
    [] p = "msgraph"   -> { e \in es : ~ FreeEvent(e) /\ event[e].times # "illegible" }
    [] p = "google"    -> es
    [] p = "nextcloud" -> { e \in es : event[e].times # "illegible" }

Open == verdict = "none" /\ simple /\ answer = "reading"

(* The registry fails, no token is to be had, the server answers with an     *)
(* error or not in time.                                                     *)
Fail == /\ Open /\ provider # "none"
        /\ answer' = "error"
        /\ UNCHANGED <<request, calendar, page, busy, verdict, asked, shifted,
                       withheld, changes>>

NoCalendar == /\ Open /\ provider = "none"
              /\ answer' = "ok"
              /\ UNCHANGED <<request, calendar, page, busy, verdict, asked, shifted,
                             withheld, changes>>

(* The server's pages are counted from the first event there is when a page  *)
(* is read.                                                                  *)
Page == { calendar[i] : i \in { j \in DOMAIN calendar :
                                  (j - 1) \div PageSize = page } }

More == (page + 1) * PageSize < Len(calendar)

(* Mutant: what was read until the last page allowed is the answer. *)
AfterLastPageTruncated == "ok"

AfterLastPage == "error"

ReadPage ==
  /\ Open /\ provider = "microsoft"
  /\ IF Refuses(provider, Page)
     THEN answer' = "error" /\ UNCHANGED <<page, busy>>
     ELSE /\ busy' = busy \cup Takes(provider, Page)
          /\ page' = page + 1
          /\ answer' = IF ~ More THEN "ok"
                       ELSE IF page + 1 < maxPages THEN "reading" ELSE AfterLastPage
  /\ UNCHANGED <<request, calendar, verdict, asked, shifted, withheld, changes>>

(* All of the calendar at once, or what the server tells of it.              *)
ReadAll(p, all, told) ==
  /\ Open /\ provider = p
  /\ \E es \in {all} \cup told :
       /\ answer' = IF Refuses(p, es) THEN "error" ELSE "ok"
       /\ busy' = IF Refuses(p, es) THEN {} ELSE Takes(p, es)
       /\ withheld' = (es # all)
  /\ UNCHANGED <<request, calendar, page, verdict, asked, shifted, changes>>

(* The schedule may be missing in Graph's answer. *)
ReadSchedule == ReadAll("msgraph", InCalendar, {{}})

(* Google's server lists busy times only, and may leave the calendar out. *)
ReadGoogle == ReadAll("google", { e \in InCalendar : ~ FreeEvent(e) }, {{}})

(* Nextcloud's answer may break off, or be in a form that is not understood. *)
ReadNextcloud == ReadAll("nextcloud", InCalendar, SUBSET InCalendar)

-----------------------------------------------------------------------------
(* The check. *)

Blocked == answer = "error" \/ \E e \in busy : event[e].near

(* Nothing is asked for a pool or a class.  Whether a reversed interval gets *)
(* in the way of the slot depends on where it lies.                          *)
validate ==
  /\ verdict = "none" /\ (simple => answer # "reading")
  /\ \/ verdict' = (IF simple /\ Blocked THEN "refused" ELSE "accepted")
     \/ /\ simple /\ answer = "ok"
        /\ \A e \in busy : event[e].near => event[e].times = "reversed"
        /\ verdict' = "accepted"
  /\ UNCHANGED <<request, calendar, reading, asked, shifted, withheld, changes>>

BusyNext == \/ \E i \in DOMAIN calendar : EventGone(i)
            \/ \E e \in EventId, i \in 1 .. Len(calendar) + 1 : EventCame(e, i)
            \/ Fail \/ NoCalendar \/ ReadPage
            \/ ReadSchedule \/ ReadGoogle \/ ReadNextcloud \/ validate

BusySpec == BusyInit /\ [][BusyNext]_busyVars

-----------------------------------------------------------------------------
(* Properties. *)

(* A slot that a busy event of the host's calendar has blocked since before  *)
(* the check is not given away (pipeline.go, validate, "fail closed").  With  *)
(* Microsoft not even if the event's times cannot be read or there are more  *)
(* pages than the adapter reads; only an event that the removal of one before *)
(* it pulled onto a page already read may be missed.  Graph, Google and       *)
(* Nextcloud do give busy time away: when the server leaves events out of its *)
(* answer, and at an event whose times cannot be read or that ends before it  *)
(* begins.                                                                   *)
BusyHeeded ==
  verdict = "accepted" /\ simple =>
    \A e \in asked :
      /\ ~ FreeEvent(e) /\ event[e].near
      /\ IF provider = "microsoft" THEN e \notin shifted
         ELSE ~ withheld /\ event[e].times = "legible"
      => provider = "none"

=============================================================================
