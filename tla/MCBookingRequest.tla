---------------------------- MODULE MCBookingRequest ----------------------------
(***************************************************************************)
(* What a request for a slot has to pass, each check by itself for every    *)
(* input of a small set: the slot grid, the host's own calendar and the     *)
(* intake form.                                                             *)
(***************************************************************************)
EXTENDS MCSlotEngine, BusyTime, IntakeForm

VARIABLE check   \* the check made: "grid", "calendar" or "form"

-----------------------------------------------------------------------------
(* The host's calendar: two events of any kind, one that is busy and near,  *)
(* one event on a page and two pages at most.                                *)

CONSTANTS e1, e2, e3

Meeting == [ status |-> "busy", times |-> "legible", near |-> TRUE ]

CalendarInit == /\ BusyInit
                /\ event[e3] = Meeting
                /\ ~ simple => Len(calendar) <= 1

NoCalendarYet ==
  /\ provider = "none" /\ simple = TRUE /\ event = [e \in EventId |-> Meeting]
  /\ calendar = << >> /\ page = 0 /\ busy = {} /\ answer = "reading"
  /\ verdict = "none" /\ asked = {} /\ shifted = {} /\ withheld = FALSE
  /\ changes = 0

-----------------------------------------------------------------------------
(* The form. *)

Texts == { "", "ab", "abc", "1", "9", "NaN", "a@b.de", "2026-01-31" }
Lengths == [ t \in Texts |-> CASE t = "" -> 0 [] t \in { "1", "9" } -> 1
                               [] t = "ab" -> 2 [] t = "abc" -> 3 [] OTHER -> 4 ]
Numerals == [ t \in { "1", "9", "NaN" } |->
                CASE t = "1" -> 1 [] t = "9" -> 9 [] OTHER -> NaN ]
Blanks == { "" }
Addresses == { "a@b.de" }
Dates == { "2026-01-31" }

Say(kind) == [ is |-> kind, texts |-> << >>, number |-> 0 ]
SayText(t) == [ is |-> "text", texts |-> << t >>, number |-> 0 ]
SayList(ts) == [ is |-> "list", texts |-> ts, number |-> 0 ]
SayNumber(n) == [ is |-> "number", texts |-> << >>, number |-> n ]

Lists == { << >>, << "ab" >>, << "ab", "abc" >>, << "ab", "ab" >>, << "abc", "1" >>,
           << NotText >> }

Values == { Say("nil"), Say("true"), Say("false"), SayNumber(1), SayNumber(5) }
          \cup { SayText(t) : t \in Texts } \cup { SayList(ts) : ts \in Lists }

Kinds(key, required) ==
  LET f(type) == Field(key, type, required)
  IN { f(type) : type \in FieldType \cup { "unknown" } } \cup
     { [f("text") EXCEPT !.max_length = 2], [f("tel") EXCEPT !.pattern = { "1", "ab" }],
       [f("textarea") EXCEPT !.pattern = BadPattern],
       [f("select") EXCEPT !.options = { "ab", "abc" }],
       [f("multiselect") EXCEPT !.options = { "ab", "abc" }],
       [f("number") EXCEPT !.min = {2}], [f("number") EXCEPT !.max = {5}] }

Data(keys) == UNION { [ks -> Values] : ks \in SUBSET keys }

(* One field of any kind and any data under its key and notes; or two       *)
(* fields, one of them perhaps notes.                                       *)
MCSchemas ==
  { << f >> : f \in Kinds("k", TRUE) \cup Kinds("k", FALSE) } \cup
  { << f, [Field(key, "text", FALSE) EXCEPT !.max_length = 2] >> :
      f \in Kinds("k", TRUE), key \in { "k", NotesKey } } \cup
  { << >> }

MCSubmissions == Data({ "k", NotesKey }) \cup { [k \in { "else" } |-> v] : v \in Values }

NoForm == fields = << >> /\ data = << >> /\ accepted = "no answer"

-----------------------------------------------------------------------------

MixInit == \/ check = "grid" /\ SlotInit /\ NoCalendarYet /\ NoForm
           \/ check = "calendar" /\ CalendarInit /\ NoForm
              /\ query = Base /\ slots = {} /\ computed = FALSE
           \/ check = "form" /\ FormInit /\ NoCalendarYet
              /\ query = Base /\ slots = {} /\ computed = FALSE

MixNext == /\ \/ check = "grid" /\ Compute /\ UNCHANGED <<busyVars, formVars>>
              \/ check = "calendar" /\ BusyNext /\ UNCHANGED <<slotVars, formVars>>
              \/ check = "form" /\ Submit /\ UNCHANGED <<busyVars, slotVars>>
           /\ UNCHANGED check

MixSpec == MixInit /\ [][MixNext]_<<check, busyVars, slotVars, formVars>>

=============================================================================
