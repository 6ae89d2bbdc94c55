------------------------------ MODULE IntakeForm ------------------------------
(***************************************************************************)
(* What the check of an intake form promises, said by what answers a field, *)
(* for every form of a set and everything that may be sent with it.         *)
(***************************************************************************)
EXTENDS Intake

CONSTANTS
  Schemas,      \* the forms, as hosts enter them: sequences of fields
  Submissions   \* what attendees send: functions from keys to values

(* A value as JSON has it: a text is one text. *)
Sent(v) == /\ v \in Value
           /\ v.is = "text" => Len(v.texts) = 1 /\ v.texts[1] \in Text

ASSUME FormAssumption ==
  /\ \A fs \in Schemas : \A i \in DOMAIN fs :
       /\ fs[i].required \in BOOLEAN /\ fs[i].max_length \in Nat
       /\ fs[i].min \subseteq Int /\ fs[i].max \subseteq Int
  /\ \A d \in Submissions : \A k \in DOMAIN d : Sent(d[k])

VARIABLES fields, data, accepted    \* the form, what came in, the answer

formVars == <<fields, data, accepted>>

FormInit == fields \in Schemas /\ data \in Submissions /\ accepted = "no answer"

Submit == /\ accepted = "no answer"
          /\ accepted' = IF Accepts(fields, data) THEN "yes" ELSE "no"
          /\ UNCHANGED <<fields, data>>

FormSpec == FormInit /\ [][Submit]_formVars

-----------------------------------------------------------------------------

AtLeast(n, f) == \A m \in f.min : m <= n
AtMost(n, f) == \A m \in f.max : n <= m

(* Text t answers field f. *)
TextAnswers(f, t) ==
  /\ t \notin Blank
  /\ \/ /\ f.type \in { "text", "textarea", "tel" } /\ t \in f.pattern
        /\ f.max_length = 0 \/ Length[t] <= f.max_length
     \/ f.type = "email" /\ t \in Address
     \/ f.type = "date" /\ t \in Date
     \/ f.type = "select" /\ t \in f.options
     \/ /\ f.type = "number" /\ t \in DOMAIN Numeral
        /\ Numeral[t] = NaN \/ (AtLeast(Numeral[t], f) /\ AtMost(Numeral[t], f))

(* Items, each of them once, answer field f. *)
ListAnswers(f, items) ==
  LET chosen == { items[i] : i \in DOMAIN items }
  IN /\ f.type = "multiselect" /\ items # << >>
     /\ chosen \subseteq f.options
     /\ Cardinality(chosen) = Len(items)

(* Value v answers field f. *)
Answers(f, v) ==
  \/ v.is = "text" /\ TextAnswers(f, v.texts[1])
  \/ v.is = "number" /\ f.type = "number" /\ AtLeast(v.number, f) /\ AtMost(v.number, f)
  \/ v.is = "true" /\ f.type = "checkbox"
  \/ v.is = "false" /\ f.type = "checkbox" /\ ~ f.required
  \/ v.is = "list" /\ ListAnswers(f, v.texts)

(* A note that is not too long. *)
ShortNote(k, v) == k = NotesKey /\ v.is = "text" /\ Length[v.texts[1]] <= maxNotesLen

(* A form that is accepted answers its schema, and one that answers it is    *)
(* accepted (intake.go, Validate): each required field has an answer, a box  *)
(* that must be ticked is; what is not required is answered or left blank;   *)
(* and nothing else comes with it but a note.                                *)
FormRight ==
  accepted # "no answer" /\ ParseSchema(fields) =>
    LET keys == { fields[i].key : i \in DOMAIN fields }
        left(f) == f.key \notin DOMAIN data \/ IsZero(data[f.key])
    IN accepted = "yes" <=>
         /\ \A i \in DOMAIN fields : IF left(fields[i]) THEN ~ fields[i].required
                                     ELSE Answers(fields[i], data[fields[i].key])
         /\ \A k \in DOMAIN data \ keys : ShortNote(k, data[k])

=============================================================================
