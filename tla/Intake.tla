-------------------------------- MODULE Intake --------------------------------
(***************************************************************************)
(* The intake form of internal/intake: schemas, and the data of a booking   *)
(* checked against one.                                                     *)
(*                                                                         *)
(* A value is what JSON decodes to: nothing, true, false, a number, a text  *)
(* or a list; texts are its items, or the text itself.  Of a text is        *)
(* followed what the checks ask: whether it is blank, how long it is,       *)
(* whether it is an address, a date or the text of a number, and which      *)
(* patterns it matches.                                                     *)
(***************************************************************************)
EXTENDS Integers, FiniteSets, Sequences

CONSTANTS
  Text,          \* texts
  NotText,       \* an item of a list that is no text
  Blank,         \* those of spaces only, the empty one among them
  Length,        \* Length[t]
  Address, Date, \* those that are mail addresses, and dates
  Numeral,       \* Numeral[t]: the number t is the text of, NaN included
  NaN,           \* the number that compares with nothing
  NotesKey,      \* the key allowed in every form
  maxNotesLen    \* the longest note

ASSUME IntakeAssumption ==
  /\ Blank \subseteq Text /\ Address \subseteq Text /\ Date \subseteq Text
  /\ Length \in [Text -> Nat]
  /\ DOMAIN Numeral \subseteq Text /\ NaN \notin Int
  /\ \A t \in DOMAIN Numeral : Numeral[t] \in Int \cup { NaN }
  /\ maxNotesLen \in Nat

FieldType == { "text", "textarea", "select", "multiselect", "checkbox",
               "tel", "email", "number", "date" }

(* A pattern is the set of the texts it matches, or BadPattern; no pattern   *)
(* matches all.  max_length 0 is none, and min and max are sets of at most   *)
(* one number.                                                               *)
BadPattern == { "unreadable pattern" }

Field(key, type, required) ==
  [ key |-> key, type |-> type, required |-> required, max_length |-> 0,
    pattern |-> Text, options |-> {}, min |-> {}, max |-> {} ]

(* A schema that can be used: each key once, known types, options to select  *)
(* from, patterns that can be read.  Its keys are taken as well-formed: that  *)
(* the code wants them in small letters, digits and underscores is left out. *)
ParseSchema(fields) ==
  /\ \A i, j \in DOMAIN fields : fields[i].key = fields[j].key => i = j
  /\ \A i \in DOMAIN fields :
       LET f == fields[i]
       IN /\ f.type \in FieldType
          /\ f.type \in { "select", "multiselect" } => f.options # {}
          /\ f.pattern # BadPattern

Value == [ is : { "nil", "true", "false", "number", "text", "list" },
           texts : Seq(Text \cup { NotText }), number : Int ]

IsZero(v) == \/ v.is = "nil"
             \/ v.is = "text" /\ v.texts[1] \in Blank
             \/ v.is = "list" /\ v.texts = << >>

(* The numbers a value stands for, of which there are one or none. *)
ToFloat(v) == CASE v.is = "number" -> { v.number }
                [] v.is = "text" /\ v.texts[1] \in DOMAIN Numeral -> { Numeral[v.texts[1]] }
                [] OTHER -> {}

Less(m, n) == NaN \notin {m, n} /\ m < n

ValidateValue(f, v) ==
  CASE f.type \in { "text", "textarea", "tel" } ->
         /\ v.is = "text"
         /\ f.max_length > 0 => Length[v.texts[1]] <= f.max_length
         /\ v.texts[1] \in f.pattern
    [] f.type = "email" -> v.is = "text" /\ v.texts[1] \in Address
    [] f.type = "number" ->
         \E n \in ToFloat(v) : /\ \A m \in f.min : ~ Less(n, m)
                               /\ \A m \in f.max : ~ Less(m, n)
    [] f.type = "date" -> v.is = "text" /\ v.texts[1] \in Date
    [] f.type = "checkbox" -> v.is \in { "true", "false" }
    [] f.type = "select" -> v.is = "text" /\ v.texts[1] \in f.options
    [] f.type = "multiselect" ->
         /\ v.is = "list"
         /\ \A i \in DOMAIN v.texts : v.texts[i] \in f.options
         /\ \A i, j \in DOMAIN v.texts : v.texts[i] = v.texts[j] => i = j

(* Mutant: a required box that is not ticked passes. *)
FieldErrorBoxUnticked(f, data) ==
  IF f.key \notin DOMAIN data \/ IsZero(data[f.key]) THEN f.required
  ELSE ~ ValidateValue(f, data[f.key])

FieldError(f, data) ==
  IF f.key \notin DOMAIN data \/ IsZero(data[f.key]) THEN f.required
  ELSE \/ f.required /\ f.type = "checkbox" /\ data[f.key].is # "true"
       \/ ~ ValidateValue(f, data[f.key])

(* A key the schema does not have: only a note, a text and not too long. *)
UnknownError(k, v) ==
  k # NotesKey \/ v.is # "text" \/ Length[v.texts[1]] > maxNotesLen

(* The keys with an error; none if the data is valid. *)
Validate(fields, data) ==
  { fields[i].key : i \in { j \in DOMAIN fields : FieldError(fields[j], data) } }
  \cup { k \in DOMAIN data \ { fields[i].key : i \in DOMAIN fields } :
           UnknownError(k, data[k]) }

(* Run goes on with the data if the schema can be used and no key is wrong. *)
Accepts(fields, data) == ParseSchema(fields) /\ Validate(fields, data) = {}

=============================================================================
