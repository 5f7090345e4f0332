------------------------------ MODULE WireValues ------------------------------
(***************************************************************************)
(* The fields of a streamed record in JSON, read, written and read again:  *)
(* the serde modules of src/presentation/serialization.rs and the          *)
(* attributes of the records that use them.                                *)
(*                                                                         *)
(* A value of JSON is a kind and a text; a number is written as the text of*)
(* one, "1.0" for the number that "1" is too.                              *)
(***************************************************************************)
EXTENDS Naturals

\* What a field is on the wire, in words: integers, a fraction, what is not finite, nothing,
\* and anything else.
Texts == {"0", "1", "0.0", "1.0", "2.5", "NaN", "", "other"}

Json(kind, text) == [kind |-> kind, text |-> text]

Absent   == Json("absent", "")
JsonNull == Json("null", "")

Wires == {Absent, JsonNull, Json("bool", "true")}
           \cup {Json("number", text) : text \in {"0", "1", "0.0", "1.0", "2.5"}}
           \cup {Json("string", text) : text \in Texts}

\* The modules that fields are declared with; "plain" is an Option<String> without one.
Codecs == {"float", "int", "bool", "text", "plain"}

\* Of the attributes of a record's fields: whether one that is none is left out, and whether
\* one that is left out is taken for none.  All fields of a record have the same.
Fields(skips, defaults) == [skips |-> skips, defaults |-> defaults]

PriceFieldsAttr   == Fields(TRUE, TRUE)
AccountFieldsAttr == Fields(TRUE, FALSE)
ChartFieldsAttr   == Fields(FALSE, TRUE)
MarketFieldsAttr  == Fields(FALSE, TRUE)
DealUpdateAttr    == Fields(FALSE, TRUE)

Records == [price |-> PriceFieldsAttr, account |-> AccountFieldsAttr, chart |-> ChartFieldsAttr,
            market |-> MarketFieldsAttr, deal |-> DealUpdateAttr]

VARIABLES
  layout,       \* the record a field is of, "none" before one is read
  codec,        \* and how it is declared
  wire,         \* what was received
  value,        \* what was read
  rewritten,    \* value, written
  reread        \* and read again

wir == <<layout, codec, wire, value, rewritten, reread>>

NoValue    == "None"
Unreadable == "error"

\* parse::<f64> and as_f64: "1.0" is the number 1.
Float(text) ==
  CASE text \in {"0", "1", "2.5", "NaN"} -> text
    [] text = "0.0" -> "0"
    [] text = "1.0" -> "1"
    [] OTHER -> Unreadable

\* parse::<i64> and as_i64 take no decimal point.
Integer(text) == IF text \in {"0", "1"} THEN text ELSE Unreadable

\* A number, or a string that holds one.
Numeric(json, parsed) ==
  CASE json.kind = "null" \/ json = Json("string", "") -> NoValue
    [] json.kind \in {"number", "string"} /\ json.text # "" -> parsed
    [] OTHER -> Unreadable

Flag(text) == IF text \in {"0", "1"} THEN text ELSE Unreadable

\* Option::<String> and what is made of it.
Textual(json, converted) ==
  CASE json.kind = "null" -> NoValue
    [] json.kind = "string" -> converted
    [] OTHER -> Unreadable

EmptyAsNone(text) == IF text = "" THEN NoValue ELSE text

BoolOrNone(text) == IF text = "" THEN NoValue ELSE Flag(text)

Decode(coding, json) ==
  CASE coding = "float" -> Numeric(json, Float(json.text))
    [] coding = "int"   -> Numeric(json, Integer(json.text))
    [] coding = "bool"  -> Textual(json, BoolOrNone(json.text))
    [] coding = "text"  -> Textual(json, EmptyAsNone(json.text))
    [] coding = "plain" -> Textual(json, json.text)

\* serde: a field that is missing is an error, unless it has a default or is a plain Option.
Read(shape, coding, json) ==
  IF json = Absent
  THEN IF Records[shape].defaults \/ coding = "plain" THEN NoValue ELSE Unreadable
  ELSE Decode(coding, json)

\* A float that is not finite has no number in JSON.
Encode(coding, x) ==
  IF x = NoValue \/ (coding = "float" /\ x = "NaN") \/ (coding = "text" /\ x = "") THEN JsonNull
  ELSE CASE coding = "float" -> Json("number", CASE x = "0" -> "0.0" [] x = "1" -> "1.0" [] OTHER -> x)
         [] coding = "int"   -> Json("number", x)
         [] OTHER            -> Json("string", x)

Written(shape, coding, x) ==
  IF x = NoValue /\ Records[shape].skips THEN Absent ELSE Encode(coding, x)

WireInit ==
  /\ layout = "none" /\ codec = "float" /\ wire = JsonNull
  /\ value = NoValue /\ rewritten = Absent /\ reread = NoValue

\* A record is received, stored, and loaded again.
ReadRecord ==
  /\ layout = "none"
  /\ layout' \in DOMAIN Records /\ codec' \in Codecs /\ wire' \in Wires
  /\ value' = Read(layout', codec', wire')
  /\ rewritten' = IF value' = Unreadable THEN Absent ELSE Written(layout', codec', value')
  /\ reread' = IF value' = Unreadable THEN Unreadable ELSE Read(layout', codec', rewritten')
-----------------------------------------------------------------------------
(* Properties.                                                             *)

WireTypeOK ==
  /\ layout \in DOMAIN Records \cup {"none"} /\ codec \in Codecs
  /\ wire \in Wires /\ rewritten \in Wires
  /\ {value, reread} \subseteq Texts \cup {NoValue, Unreadable}

\* A record reads back as it was written, with two exceptions: a float that is not finite
\* becomes none, and an account record with a field of none is not readable.  A time
\* is never rounded, and nothing but a text of IG is a flag.
WireTells ==
  value # Unreadable =>
    /\ reread = CASE value = NoValue /\ layout = "account" /\ codec # "plain" -> Unreadable
                  [] value = "NaN" /\ codec = "float" -> NoValue
                  [] OTHER -> value
    /\ codec = "int" /\ value # NoValue => value = wire.text
    /\ codec = "bool" /\ value # NoValue => wire.kind = "string"
=============================================================================
