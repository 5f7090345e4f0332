---------------------------- MODULE StreamUpdates ----------------------------
(***************************************************************************)
(* What becomes of a streamed update: StreamingUpdate and the conversions  *)
(* of src/application/streaming_convert.rs, the field parsers of           *)
(* src/presentation, and the quote that StreamQuote::merged keeps          *)
(* (src/application/quote_streamer.rs).                                    *)
(*                                                                         *)
(* An item has one field of each class its kind has: a number; a choice,   *)
(* which is one of a list of words, or JSON of a type; and a text that is  *)
(* kept as it is.  A kind parses all its fields of a class alike.          *)
(* market_subscribe makes PriceData of its fields, as price_subscribe      *)
(* does; "market" is the conversion to MarketData, which a caller applies. *)
(***************************************************************************)
EXTENDS Naturals

CONSTANTS
  Numbers,      \* texts that parse as a number
  Words,        \* texts that a choice and a text may be
  Null,         \* FieldValue::Null
  Empty,        \* an empty text
  Bad           \* a text that the field's parser refuses

Values == Numbers \cup Words

Failed == "failed"

ASSUME UpdatesAssumption ==
  /\ {Null, Empty, Bad, Failed} \cap Values = {}
  /\ Null # Empty /\ Bad \notin {Null, Empty} /\ Failed \notin {Null, Empty, Bad}

Classes == {"number", "choice", "text"}

\* The classes of the fields of src/model/streaming.rs: flags and states are choices, times
\* and ids texts, the end of a candle a choice; deals are JSON.
PriceSchema   == Classes
MarketSchema  == Classes
ChartSchema   == {"number", "choice"}
AccountSchema == {"number"}

Schema == [price |-> PriceSchema, market |-> MarketSchema, chart |-> ChartSchema,
           account |-> AccountSchema, trade |-> {"choice", "text"},
           quote |-> {"number", "choice"}]

VARIABLES
  streamed,     \* the kind of the subscription; that of a quote is one of prices
  chosen_fields,\* the fields subscribed to
  item,         \* the state of the item, as the update carries it: `fields`
  carried,      \* the fields of the update itself: `changed_fields`
  record,       \* what the conversion made of it
  quote,        \* the quote merged so far
  heard         \* history: per field the last value of an item that could be read

upd == <<streamed, chosen_fields, item, carried, record, quote, heard>>

NoFields == [c \in Classes |-> Null]

Number(text) == CASE text \in {Null, Empty} -> Null
                  [] text = Bad             -> Failed
                  [] OTHER                  -> text

Filled(text) == IF text = Empty THEN Null ELSE text

\* create_price_fields: an empty flag or delay is none.
PriceFields(map) ==
  [number |-> Number(map.number), choice |-> Number(map.choice), text |-> map.text]

\* create_market_fields: an empty state or delay is refused like an unknown one.
MarketFields(map) ==
  [number |-> Number(map.number), text |-> map.text,
   choice |-> IF map.choice \in {Empty, Bad} THEN Failed ELSE map.choice]

\* create_chart_fields
ChartFields(map) ==
  [number |-> Number(map.number), choice |-> Number(map.choice), text |-> Null]

\* create_account_fields
AccountFields(map) == [number |-> Number(map.number), choice |-> Null, text |-> Null]

\* create_trade_fields
TradeFields(map) ==
  [number |-> Null, choice |-> Number(map.choice), text |-> Filled(map.text)]

Parsed(kind, map) ==
  CASE kind \in {"price", "quote"} -> PriceFields(map)
    [] kind = "market"  -> MarketFields(map)
    [] kind = "chart"   -> ChartFields(map)
    [] kind = "account" -> AccountFields(map)
    [] kind = "trade"   -> TradeFields(map)

Fails(fields) == \E c \in Classes : fields[c] = Failed

\* Only the fields of the update; the others are not in its map.
Carried(map, classes) == [c \in Classes |-> IF c \in classes THEN map[c] ELSE Null]

Default == [fields |-> NoFields, changed |-> NoFields]

\* from_fields, and the default that the conversions fall back to.
Converted(kind, map, classes) ==
  LET fields  == Parsed(kind, map)
      changed == Parsed(kind, Carried(map, classes))
  IN IF Fails(fields) \/ Fails(changed) THEN Default
     ELSE [fields |-> fields, changed |-> changed]

\* Mutant: the quote takes what the update changed.
MergedChanges(previous, data) ==
  [c \in Classes |-> IF data.changed[c] # Null THEN data.changed[c] ELSE previous[c]]

\* StreamQuote::merged: a field the record has replaces the one of the quote.
Merged(previous, data) ==
  [c \in Classes |-> IF data.fields[c] # Null THEN data.fields[c] ELSE previous[c]]

UpdatesInit ==
  /\ streamed = "price" /\ chosen_fields = PriceSchema
  /\ item = NoFields /\ carried = {}
  /\ record = Default
  /\ quote = NoFields
  /\ heard = NoFields

\* The wire names of a set of fields; an empty one is refused as a schema.
FieldNames(kind) ==
  IF kind \in {"trade", "quote"} THEN {Schema[kind]} ELSE (SUBSET Schema[kind]) \ {{}}

\* A subscription is made, or made again after it was dropped: its item starts anew.
Stream ==
  /\ streamed' \in DOMAIN Schema
  /\ chosen_fields' \in FieldNames(streamed')
  /\ item' = NoFields /\ carried' = {}
  /\ record' = Default
  /\ quote' = NoFields /\ heard' = NoFields

Offered == [number |-> Numbers \cup {Null, Bad}, choice |-> Words \cup {Null, Empty, Bad},
            text |-> Words \cup {Null, Empty}]

\* What the texts of an item mean, whichever update brought them.
Readable(map) ==
  \A c \in Classes : map[c] # Bad /\ ~(streamed = "market" /\ c = "choice" /\ map[c] = Empty)

\* IG sends an update of some fields: all that the subscription has in a snapshot, the
\* changed ones afterwards.
Receive ==
  /\ UNCHANGED <<streamed, chosen_fields>>
  /\ carried' \in (SUBSET chosen_fields) \ {{}}
  /\ LET New(c) == IF c \in carried' THEN Offered[c] ELSE {item[c]} IN
       item' \in [number : New("number"), choice : New("choice"), text : New("text")]
  /\ record' = Converted(streamed, item', carried')
  /\ quote' = IF streamed = "quote" THEN Merged(quote, record') ELSE quote
  /\ heard' = IF Readable(item') /\ streamed = "quote"
              THEN [c \in Classes |-> IF item'[c] \in Values THEN item'[c] ELSE heard[c]]
              ELSE heard
-----------------------------------------------------------------------------
(* Properties.                                                             *)

UpdatesTypeOK ==
  /\ streamed \in DOMAIN Schema /\ chosen_fields \in FieldNames(streamed)
  /\ carried \subseteq chosen_fields
  /\ \A c \in Classes : item[c] \in Offered[c] \cup {Null}
  /\ \A part \in {record.fields, record.changed, quote, heard} :
       part \in [Classes -> Values \cup {Null, Empty}]

\* No update is told partly or from an older one: a record holds every field of IG's item,
\* or none as long as one of them cannot be read, and nothing of a field that was not
\* subscribed to; what it calls changed agrees with it.  An
\* update that was lost in this way is made up by the next that can be read: a quote tells
\* the last readable value of each field, also of fields that arrived with one that could
\* not be read and did not change since.
UpdatesTell ==
  /\ \A c \in Schema[streamed] :
       /\ item[c] \in Values =>
            record.fields[c] = (IF Readable(item) THEN item[c] ELSE Null)
       /\ c \notin chosen_fields => record.fields[c] = Null
       /\ record.changed[c] \in {Null, record.fields[c]}
       /\ record.changed[c] # Null => c \in carried
  /\ streamed = "quote" =>
       \A c \in Schema.quote :
         /\ quote[c] = heard[c]
         /\ Readable(item) /\ item[c] \in Values => quote[c] = item[c]
=============================================================================
