---------------------------- MODULE InstrumentNames ----------------------------
(***************************************************************************)
(* The names of instruments: parse_instrument_name (src/utils/parsing.rs), *)
(* by which a stored transaction finds the underlying, the strike and the  *)
(* type of an option.                                                      *)
(*                                                                         *)
(* A name is the sequence of what stands between its spaces; accents, and  *)
(* the case of CALL and PUT, are left out.                                 *)
(***************************************************************************)
EXTENDS Naturals, Sequences

CONSTANTS
  Assets,       \* underlyings: sequences of words and numbers
  Strikes       \* numbers, as parts of a name

Part(kind, text) == [kind |-> kind, text |-> text]

ASSUME NamesAssumption ==
  /\ \A asset \in Assets :
       /\ asset # <<>> /\ asset \in Seq({asset[i] : i \in DOMAIN asset})
       /\ \A i \in DOMAIN asset : asset[i].kind \in {"word", "number"}
  /\ Assets # {} /\ Strikes # {}
  /\ \A strike \in Strikes : strike.kind \in {"number", "decimal"}

\* "Daily" and the like; a text in parentheses; one that IG cut off; "(Wed)27500", which
\* with decimals matches nothing.
PeriodWord == Part("period", "Weekly")
Paren      == Part("paren", "(Wed)")
CutParen   == Part("cut", "(Y100")

Glued(strike) == Part(IF strike.kind = "number" THEN "glued" ELSE "word", strike.text)

Types == {"CALL", "PUT"}

NoOption == "none"

Info(asset, strike, type) == [asset_name |-> asset, strike |-> strike, option_type |-> type]

VARIABLES
  naming,       \* what a name is composed of
  instrument_name, \* and the name
  parsed        \* ParsedOptionInfo

nam == <<naming, instrument_name, parsed>>

Upto(name, n) == SubSeq(name, 1, n)

Kind(name, i) == IF i \in DOMAIN name THEN name[i].kind ELSE "none"

\* What ends with a parenthesis ends before the first one, unless it begins there.
WithoutSuffix(name) ==
  LET parens == {i \in DOMAIN name \ {1} : name[i].kind = "paren"} IN
    IF parens = {} \/ Kind(name, Len(name)) # "paren" THEN name
    ELSE Upto(name, (CHOOSE i \in parens : \A j \in parens : i <= j) - 1)

\* clean_asset_name: one prefix, and the suffix of what is left.
CleanAssetName(name) ==
  WithoutSuffix(IF Len(name) > 1 /\ name[1].kind = "period" THEN Tail(name) ELSE name)

\* The place of the strike of an option with something before it, and after it a type and
\* what is in `ends`; 0 if it is none.
StrikeAt(name, kinds, ends) ==
  LET places == {i \in DOMAIN name :
                   /\ i > 1 /\ name[i].kind \in kinds /\ Kind(name, i + 1) = "type"
                   /\ \/ Len(name) = i + 1 /\ "none" \in ends
                      \/ Len(name) = i + 2 /\ Kind(name, i + 2) \in ends}
  IN IF places = {} THEN 0 ELSE CHOOSE i \in places : TRUE

Option(name, i) == Info(CleanAssetName(Upto(name, i - 1)), name[i].text, name[i + 1].text)

\* The patterns in their order: a parenthesis with a strike behind it takes no decimals.
ParseInstrumentName(name) ==
  LET plain == StrikeAt(name, {"number", "decimal"}, {"none", "paren"})
      glued == StrikeAt(name, {"glued"}, {"none", "paren"})
      cut   == StrikeAt(name, {"number", "decimal"}, {"cut"})
  IN CASE plain # 0 -> Option(name, plain)
       [] plain = 0 /\ glued # 0 -> Option(name, glued)
       [] plain = 0 /\ glued = 0 /\ cut # 0 -> Option(name, cut)
       [] OTHER -> Info(CleanAssetName(WithoutSuffix(name)), NoOption, NoOption)

\* is_call and is_put of the types that have a name: the word anywhere in it.
IsTypeName(name, type) == \E i \in DOMAIN name : name[i] = Part("type", type)

\* Every form of a name: with a period, a day, a strike and a type, and what follows.
Forms == [asset : Assets, period : BOOLEAN, day : {"none", "spaced", "glued"},
           option : BOOLEAN, strike : Strikes, type : Types,
          ending : {<<>>, <<Paren>>, <<CutParen>>}]

Composed(w) ==
  (IF w.period THEN <<PeriodWord>> ELSE <<>>) \o w.asset
    \o (IF w.day = "spaced" THEN <<Paren>> ELSE <<>>)
    \o (IF ~w.option THEN <<>>
        ELSE <<IF w.day = "glued" THEN Glued(w.strike) ELSE w.strike, Part("type", w.type)>>)
    \o w.ending

NamesInit ==
  /\ naming = CHOOSE w \in Forms : TRUE
  /\ instrument_name = <<>>
  /\ parsed = Info(<<>>, NoOption, NoOption)

ReadName ==
  /\ instrument_name = <<>>
  /\ naming' \in Forms
  /\ instrument_name' = Composed(naming')
  /\ parsed' = ParseInstrumentName(instrument_name')
-----------------------------------------------------------------------------
(* Properties.                                                             *)

NamesTypeOK ==
  /\ naming \in Forms
  /\ parsed.option_type \in Types \cup {NoOption}

\* What an option is called gives back its underlying, strike and type, whatever else its
\* name says, except for a strike with decimals right behind a parenthesis and a text
\* that is cut off behind such a strike; and no other instrument is taken for an option,
\* although its name ends with a number.  Where an option is read, is_call and is_put say
\* the same of it; where it is not, they alone still tell a call from a put.
NamesTell ==
  instrument_name # <<>> =>
    LET lost == naming.day = "glued"
                  /\ (naming.strike.kind = "decimal" \/ naming.ending = <<CutParen>>)
    IN /\ naming.option /\ ~lost =>
            parsed = Info(naming.asset, naming.strike.text, naming.type)
       /\ ~naming.option \/ lost => parsed.strike = NoOption /\ parsed.option_type = NoOption
       /\ \A type \in Types :
            /\ IsTypeName(instrument_name, type) <=> naming.option /\ naming.type = type
            /\ parsed.option_type = type => IsTypeName(instrument_name, type)
       /\ ~naming.option /\ naming.ending # <<CutParen>> => parsed.asset_name = naming.asset
=============================================================================
