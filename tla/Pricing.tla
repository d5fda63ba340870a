------------------------------- MODULE Pricing -------------------------------
(***************************************************************************)
(* CalculateCost of internal/models/event.go: the price of a call when the *)
(* client gave none.  A model's name is a sequence of tokens, the parts    *)
(* the patterns of the price list are made of; prices are integers: a      *)
(* thousandth of a dollar per million tokens, so that costs come in        *)
(* billionths of a dollar.                                                 *)
(***************************************************************************)
EXTENDS Integers, Sequences

Price(name, input, output) == [name |-> name, input |-> input, output |-> output]

(* strings.ToLower, for the tokens with capitals that are used.             *)
LowerToken(token) ==
  CASE token = "GPT-4" -> "gpt-4"
    [] token = "Claude-3" -> "claude-3"
    [] OTHER -> token

ToLower(model) == [i \in DOMAIN model |-> LowerToken(model[i])]

NameContains(model, name) ==
  \E i \in 0 .. Len(model) - Len(name) :
    SubSeq(model, i + 1, i + Len(name)) = name

(* Wrong variant: the price list in the order of the model families.        *)
PricesByFamily(provider) ==
  CASE provider = "openai" ->
         << Price(<<"gpt-4">>, 30000, 60000),
            Price(<<"gpt-4", "o">>, 5000, 15000),
            Price(<<"gpt-4", "o", "-mini">>, 150, 600),
            Price(<<"gpt-4", "-turbo">>, 10000, 30000),
            Price(<<"gpt-3.5">>, 500, 1500), Price(<< >>, 5000, 15000) >>
    [] OTHER -> << Price(<< >>, 3000, 15000) >>

(* The cases of the switch, in its order, the default case last.            *)
Prices(provider) ==
  CASE provider = "openai" ->
         << Price(<<"gpt-4", "o", "-mini">>, 150, 600),
            Price(<<"gpt-4", "o">>, 5000, 15000),
            Price(<<"gpt-4", "-turbo">>, 10000, 30000),
            Price(<<"gpt-4">>, 30000, 60000),
            Price(<<"gpt-3.5">>, 500, 1500),
            Price(<< >>, 5000, 15000) >>
    [] provider = "anthropic" ->
         << Price(<<"claude-3", "-5", "-haiku">>, 800, 4000),
            Price(<<"claude-3", "-5", "-sonnet">>, 3000, 15000),
            Price(<<"claude-3", "-opus">>, 15000, 75000),
            Price(<<"claude-3", "-sonnet">>, 3000, 15000),
            Price(<<"claude-3", "-haiku">>, 250, 1250),
            Price(<< >>, 3000, 15000) >>
    [] provider = "gemini" ->
         << Price(<<"gemini-2.0", "-flash">>, 75, 300),
            Price(<<"gemini-1.5", "-flash">>, 75, 300),
            Price(<<"gemini-1.5", "-pro">>, 3500, 10500),
            Price(<<"gemini-2.0", "-pro">>, 3500, 10500),
            Price(<< >>, 75, 300) >>
    [] OTHER -> << Price(<< >>, 0, 0) >>

(* The first case whose pattern the model contains.                         *)
PriceOf(provider, model) ==
  LET list == Prices(provider)
      fits == {i \in DOMAIN list : NameContains(ToLower(model), list[i].name)}
  IN list[CHOOSE i \in fits : \A j \in fits : i <= j]

CalculateCost(provider, model, input, output) ==
  LET price == PriceOf(provider, model)
  IN input * price.input + output * price.output

(* Normalize gives a price to an event that comes without one.              *)
Normalized(event) ==
  IF event.cost # 0
  THEN event
  ELSE [event EXCEPT !.cost = CalculateCost(event.provider, event.model,
                                            event.input, event.output)]
=============================================================================
