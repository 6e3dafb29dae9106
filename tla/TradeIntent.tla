---------------------------- MODULE TradeIntent ----------------------------
(***************************************************************************)
(* sentinel_trade_intent.v1 between three commands that are piped into one *)
(* another, or used alone: llm_generate_intent makes an intent of a local  *)
(* model's answer, sentinel_trade_intent_schema_gate passes it on or not,  *)
(* consume_trade_intent validates it again and picks its card.  Each has a *)
(* copy of the rules of its own.                                           *)
(*                                                                         *)
(* Of an answer it is kept whether a JSON object can be taken from it,     *)
(* whether that lacks a key or has one too many, its mode, its side, and   *)
(* whether its asset and notes read as they should.                        *)
(***************************************************************************)
Side == {"LONG", "SHORT", "FLAT"}
Answer ==
    [json: {"object", "broken"}, keys: {"short", "exact", "extra"},
     mode: {"DRY_RUN", "LIVE"}, side: Side \cup {"other"}, text: {"good", "bad"}]

(* The whole answer is an object, or the first that its braces enclose is. *)
Extracted(answer) ==
    [keys |-> answer.keys, mode |-> answer.mode, side |-> answer.side, text |-> answer.text]

(* Whatever the model said, the intent is a dry run, with an id of its own.*)
Completed(answer) == [Extracted(answer) EXCEPT !.mode = "DRY_RUN"]

ReadsWell(intent) == intent.side \in Side /\ intent.text = "good"
GeneratorEmits(answer) ==
    answer.json = "object" /\ answer.keys # "short" /\ ReadsWell(Completed(answer))

(* The gate alone refuses a key too many.                                  *)
GatePasses(intent) ==
    intent.keys = "exact" /\ intent.mode = "DRY_RUN" /\ ReadsWell(intent)

ConsumerAccepts(intent) ==
    intent.keys # "short" /\ intent.mode = "DRY_RUN" /\ ReadsWell(intent)

(* What a consumer may find on its standard input: an intent that was      *)
(* generated, one that the gate passed, or any that was written by hand.   *)
Arrives(way, answer) ==
    CASE way = "written"   -> answer.json = "object"
      [] way = "gated"     -> answer.json = "object" /\ GatePasses(Extracted(answer))
      [] way = "generated" -> GeneratorEmits(answer)
      [] way = "piped"     -> GeneratorEmits(answer) /\ GatePasses(Completed(answer))
Arrived(way, answer) ==
    IF way \in {"generated", "piped"} THEN Completed(answer) ELSE Extracted(answer)

(* _card_eval: an intent to do nothing is judged too, and blocked.         *)
Card(intent) ==
    IF intent.side = "FLAT"
    THEN [status |-> "BLOCKED", side |-> "FLAT"]
    ELSE [status |-> "ACCEPTED", side |-> intent.side]
=============================================================================
