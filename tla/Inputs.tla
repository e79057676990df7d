--------------------------------- MODULE Inputs ---------------------------------
(***************************************************************************)
(* What the system takes from outside: a reply of the stream, which        *)
(* parse_stream takes apart; the text of an "/autotrade on", which becomes *)
(* a filter; and a file of the backtest, with the indicators computed from *)
(* it.  Each grows by one element at a time, up to a bound.                *)
(***************************************************************************)
EXTENDS StreamReply, FilterExpression, Backtest

CONSTANTS
  Ids, Keys, Words,     \* of a reply's entries: ids, and the fields' keys and values
  MaxReply, MaxFields,  \* bounds: entries of a reply, fields of an entry
  Tokens, MaxText,      \* of a text, and bound: its length
  Services              \* what the TA service may have: signals for each interval

(* Its answers are JSON, which has no NaN.                                  *)
ASSUME ServicesAnswerNumbers ==
  \A service \in Services : \A interval \in DOMAIN service :
    /\ DOMAIN service[interval] \subseteq Indicators
    /\ \A name \in DOMAIN service[interval] : service[interval][name] # NaN

VARIABLES entries, text

StreamEntry == [id : Ids, fields : BoundedSeq(Keys \X Words, MaxFields)]

InputsInit == entries = <<>> /\ text = <<>> /\ Init

GrowReply == /\ text = <<>> /\ rows = <<>> /\ Len(entries) < MaxReply
             /\ \E e \in StreamEntry : entries' = Append(entries, e)
             /\ UNCHANGED <<text, vars>>

GrowText  == /\ entries = <<>> /\ rows = <<>> /\ Len(text) < MaxText
             /\ \E token \in Tokens : text' = Append(text, token)
             /\ UNCHANGED <<entries, vars>>

Simulate  == entries = <<>> /\ text = <<>> /\ Next /\ UNCHANGED <<entries, text>>

inputs == <<entries, text, vars>>

InputsSpec == InputsInit /\ [][GrowReply \/ GrowText \/ Simulate]_inputs
-------------------------------------------------------------------------------
(* A field <<key, value>> that holds an intent.                             *)
IsIntent(field) == field[1] = "intent" /\ field[2] \notin Malformed

(* The intents among fields: <<id, <<key, value>>>>, in their order.        *)
IntentsAmong(fields) ==
  LET kept[i \in 0 .. Len(fields)] ==
        IF i = 0 THEN <<>>
        ELSE IF ~IsIntent(fields[i][2]) THEN kept[i - 1]
        ELSE Append(kept[i - 1], [id |-> fields[i][1], intent |-> fields[i][2][2]])
  IN kept[Len(fields)]

(* main.rs: of a reply in the shape parse_stream walks, every "intent"      *)
(* field of every entry that decodes, in order, under the entry's id, and   *)
(* nothing else: no other field is taken for an intent, and one that does   *)
(* not decode takes no other with it.  Of a reply in the shape Redis sends, *)
(* nothing, whatever it holds.                                              *)
IntentsParsedByShape ==
  /\ ParseStream(FlatReply(entries)) =
       IntentsAmong(FlattenSeq([k \in DOMAIN entries |->
                      [f \in DOMAIN entries[k].fields |->
                         <<entries[k].id, entries[k].fields[f]>>]]))
  /\ ParseStream(Resp2Reply("trade-intents", entries)) = <<>>

(* filters/mod.rs and handlers.go: a filter lets a trade through only if    *)
(* the user's first word is one comparison, and it holds on the interval of *)
(* the second word, or 1m; blocks it only if that comparison does not hold; *)
(* and fails it, rather than letting it through, whatever else was typed.   *)
GatesOnWhatWasTyped ==
  \A service \in Services : \A filter \in NewFilters(text) :
    LET word == Fields(text)[1]
        interval == IF Len(Fields(text)) = 1 THEN <<"1m">> ELSE Fields(text)[2]
        typed == {c \in Indicators \X {"<", ">"} \X Numerals :
                    word = c /\ interval \in DOMAIN service
                             /\ c[1] \in DOMAIN service[interval]}
        holds(c) == LET v == service[interval][c[1]]  t == ValueOf(c[3])
                    IN t # NaN /\ IF c[2] = "<" THEN v < t ELSE v > t
    IN Evaluate(filter, service) =
         IF typed = {} THEN "failed"
         ELSE IF \A c \in typed : holds(c) THEN "allowed" ELSE "blocked"
===============================================================================
