--------------------------- MODULE FilterExpression ----------------------------
(***************************************************************************)
(* What becomes of the text after "/autotrade on": the bot splits it into  *)
(* fields (handlers.go, handleAutoTrade), the orchestrator keeps the first *)
(* as an expression and the second as an interval (main.rs, handle_action) *)
(* and evaluates them for each trade on the TA service's signals           *)
(* (filters/mod.rs).  Nobody checks the text before that.                  *)
(*                                                                         *)
(* A text is a sequence of tokens: the two operators, a space, names of    *)
(* indicators, numerals and other words.  Adjacent words are one word,     *)
(* which is neither a known name nor a numeral.                            *)
(***************************************************************************)
EXTENDS Floats, SequencesExt

CONSTANTS
  Indicators,  \* names the TA service may send a value for
  Numerals,    \* numerals; f64's parser reads "nan" and "inf", too
  ValueOf(_)   \* the number a numeral stands for, or NaN

ASSUME OperatorsAreNoWords == {"<", ">"} \cap (Indicators \cup Numerals) = {}

(* strings.Fields: the maximal runs of tokens other than a space. *)
Fields(text) ==
  LET space(i) == i \notin DOMAIN text \/ text[i] = " "
      end(i) == CHOOSE j \in i .. Len(text) :
                  space(j + 1) /\ \A k \in i .. j : ~space(k)
      fields[i \in 0 .. Len(text)] ==
        IF i = 0 THEN <<>>
        ELSE IF space(i) \/ ~space(i - 1) THEN fields[i - 1]
        ELSE Append(fields[i - 1], SubSeq(text, i, end(i)))
  IN fields[Len(text)]

(* "/autotrade on": the filter the orchestrator will hold, if any.          *)
NewFilters(text) ==
  LET parts == Fields(text)
  IN IF parts = <<>> THEN {}
       ELSE {[expression |-> parts[1],
              interval   |-> IF Len(parts) > 1 THEN parts[2] ELSE <<"1m">>]}

(* Comparisons of floats: none holds with NaN on a side. *)
Holds(value, op, threshold) ==
  /\ value # NaN /\ threshold # NaN
  /\ IF op = "<" THEN value < threshold ELSE value > threshold

(* Mutant: what follows the numeral is ignored. *)
ComparedLoosely(op, lhs, rhs, signals) ==
  IF rhs = <<>> \/ rhs[1] \notin Numerals THEN "failed"
  ELSE IF Len(lhs) # 1 \/ lhs[1] \notin DOMAIN signals THEN "failed"
  ELSE IF Holds(signals[lhs[1]], op, ValueOf(rhs[1])) THEN "allowed" ELSE "blocked"

(* One of the two forms, cut at its operator: the threshold must parse, then *)
(* the indicator must be there.                                             *)
Compared(op, lhs, rhs, signals) ==
  IF Len(rhs) # 1 \/ rhs[1] \notin Numerals THEN "failed"
  ELSE IF Len(lhs) # 1 \/ lhs[1] \notin DOMAIN signals THEN "failed"
  ELSE IF Holds(signals[lhs[1]], op, ValueOf(rhs[1])) THEN "allowed" ELSE "blocked"

(* parse_expression: the first "<" decides, else the first ">".             *)
ParseExpression(expr, signals) ==
  LET cut(op) == SelectInSeq(expr, LAMBDA t : t = op)
      compared(op) == Compared(op, SubSeq(expr, 1, cut(op) - 1),
                               SubSeq(expr, cut(op) + 1, Len(expr)), signals)
  IN IF cut("<") # 0 THEN compared("<")
     ELSE IF cut(">") # 0 THEN compared(">") ELSE "failed"

(* evaluate: the TA service has signals for some intervals, and answers an  *)
(* error for every other.                                                   *)
Evaluate(filter, service) ==
  IF filter.interval \in DOMAIN service
    THEN ParseExpression(filter.expression, service[filter.interval])
    ELSE "failed"
===============================================================================
