-------------------------------- MODULE Parser --------------------------------
(***************************************************************************)
(* The command parser, src/src/parser.c, over the tokens of                 *)
(* src/src/tokenizer.c, and the conditions it builds, src/src/condition.c.  *)
(* A line is made token by token as Tokenizer reads it: `next` is the       *)
(* token it holds for peeking, `input` the line as far as it is read.  The  *)
(* calls of __parse_expression that are open are the stack `calls`.  A      *)
(* condition is a number, its place in `conds`, and 0 is NULL.  What the    *)
(* tokenizer reads behind a token that a command is refused for is left     *)
(* out.                                                                     *)
(***************************************************************************)
EXTENDS Tokenizer

CONSTANTS
    Ints, Floats, Strings, \* the literals of a line, by their tokens' tags
    Value,     \* what each of them stands for
    Within,  \* strstr: pairs of a string and one that is within it
    Alphabets, \* what lines are made of: sets of tokens with the greatest number of them
    Garbage    \* the tags that an uninitialised Expression may have

OperatorsNotLast == <<"OR", "AND", "IN", "<", ">", "=", "NOT", ")", "(">> \* slip: NOT binds closest

OperatorsAndFirst == <<"AND", "OR", "NOT", "IN", "<", ">", "=", ")", "(">> \* slip: AND and OR

\* OpTag, from the lowest to the highest binding power
Operators == <<"OR", "AND", "NOT", "IN", "<", ">", "=", ")", "(">>

Literals == Ints \cup Floats \cup Strings

ASSUME TokensAssumption ==
    /\ \A a \in Alphabets :
          /\ a.tokens \subseteq Commands \cup Column \cup Literals \cup Range(Operators) \cup {"SORT BY", "UNK"}
          /\ a.length \in Nat
    /\ Garbage \subseteq {"ATOM", "CONDITION"}

VARIABLES
    alphabet,  \* one of Alphabets
    next,      \* last_token of the tokenizer
    input,     \* every token read
    ended,     \* current = NULL
    fileMode,  \* take_filename_and_end
    step,      \* where parse_command is
    tag,       \* the tag of the command
    err,       \* what is returned if it is not "ok"
    calls,     \* the open calls of __parse_expression, the innermost last
    ret,       \* the expression the last of them has returned
    conds,     \* every condition allocated
    freed,     \* those freed
    destroyed, \* those Condition_destroy was called with
    filter,    \* the condition of the command
    column, pairs \* a column and what column-value pairs were read

tokens == <<alphabet, next, input, ended, fileMode>>
memory == <<conds, freed, destroyed>>
result == <<tag, err, filter, column, pairs>>
vars == <<tokens, step, calls, ret, memory, result>>

-----------------------------------------------------------------------------
(* The tokenizer.                                                           *)

\* The tokens that can be read next.  UNK, a file's name and the end end the line.
Follow(rest, file, read) ==
    IF rest THEN {"EOF"}
    ELSE IF file THEN {"FILE", "EOF"}
    ELSE {"EOF"} \cup (IF Len(read) < alphabet.length THEN alphabet.tokens ELSE {})

Read(t) ==
    /\ next' = t
    /\ input' = IF t = "EOF" THEN input ELSE Append(input, t)
    /\ ended' = (ended \/ t \in {"EOF", "UNK", "FILE"})
    /\ fileMode' = (fileMode \/ t \in {"OPEN", "SAVE"})
    /\ UNCHANGED alphabet

Advance == \E t \in Follow(ended, fileMode, input) : Read(t)

-----------------------------------------------------------------------------
(* Expressions.                                                             *)

None == [tag |-> "NONE", value |-> "none"]

Uninitialised == [tag |-> "UNINITIALISED", value |-> "none"]

FromTokenNoFloat(t) == \* slip: a type that nothing is made of
    IF t \in Floats THEN Uninitialised
    ELSE [tag |-> IF t \in Column THEN "COLUMN" ELSE IF t \in Ints THEN "INT" ELSE "STRING", value |-> t]

FromToken(t) ==
    [tag |-> IF t \in Column THEN "COLUMN" ELSE IF t \in Ints THEN "INT"
             ELSE IF t \in Floats THEN "FLOAT" ELSE "STRING",
     value |-> t]

OpTag(op) == CHOOSE i \in DOMAIN Operators : Operators[i] = op

lbp(op) == OpTag(op) * 2 - 1

rbp(op) == OpTag(op) * 2

Infix == {"OR", "AND", "IN", "<", ">", "="}

Supports(op, lhs) ==
    \/ op = "=" /\ lhs.tag = "COLUMN"
    \/ op \in {"<", ">"} /\ lhs.tag = "COLUMN" /\ Column_type[lhs.value] # "string"
    \/ op = "IN" /\ lhs.tag = "STRING"
    \/ op \in {"AND", "OR"} /\ lhs.tag = "CONDITION"

\* What __coerce_eq_gt_lt_value takes for a column, and what it says of anything else.
Fits == [int |-> {"INT"}, float |-> {"INT", "FLOAT"}, string |-> {"STRING"}]

Expected == [int |-> "expected_int", float |-> "expected_float", string |-> "expected_str"]

CoerceError(col, rhs) ==
    IF rhs.tag \in Fits[Column_type[col]] THEN "ok" ELSE Expected[Column_type[col]]

\* What keeps rhs from being the right operand.  That lhs fits is known from Supports.
OperandError(op, lhs, rhs) ==
    CASE op \in {"=", "<", ">"} -> CoerceError(lhs.value, rhs)
      [] op = "IN" -> IF rhs.tag = "COLUMN" /\ rhs.value \in {"Name", "Programme"}
                      THEN "ok" ELSE "expected_str_col"
      [] OTHER -> IF rhs.tag = "CONDITION" THEN "ok" ELSE "expected_cond"

Condition(op, lhs, rhs) ==
    CASE op \in {"=", "<", ">"} -> [op |-> op, column |-> lhs.value, value |-> rhs.value, lhs |-> 0, rhs |-> 0]
      [] op = "IN" -> [op |-> op, column |-> rhs.value, value |-> lhs.value, lhs |-> 0, rhs |-> 0]
      [] op = "NOT" -> [op |-> op, column |-> "ID", value |-> "none", lhs |-> 0, rhs |-> rhs.value]
      [] OTHER -> [op |-> op, column |-> "ID", value |-> "none", lhs |-> lhs.value, rhs |-> rhs.value]

-----------------------------------------------------------------------------
(* Conditions on the heap.                                                  *)

Children(cond) == {conds[cond].lhs, conds[cond].rhs} \ {0}

BelowOnce(cond) == IF cond = 0 THEN {} ELSE Children(cond) \* slip: the operands are freed, not destroyed

\* What Condition_destroy frees: everything below a condition, but not itself.
Below(cond) ==
    LET below[c \in 0 .. Len(conds)] ==
            IF c = 0 THEN {} ELSE Children(c) \cup UNION {below[d] : d \in Children(c)}
    IN  below[cond]

\* __expression_destroy of each of exprs.  One that was never initialised is
\* whatever its memory held, and may send Condition_destroy astray.
Destroy(exprs) ==
    LET roots == {exprs[i].value : i \in {j \in DOMAIN exprs : exprs[j].tag = "CONDITION"}}
    IN  /\ freed' = freed \cup UNION {Below(r) : r \in roots}
        /\ destroyed' = destroyed \cup roots
        /\ \E g \in Garbage :
              step' = IF g = "CONDITION" /\ \E i \in DOMAIN exprs : exprs[i] = Uninitialised
                      THEN "wild" ELSE step
        /\ UNCHANGED conds

\* Condition_eval of a record, once temp_id is set.
Condition_eval(root, record) ==
    LET eval[c \in 0 .. Len(conds)] ==
        IF c = 0 THEN TRUE
        ELSE LET cond == conds[c]
                 field == Get(record, cond.column)
                 float == cond.column = "Mark"
             IN  CASE cond.op = "OR" -> eval[cond.lhs] \/ eval[cond.rhs]
                   [] cond.op = "AND" -> eval[cond.lhs] /\ eval[cond.rhs]
                   [] cond.op = "NOT" -> ~eval[cond.rhs]
                   [] cond.op = "IN" -> <<field, Value[cond.value]>> \in Within
                   [] cond.op = "<" -> IF float THEN FloatLess(field, Value[cond.value])
                                       ELSE field < Value[cond.value]
                   [] cond.op = ">" -> IF float THEN FloatLess(Value[cond.value], field)
                                       ELSE field > Value[cond.value]
                   [] cond.op = "=" -> field # NaN /\ field = Value[cond.value]
    IN  eval[root]

-----------------------------------------------------------------------------
(* __parse_expression.                                                      *)

NewCall(min_bp) == [min_bp |-> min_bp, at |-> "operand", lhs |-> Uninitialised, op |-> "none"]

Top == Last(calls)

In(at) == step = "expression" /\ err = "ok" /\ calls # <<>> /\ Top.at = at

\* The innermost call goes on, with one more call inside if it needs an operand.
Resume(call) == calls' = Append(Front(calls), call)

Descend(call, min_bp) == calls' = Append(Append(Front(calls), call), NewCall(min_bp))

\* It fails, and destroys what it holds on the way out.
Fail(error, exprs) ==
    /\ err' = error /\ calls' = Front(calls) /\ ret' = None
    /\ Destroy(exprs)
    /\ UNCHANGED <<tokens, tag, filter, column, pairs>>

\* The call takes a token or makes a condition, and nothing else changes.
Quietly == UNCHANGED <<step, result>>

AtomOperand ==
    /\ In("operand") /\ next \in Column \cup Literals
    /\ Resume([Top EXCEPT !.lhs = FromToken(next), !.at = "loop"])
    /\ Advance /\ Quietly /\ UNCHANGED <<ret, memory>>

NestedOperand ==
    /\ In("operand") /\ next \in {"(", "NOT"}
    /\ IF next = "(" THEN Descend([Top EXCEPT !.at = "group"], 0)
                     ELSE Descend([Top EXCEPT !.at = "prefix", !.op = next], rbp(next))
    /\ Advance /\ Quietly /\ UNCHANGED <<ret, memory>>

BadOperand ==
    /\ In("operand") /\ next \notin Column \cup Literals \cup {"(", "NOT"}
    /\ Fail(IF next \in Range(Operators) THEN "bad_op" ELSE "expected_value", <<>>)

\* The operator at hand continues this expression.
Collects == next \in Infix /\ Supports(next, Top.lhs) /\ lbp(next) >= Top.min_bp

InfixOperator ==
    /\ In("loop") /\ Collects
    /\ Descend([Top EXCEPT !.at = "infix", !.op = next], rbp(next))
    /\ Advance /\ Quietly /\ UNCHANGED <<ret, memory>>

EndExpression ==
    /\ In("loop") /\ ~Collects
    /\ ret' = Top.lhs /\ calls' = Front(calls)
    /\ Quietly /\ UNCHANGED <<tokens, memory>>

CloseGroup ==
    /\ In("group") /\ ret # None
    /\ IF next = ")"
       THEN /\ Resume([Top EXCEPT !.lhs = ret, !.at = "loop"])
            /\ ret' = None
            /\ Advance /\ Quietly /\ UNCHANGED memory
       ELSE Fail("mismatched_paren", <<ret>>)

\* __prefixed_condition and __infixed_condition, once they have their operand: the
\* condition takes both operands, or both are destroyed.
Make ==
    LET op == Top.op
        error == OperandError(op, Top.lhs, ret)
    IN  /\ In("prefix") \/ In("infix")
        /\ ret # None
        /\ \/ Fail("out_of_mem", <<ret, Top.lhs>>)
           \/ error # "ok" /\ Fail(error, <<ret, Top.lhs>>)
           \/ /\ error = "ok"
              /\ conds' = Append(conds, Condition(op, Top.lhs, ret))
              /\ Resume([Top EXCEPT !.lhs = [tag |-> "CONDITION", value |-> Len(conds) + 1],
                                    !.at = "loop"])
              /\ ret' = None
              /\ Quietly /\ UNCHANGED <<tokens, freed, destroyed>>

\* An operand failed: error_cleanup of the call that waits for it.
Unwind ==
    /\ step = "expression" /\ err # "ok" /\ calls # <<>>
    /\ Fail(err, <<Top.lhs>>)

-----------------------------------------------------------------------------
(* Commands.                                                                *)

Idle == UNCHANGED <<calls, ret, memory>>

\* Command_destroy, of a command that may have no filter (yet).
DestroyCommand ==
    /\ freed' = freed \cup Below(filter)
    /\ destroyed' = destroyed \cup ({filter} \ {0})
    /\ UNCHANGED conds

Refuse(error) ==
    /\ err' = error /\ step' = "refused"
    /\ ret' = None
    /\ DestroyCommand
    /\ UNCHANGED <<tokens, calls, tag, filter, column, pairs>>

GoTo(where) == step' = where /\ UNCHANGED err

FirstStep ==
    [c \in Commands |->
        CASE c = "HELP" -> "end"
          [] c \in {"OPEN", "SAVE"} -> "file"
          [] c \in {"INSERT", "UPDATE"} -> "column"
          [] c = "DELETE" -> "id"
          [] c = "QUERY" -> "condition"
          [] c = "SHOW ALL" -> "sort"
          [] c = "SHOW SUMMARY" -> "summary"]

ParseTag ==
    /\ step = "command"
    /\ \/ next \notin Commands /\ Refuse("expected_command")
       \/ /\ next \in Commands
          /\ tag' = next /\ GoTo(FirstStep[next])
          /\ Advance /\ Idle /\ UNCHANGED <<filter, column, pairs>>

ParseFile ==
    /\ step = "file"
    /\ \/ next = "EOF" /\ tag = "OPEN" /\ Refuse("expected_str")
       \/ /\ next = "FILE" \/ tag = "SAVE"
          /\ GoTo("end") /\ Advance /\ Idle /\ UNCHANGED <<tag, filter, column, pairs>>

ParseSort ==
    /\ step = "sort"
    /\ \/ next \notin {"EOF", "SORT BY"} /\ Refuse("expected_eof")
       \/ /\ next \in {"EOF", "SORT BY"}
          /\ GoTo("end") /\ Advance /\ Idle /\ UNCHANGED <<tag, filter, column, pairs>>

ParseSummary ==
    /\ step = "summary"
    /\ GoTo(IF next = "EOF" THEN "end" ELSE "condition")
    /\ Idle /\ UNCHANGED <<tokens, tag, filter, column, pairs>>

ParseCondition ==
    /\ step = "condition"
    /\ GoTo("expression") /\ calls' = <<NewCall(0)>>
    /\ UNCHANGED <<tokens, ret, memory, tag, filter, column, pairs>>

EndCondition ==
    /\ step = "expression" /\ calls = <<>>
    /\ \/ err # "ok" /\ Refuse(err)
       \/ err = "ok" /\ ret.tag # "CONDITION" /\ Refuse("expected_cond")
       \/ /\ err = "ok" /\ ret.tag = "CONDITION"
          /\ filter' = ret.value /\ ret' = None
          /\ GoTo(IF tag = "QUERY" THEN "sort" ELSE "end")
          /\ UNCHANGED <<tokens, calls, memory, tag, column, pairs>>

ParseColumn ==
    /\ step = "column" /\ Cardinality(DOMAIN pairs) < Cardinality(Column) /\ next \in Column
    /\ \/ next \in DOMAIN pairs /\ Refuse("duplicate_col")
       \/ /\ next \notin DOMAIN pairs
          /\ column' = next /\ GoTo("eq")
          /\ Advance /\ Idle /\ UNCHANGED <<tag, filter, pairs>>

ParseEquals ==
    /\ step \in {"eq", "id eq"}
    /\ \/ next # "=" /\ Refuse("expected_op_eq")
       \/ /\ next = "="
          /\ GoTo(IF step = "eq" THEN "value" ELSE "id value")
          /\ Advance /\ Idle /\ UNCHANGED <<tag, filter, column, pairs>>

ParseValue ==
    /\ step = "value"
    /\ \/ next \notin Literals /\ Refuse("expected_value")
       \/ /\ next \in Literals
          /\ LET error == CoerceError(column, FromToken(next)) IN
             \/ error # "ok" /\ Refuse(error)
             \/ /\ error = "ok"
                /\ pairs' = pairs @@ column :> next /\ GoTo("column")
                /\ Advance /\ Idle /\ UNCHANGED <<tag, filter, column>>

\* What INSERT and UPDATE say of the columns they were given.
MissingColumn ==
    CASE tag = "INSERT" -> IF DOMAIN pairs = Column THEN "ok" ELSE "expected_col"
      [] "ID" \notin DOMAIN pairs -> "expected_id_col"
      [] OTHER -> IF DOMAIN pairs = {"ID"} THEN "expected_col" ELSE "ok"

EndPairsStays == \* slip: break leaves the loop of another statement
    /\ step = "column"
    /\ next \notin Column \/ DOMAIN pairs = Column
    /\ \/ MissingColumn # "ok" /\ Refuse(MissingColumn)
       \/ /\ MissingColumn = "ok"
          /\ Idle /\ Advance /\ UNCHANGED <<step, result>>

\* With fewer than all columns the token that ends the pairs is consumed.
EndPairs ==
    /\ step = "column"
    /\ next \notin Column \/ DOMAIN pairs = Column
    /\ \/ MissingColumn # "ok" /\ Refuse(MissingColumn)
       \/ /\ MissingColumn = "ok"
          /\ GoTo("end") /\ Idle /\ UNCHANGED <<tag, filter, column, pairs>>
          /\ IF DOMAIN pairs = Column THEN UNCHANGED tokens ELSE Advance

ParseID ==
    /\ step = "id"
    /\ \/ next # "ID" /\ Refuse("expected_id_col")
       \/ /\ next = "ID"
          /\ GoTo("id eq") /\ Advance /\ Idle /\ UNCHANGED <<tag, filter, column, pairs>>

ParseIDValue ==
    /\ step = "id value"
    /\ \/ next \notin Ints /\ Refuse("expected_int")
       \/ /\ next \in Ints
          /\ pairs' = "ID" :> next /\ GoTo("end")
          /\ Advance /\ Idle /\ UNCHANGED <<tag, filter, column>>

ParseEnd ==
    /\ step = "end"
    /\ \/ next # "EOF" /\ Refuse("expected_eof")
       \/ next = "EOF" /\ GoTo("parsed") /\ Idle /\ UNCHANGED <<tokens, tag, filter, column, pairs>>

\* main destroys the command it ran.
Run ==
    /\ step = "parsed"
    /\ GoTo("ran") /\ DestroyCommand
    /\ UNCHANGED <<tokens, calls, ret, tag, filter, column, pairs>>

-----------------------------------------------------------------------------
Init ==
    /\ alphabet \in Alphabets /\ next = "EOF" /\ input = <<>> /\ ended = FALSE /\ fileMode = FALSE
    /\ step = "prompt" /\ tag = "none" /\ err = "ok"
    /\ calls = <<>> /\ ret = None
    /\ conds = <<>> /\ freed = {} /\ destroyed = {}
    /\ filter = 0 /\ column = "ID" /\ pairs = <<>>

\* Tokenizer_create reads the first token of a line.
NewLine ==
    /\ step = "prompt"
    /\ step' = "command"
    /\ Advance /\ Idle /\ UNCHANGED result

\* Back to the prompt.  What the line left allocated is never seen again.
NextLine ==
    /\ step \in {"refused", "ran"}
    /\ next' = "EOF" /\ input' = <<>> /\ ended' = FALSE /\ fileMode' = FALSE
    /\ step' = "prompt" /\ tag' = "none" /\ err' = "ok"
    /\ conds' = <<>> /\ freed' = {} /\ destroyed' = {}
    /\ filter' = 0 /\ column' = "ID" /\ pairs' = <<>>
    /\ UNCHANGED <<alphabet, calls, ret>>

Parse ==
    \/ ParseTag \/ ParseFile \/ ParseSort \/ ParseSummary \/ ParseCondition \/ EndCondition
    \/ ParseColumn \/ ParseEquals \/ ParseValue \/ EndPairs \/ ParseID \/ ParseIDValue \/ ParseEnd
    \/ AtomOperand \/ NestedOperand \/ BadOperand \/ InfixOperator \/ EndExpression
    \/ CloseGroup \/ Make \/ Unwind
    \/ Run

Next == Parse \/ NewLine \/ NextLine

Spec == Init /\ [][Next]_vars

\* The parser waits for nothing: the line is there before it is parsed.
FairSpec == Spec /\ WF_vars(Parse)

-----------------------------------------------------------------------------
\* The conditions reachable from an expression that holds one.
Tree(expr) == IF expr.tag = "CONDITION" THEN {expr.value} \cup Below(expr.value) ELSE {}

Owners == [i \in DOMAIN calls |-> Tree(calls[i].lhs)]
          \o <<Tree(ret), IF filter = 0 \/ step \in {"refused", "ran"} THEN {} ELSE {filter} \cup Below(filter)>>

\* While a command is parsed every condition that is not freed has one owner: an
\* operand of an open call (parser.c:428), the expression just returned, or the
\* command.  Or it was passed to Condition_destroy, which does not free it
\* (condition.c:46): nothing else is ever lost, and nothing owned was freed.
ConditionsOwned ==
    /\ \A i, j \in DOMAIN Owners : i # j => Owners[i] \cap Owners[j] = {}
    /\ (UNION Range(Owners)) \cap (freed \cup destroyed) = {}
    /\ step # "wild" => DOMAIN conds = (UNION Range(Owners)) \cup freed \cup destroyed
    /\ freed \cap destroyed = {}

\* An expression is destroyed uninitialised (parser.c:507) only by the call that waits
\* for what a bracket encloses, once that has failed to parse (parser.c:451), or for the
\* condition of a NOT (parser.c:469).  A bracket that is not closed (parser.c:457) and an
\* infix operator leave nothing uninitialised behind.
WildOnlyInGroups ==
    [][step # "wild" /\ step' = "wild" =>
          calls # <<>> /\ ((Top.at = "group" /\ err # "ok") \/ Top.at = "prefix")]_vars

\* Every line is refused or its command runs, unless the parser went astray.
EveryLineEnds == step = "command" ~> step \in {"refused", "ran", "wild"}
=============================================================================
