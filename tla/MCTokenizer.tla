------------------------------ MODULE MCTokenizer ------------------------------
(***************************************************************************)
(* Lines to cut into tokens: those that are written as tokens, with and     *)
(* without spaces between them, and all others that are short.              *)
(***************************************************************************)
EXTENDS Tokenizer

\* Ways to write a token.
Spell(token, text) == [token |-> token, text |-> text]

Numbers ==
    {Spell("INT", <<"1">>), Spell("INT", <<"2", "1">>)}
    \cup {Spell("FLOAT", t) : t \in {<<Huge>>, <<"-", "1">>, <<"1", ".">>, <<".", "1">>, <<"1", ".", "2">>,
                                     <<"1", "e", "-", "2">>, <<"inf">>}}

Spellings ==
    {Spell(w, <<w>>) : w \in {"HELP", "OPEN", "Name", "IN", "NOT", "(", "="}}
    \cup {Spell("SORT BY", <<"SORT BY ", "Name">>), Spell("SORT BY", <<"SORT BY ", "Name", " ", "DESC">>)}
    \cup {Spell("STRING", escape_string(s)) : s \in {<<>>, <<Quote, " ">>}}
    \cup Numbers

\* l and r are read as two tokens without a space between them.
Apart(l, r) ==
    CASE l.token \in Commands -> FALSE
      [] l.token \in Column \cup Words \/ (l.token = "SORT BY" /\ Last(l.text) \in Column) ->
            Head(r.text) \notin Letters
      [] l \in Numbers /\ l.text # <<"inf">> ->
            /\ Head(r.text) \notin Digits
            /\ Head(r.text) = "." => Range(l.text) \cap {".", "e"} # {}
      [] OTHER -> TRUE

Line(spelled, spaces) ==
    FlattenSeq([i \in DOMAIN spelled |-> spelled[i].text \o (IF spaces[i] THEN <<" ">> ELSE <<>>)])

\* Behind OPEN and SAVE all that follows is the name of a file.
Meant(spelled) ==
    LET files == {i \in DOMAIN spelled : spelled[i].token \in {"OPEN", "SAVE"}} IN
    IF files = {} THEN [i \in DOMAIN spelled |-> spelled[i].token]
    ELSE [i \in 1 .. Min(files) |-> spelled[i].token]
         \o (IF Min(files) < Len(spelled) THEN <<"FILE">> ELSE <<>>)

\* A line is read as the tokens that it is written as when those that would run into each
\* other are a space apart, and spaces do nothing else.
CutsAsWritten(n) ==
    \A s \in [1 .. n -> Spellings], spaces \in [1 .. n -> BOOLEAN] :
        (\A i \in 1 .. n - 1 : spaces[i] \/ Apart(s[i], s[i + 1])) =>
            Meant(s) \o <<"EOF">> = SubSeq(Tokens(Line(s, spaces)), 1, Len(Meant(s)) + 1)

\* Without the space they run into each other.
SpaceNeeded ==
    \A l, r \in Spellings :
        ~Apart(l, r) => Tokenizer_create(l.text \o r.text).current # r.text

\* The tokens that the parser is modelled with, whatever the line: UNK and the name of a
\* file are the last ones, that name comes behind OPEN or SAVE only, and every line ends.
AnyLine(n) ==
    \A line \in UNION {[1 .. m -> Pieces] : m \in 0 .. n} :
        LET t == Tokens(line) IN
        /\ Last(t) = "EOF"
        /\ \A i \in 2 .. Len(t) :
              IF t[i - 1] \in {"EOF", "UNK", "FILE"} THEN t[i] = "EOF"
              ELSE t[i] \in {"FILE", "EOF"} \/ ~\E j \in 1 .. i - 1 : t[j] \in {"OPEN", "SAVE"}
        /\ \A i \in DOMAIN t : t[i] = "FILE" => i > 1 /\ t[i - 1] \in {"OPEN", "SAVE"}
=============================================================================
