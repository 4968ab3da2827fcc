---------------------------- MODULE QueryParser ----------------------------
(***************************************************************************)
(* The query language: the lexer's tokens (internal/query/lexer), the      *)
(* parser's productions over its two-token window (internal/query/parser)  *)
(* and the limits query.Parse applies to what was parsed.                  *)
(*                                                                         *)
(* The text of a query is not fixed in advance.  Whenever the parser moves *)
(* its window the lexer returns any token that can follow the last one, so *)
(* a behaviour is one query text and what becomes of it.  input is the     *)
(* history of all tokens returned.  A text is valid UTF-8: what is not, is *)
(* refused before the first token.  The wording and the place of an error  *)
(* are left out: every rejection is one mode.                              *)
(*                                                                         *)
(* A parsed command can be printed (ast.go) and its text parsed again: the *)
(* lexer then reads what was printed, and the second node is compared with *)
(* the first.                                                              *)
(***************************************************************************)
EXTENDS Integers, SequencesExt, FiniteSetsExt

CONSTANTS
    Tokens,          \* what the lexer may return: [type, literal]
    IntOf,           \* the literals strconv.Atoi reads, with their values
    TimeOf,          \* those ParseTimeValue reads: "relative" or "absolute"
    StopWords,       \* the literals CleanContent empties
    Blank,           \* the literal of an empty phrase
    MisCased,        \* reserved words not written in lower case
    Lower,           \* strings.ToLower, on the literals it changes
    Split,           \* the tokens of a literal that is no bare word, unquoted
    Params,          \* the vectors sent along: name -> dimension
    MaxTop, MaxDepth, MaxDim, DefaultDepth, DefaultTop,
    MaxTokens        \* bound: how many tokens a query has

ASSUME LimitsAssumption ==
    /\ MaxTop \in Nat /\ MaxDepth \in Nat /\ MaxDim \in Nat
    /\ DefaultDepth \in Nat /\ DefaultTop \in Nat /\ MaxTokens \in Nat
    /\ \A l \in DOMAIN IntOf : IntOf[l] \in Int

VARIABLES
    input,           \* history: the tokens returned so far
    cur, peek,       \* the parser's window
    mode,            \* the production that reads cur next
    key,             \* the clause keyword being read
    node,            \* the command node
    warns,           \* the clauses warned about
    query,           \* what query.Parse makes of the node
    tape,            \* what is left of a printed command to read
    origin           \* the node that was printed, or NoNode

window == <<input, cur, peek, tape>>
vars == <<window, mode, key, node, warns, query, origin>>

NoNode == [kind |-> "none"]

-----------------------------------------------------------------------------
(* Tokens.                                                                 *)

Commands == {"recall", "remember", "forget", "update"}
PrefixWords == {"explain", "describe"}
Anchors == {"topic", "entity"}
Modifiers == {"since", "until", "top", "depth"}
Keywords == Commands \cup PrefixWords \cup Anchors \cup Modifiers \cup {"vec"}
Words == Keywords \cup {"literal"}

EOL == [type |-> "eol", literal |-> Blank]

\* Where Atoi and ParseTimeValue find a number or a time: in a word or in quotes.
Numeric == DOMAIN IntOf \cup DOMAIN TimeOf
Readable(t) == t.literal \in Numeric => t.type \in {"literal", "phrase", "illegal"}

\* ToLower, which terms and anchors go through.
Fold(l) == IF l \in DOMAIN Lower THEN Lower[l] ELSE l

\* What is typed as a word is read back as one word, folded or not, and only a
\* mis-cased one folds to a reserved one; and a number is read back from its
\* digits.
ASSUME LexemesAssumption ==
    /\ \A t \in Tokens \cup {EOL} : Readable(t)
    /\ Numeric \cap (Keywords \cup {"whitespace", "at", "colon", "dollar"}) = {}
    /\ \A l \in DOMAIN Split :
          /\ Split[l] \in Seq(ToSet(Split[l]))
          /\ \A t \in ToSet(Split[l]) : Readable(t) /\ t.type \notin {"eol", "illegal"}
    /\ \A t \in Tokens : LET l == t.literal IN
          /\ Fold(Fold(l)) = Fold(l) /\ (l # Blank => Fold(l) # Blank)
          /\ Fold(l) \in StopWords => l \in StopWords
          /\ t.type \in Words => {l, Fold(l)} \cap DOMAIN Split = {} /\ Fold(l) \notin MisCased
          /\ t.type = "literal" => l \notin Keywords /\ (Fold(l) \in Keywords => l \in MisCased)
    /\ \A l \in DOMAIN IntOf : IntOf[l] >= 0 => LET digits == ToString(IntOf[l]) IN
          /\ digits \in DOMAIN IntOf /\ IntOf[digits] = IntOf[l]
          /\ digits \notin DOMAIN Split \cup Keywords

IsKeyword(t) == t.type \in Keywords
IsEndOfLine(t) == t.type \in {"eol", "newline"}
IsBlank(t) == t.type \in {"whitespace", "nul"}
IsMisCasedKeyword(t) == t.type = "literal" /\ t.literal \in MisCased

\* Which token the lexer can return after t.  Two words, two blanks or two
\* phrases in a row are one token; an unclosed phrase ends the input; and a
\* mis-cased keyword is typed as one exactly before a ':'.
Follows(t, u) ==
    /\ t.type = "eol" \/ t.type = "illegal" => u = EOL
    /\ t.type \in Words => u.type \notin Words
    /\ t.type = "whitespace" => u.type # "whitespace"
    /\ t.type = "phrase" => u.type \notin {"phrase", "illegal"}
    /\ t.type \in Words /\ t.literal \in MisCased => (IsKeyword(t) <=> u.type = "colon")

\* Lexer.Next.
Lexed(t, u) ==
    /\ u \in Tokens \cup {EOL}
    /\ Follows(t, u)
    /\ Len(input) >= MaxTokens => u = EOL \/ (u.type = "colon" /\ t.literal \in MisCased)

\* next: the window moves by one token, of a text nobody has fixed yet or of
\* the one that was printed.
Shift ==
    /\ cur' = peek
    /\ \/ /\ origin = NoNode
          /\ \E u \in Tokens \cup {EOL} : Lexed(peek, u) /\ peek' = u
          /\ UNCHANGED tape
       \/ /\ origin # NoNode
          /\ peek' = IF tape = <<>> THEN EOL ELSE Head(tape)
          /\ tape' = IF tape = <<>> THEN tape ELSE Tail(tape)
    /\ input' = IF peek'.type = "eol" /\ peek.type = "eol" THEN input ELSE Append(input, peek')

\* A token that can be a term or an anchor's value: a reserved word only when
\* no ':' makes it a clause.
IsValue(t, u) == t.type \in {"literal", "phrase"} \/ (IsKeyword(t) /\ u.type # "colon")

\* What a term, a number and a time may be.
IsTerm(t) ==
    t.type \in {"literal", "phrase"} /\ ~IsMisCasedKeyword(t) /\ t.literal # Blank
IsNumber(t) == t.type # "illegal" /\ t.literal \in DOMAIN IntOf
IsTime(t) ==
    /\ t.type # "illegal" /\ t.literal \in DOMAIN TimeOf
    /\ ~(TimeOf[t.literal] = "relative" /\ t.type = "phrase")

\* A node that holds nothing yet.
EmptyNode ==
    [kind |-> "none", selector |-> <<>>, terms |-> <<>>, topic |-> <<>>, entity |-> <<>>,
     anchors |-> <<>>, since |-> <<>>, until |-> <<>>, top |-> <<>>, depth |-> <<>>, vec |-> <<>>]

-----------------------------------------------------------------------------
(* Steps of the productions.                                               *)

Goes(m) == mode' = m

Reject ==
    /\ Goes("rejected")
    /\ UNCHANGED <<window, key, node, warns, query, origin>>

\* Reads cur, then goes on with production m.
Accept(m) ==
    /\ Shift
    /\ Goes(m)
    /\ UNCHANGED <<key, warns, query, origin>>

\* parseQuery: of the commands reserved, two are supported.
ParseQuery ==
    /\ mode = "command"
    /\ \/ /\ cur.type \in {"recall", "remember"}
          /\ Accept("selector")
          /\ node' = [node EXCEPT !.kind = cur.type]
       \/ cur.type \notin {"recall", "remember"} /\ Reject

\* parseGraphSelector: the whole number is checked before it is narrowed.
ParseGraphSelector ==
    /\ mode = "graph"
    /\ LET ok == cur.literal \in DOMAIN IntOf /\ IntOf[cur.literal] \in 0 .. 255
       IN \/ ok /\ Accept("space") /\ node' = [node EXCEPT !.selector = <<IntOf[cur.literal]>>]
          \/ ~ok /\ Reject

\* parseSelector: at most one selector, glued to the command, then a space.
ParseSelector ==
    \/ /\ mode = "selector" /\ cur.type = "at"
       /\ Accept("graph")
       /\ UNCHANGED node
    \/ /\ mode = "space" \/ (mode = "selector" /\ cur.type # "at")
       /\ LET ok == cur.type = "whitespace" /\ peek.type # "at"
          IN \/ ok /\ Accept(IF node.kind = "recall" THEN "terms" ELSE "phrase") /\ UNCHANGED node
             \/ ~ok /\ Reject

\* parsePhrase: the fact, followed by a blank or the end.
ParsePhrase ==
    /\ mode = "phrase"
    /\ LET ok == /\ cur.type = "phrase"
                 /\ cur.literal # Blank
                 /\ IsBlank(peek) \/ IsEndOfLine(peek)
       IN \/ ok /\ Accept("clauses") /\ node' = [node EXCEPT !.terms = <<cur>>]
          \/ ~ok /\ Reject

ParseTerms ==
    /\ mode = "terms"
    /\ LET ends == IsEndOfLine(cur) \/ (cur.type # "whitespace" /\ ~IsValue(cur, peek))
       IN \/ ends /\ Goes("clauses") /\ UNCHANGED <<window, key, node, warns, query, origin>>
          \/ cur.type = "whitespace" /\ Accept("terms") /\ UNCHANGED node
          \/ IsTerm(cur) /\ Accept("terms") /\ node' = [node EXCEPT !.terms = Append(@, cur)]
          \/ ~ends /\ cur.type # "whitespace" /\ ~IsTerm(cur) /\ Reject

\* Anchors are lists; any other clause may be given once, the modifiers to a
\* recall only.
Takes(k) ==
    \/ k \in Anchors
    \/ k = "vec" /\ node.vec = <<>>
    \/ node.kind = "recall" /\ k \in Modifiers /\ node[k] = <<>>

\* The clause loops of parseRemember and parseRecall.
ParseClause ==
    /\ mode = "clauses"
    /\ LET dangling == IsKeyword(cur) /\ IsEndOfLine(peek)
           clause == Takes(cur.type) /\ ~dangling
       IN \/ IsEndOfLine(cur) /\ Goes("finish") /\ UNCHANGED <<window, key, node, warns, query, origin>>
          \/ cur.type = "whitespace" /\ Accept("clauses") /\ UNCHANGED node
          \/ /\ clause
             /\ Shift
             /\ Goes("separator")
             /\ key' = cur
             /\ warns' = IF cur.literal \in MisCased THEN warns \cup {"case"} ELSE warns
             /\ UNCHANGED <<node, query, origin>>
          \/ ~clause /\ ~IsEndOfLine(cur) /\ cur.type # "whitespace" /\ Reject

SkipSeparator ==                 \* faulty: a missing ':' is skipped
    /\ mode = "separator"
    /\ \/ cur.type \in {"colon", "whitespace"} /\ Accept("value") /\ UNCHANGED node
       \/ cur.type \notin {"colon", "whitespace"} /\ Reject

\* parseSeparator: a ':' with no blank on either side.
ParseSeparator ==
    /\ mode = "separator"
    /\ LET ok == cur.type = "colon" /\ peek.type # "whitespace"
       IN \/ ok /\ Accept("value") /\ UNCHANGED node
          \/ ~ok /\ Reject

\* parseAnchorField, parseIntField and parseTimeValue: what each reads.
Reads(k) ==
    CASE k \in Anchors -> IsValue(cur, peek) /\ cur.literal # Blank
      [] k \in {"top", "depth"} -> IsNumber(cur)
      [] k \in {"since", "until"} -> IsTime(cur)
      [] OTHER -> FALSE

ParseValue ==
    /\ mode = "value"
    /\ key.type # "vec"
    /\ \/ /\ Reads(key.type)
          /\ Accept("clauses")
          /\ node' = [node EXCEPT
                         ![key.type] = IF key.type \in Anchors THEN Append(@, cur) ELSE <<cur>>,
                         !.anchors = IF key.type \in Anchors THEN Append(@, key.type) ELSE @]
       \/ ~Reads(key.type) /\ Reject

\* parseVecField: '$', then the parameter's name glued to it.
ParseVec ==
    /\ mode \in {"value", "param"}
    /\ key.type = "vec"
    /\ LET dollar == mode = "value" /\ cur.type = "dollar"
           name == mode = "param" /\ cur.type = "literal"
       IN \/ dollar /\ Accept("param") /\ UNCHANGED node
          \/ name /\ Accept("clauses") /\ node' = [node EXCEPT !.vec = <<cur>>]
          \/ ~dollar /\ ~name /\ Reject

-----------------------------------------------------------------------------
(* The checks on a whole command.                                          *)

NamesAnchors(n) == n.topic # <<>> \/ n.entity # <<>>
AnchoredSearch(n) == NamesAnchors(n) /\ (n.terms # <<>> \/ n.vec # <<>>)

IsStop(t) == t.type = "literal" /\ t.literal \in StopWords

AnchorsMatchStops(n) ==          \* faulty: anchors beside stop words are a seed
    /\ n.terms # <<>> \/ NamesAnchors(n) \/ n.vec # <<>>
    /\ (\E i \in DOMAIN n.terms : IsStop(n.terms[i])) =>
           n.vec # <<>> \/ NamesAnchors(n) \/ \E i \in DOMAIN n.terms : ~IsStop(n.terms[i])

\* A recall needs a seed, and one that is not a stop word if it has any.
Seeded(n) ==
    /\ n.terms # <<>> \/ NamesAnchors(n) \/ n.vec # <<>>
    /\ (\E i \in DOMAIN n.terms : IsStop(n.terms[i])) =>
           n.vec # <<>> \/ \E i \in DOMAIN n.terms : ~IsStop(n.terms[i])

Written(clause) == IntOf[clause[1].literal]

\* warnStopWords, warnDepthWithoutGraph and warnAnchorsWithoutDepth.
Warned(n) ==
    (IF \E i \in DOMAIN n.terms : IsStop(n.terms[i]) THEN {"stop"} ELSE {})
    \cup (IF n.depth # <<>> /\ (IF Written(n.depth) = 0 THEN AnchoredSearch(n) ELSE ~NamesAnchors(n))
            THEN {"depth"} ELSE {})

\* The end of parseRecall.
Finish ==
    /\ mode = "finish"
    /\ \/ /\ node.kind = "remember" \/ Seeded(node)
          /\ Goes("tail")
          /\ warns' = IF node.kind = "recall" THEN warns \cup Warned(node) ELSE warns
          /\ UNCHANGED <<window, key, node, query, origin>>
       \/ node.kind = "recall" /\ ~Seeded(node) /\ Reject

\* The end of Parse: nothing but blank lines may follow.
ParseTail ==
    /\ mode = "tail"
    /\ \/ cur.type \in {"newline", "whitespace"} /\ Accept("tail") /\ UNCHANGED node
       \/ cur.type = "eol" /\ Goes("parsed") /\ UNCHANGED <<window, key, node, warns, query, origin>>
       \/ cur.type \notin {"newline", "whitespace", "eol"} /\ Reject

\* Selector: 0 when the command has no @N.
Selector(n) == IF n.selector = <<>> THEN 0 ELSE n.selector[1]

\* RecallCommandNode.Top and Depth.
Top(n) == IF n.top = <<>> THEN DefaultTop ELSE Written(n.top)

Depth(n) ==
    LET v == IF n.depth = <<>> THEN DefaultDepth ELSE Written(n.depth)
    IN IF v < 1 /\ AnchoredSearch(n) THEN 1 ELSE v

CheckVector(n) ==
    n.vec # <<>> => n.vec[1].literal \in DOMAIN Params /\ Params[n.vec[1].literal] <= MaxDim

WithinLimits(n) ==
    /\ n.top # <<>> => Top(n) \in 1 .. MaxTop
    /\ n.depth # <<>> => Depth(n) <= MaxDepth

\* query.Parse: an explicit top and depth and the vector are checked.
Bind ==
    /\ mode = "parsed" /\ origin = NoNode
    /\ LET ok == CheckVector(node) /\ (node.kind = "recall" => WithinLimits(node))
       IN \/ /\ ok
             /\ Goes("bound")
             /\ query' = [kind |-> node.kind, graph |-> Selector(node),
                          top |-> IF node.kind = "recall" THEN Top(node) ELSE 0,
                          depth |-> IF node.kind = "recall" THEN Depth(node) ELSE 0]
             /\ UNCHANGED <<window, key, node, warns, origin>>
          \/ ~ok /\ Reject

-----------------------------------------------------------------------------
(* String: a node printed, as the tokens its text is read back as.         *)

\* What a literal is read as when it is printed without quotes.
Bare(l) ==
    IF l \in DOMAIN Split THEN Split[l]
    ELSE <<[type |-> IF l \in Keywords THEN l ELSE "literal", literal |-> l]>>

Sign(type) == [type |-> type, literal |-> type]

NeverQuoted(t, text) == Bare(text)   \* faulty: a phrase loses its quotes

\* TermNode, EntityFieldNode, TopicFieldNode, SinceFieldNode, UntilFieldNode:
\* what was quoted is printed quoted.
PrintedValue(t, text) ==
    IF t.type = "phrase" THEN <<[type |-> "phrase", literal |-> text]>> ELSE Bare(text)

PrintedAnchor(t) == PrintedValue(t, Fold(t.literal))

\* A time is printed as it was written, resolved or not.
PrintedTime(t) == PrintedValue(t, t.literal)

\* A number is printed, not the literal it was read from.
PrintedNumber(t) == Bare(ToString(IntOf[t.literal]))

PrintedVec(t) == <<Sign("dollar"), t>>

PrintedField(k, t) ==
    CASE k \in Anchors -> PrintedAnchor(t)
      [] k \in {"since", "until"} -> PrintedTime(t)
      [] k = "vec" -> PrintedVec(t)
      [] OTHER -> PrintedNumber(t)

\* A clause's keyword keeps the case it was written in, which changes no type.
PrintedClause(k, t) ==
    <<Sign("whitespace"), [type |-> k, literal |-> k], Sign("colon")>> \o PrintedField(k, t)

\* A recall folds its terms; the fact of a remember is kept as it was written.
PrintedTerm(n, t) == PrintedValue(t, IF n.kind = "recall" THEN Fold(t.literal) ELSE t.literal)

PrintedTerms(n) ==
    [i \in DOMAIN n.terms |-> <<Sign("whitespace")>> \o PrintedTerm(n, n.terms[i])]

PrintedSelector(n) ==
    IF n.selector = <<>> THEN <<>> ELSE <<Sign("at")>> \o Bare(ToString(n.selector[1]))

\* The keywords of the clauses in the order they are printed: a remember has one
\* list of anchors, in source order; a recall groups them.
Under(n, k) == [i \in DOMAIN n[k] |-> k]
ClauseOrder(n) ==
    IF n.kind = "remember" THEN n.anchors
    ELSE Under(n, "entity") \o Under(n, "topic") \o Under(n, "top")
         \o Under(n, "depth") \o Under(n, "since") \o Under(n, "until")

\* How often k is among the first i of ks.
Times(ks, i, k) == Cardinality({j \in 1 .. i : ks[j] = k})

PrintedClauses(n) ==
    LET ks == ClauseOrder(n)
    IN [i \in DOMAIN ks |-> PrintedClause(ks[i], n[ks[i]][Times(ks, i, ks[i])])]

Printed(n) ==
    <<[type |-> n.kind, literal |-> n.kind]>>
    \o PrintedSelector(n)
    \o FlattenSeq(PrintedTerms(n))
    \o FlattenSeq(PrintedClauses(n))
    \o (IF n.vec = <<>> THEN <<>> ELSE PrintedClause("vec", n.vec[1]))

\* The printed command is parsed from the start.
Reparse ==
    /\ mode = "parsed" /\ origin = NoNode
    /\ origin' = node
    /\ LET text == Printed(node)
       IN /\ cur' = text[1] /\ peek' = text[2]
          /\ tape' = SubSeq(text, 3, Len(text))
          /\ input' = <<text[1], text[2]>>
    /\ Goes("command")
    /\ key' = EOL /\ node' = EmptyNode /\ warns' = {}
    /\ UNCHANGED query

-----------------------------------------------------------------------------
Init ==
    /\ cur \in Tokens \cup {EOL}
    /\ peek \in Tokens \cup {EOL}
    /\ Follows(cur, peek)
    /\ input = <<cur, peek>>
    /\ mode = "command"
    /\ key = EOL
    /\ node = EmptyNode
    /\ warns = {}
    /\ query = [kind |-> "none", graph |-> 0, top |-> 0, depth |-> 0]
    /\ tape = <<>>
    /\ origin = NoNode

Next ==
    \/ ParseQuery \/ ParseGraphSelector \/ ParseSelector \/ ParsePhrase
    \/ ParseTerms \/ ParseClause \/ ParseSeparator \/ ParseValue \/ ParseVec
    \/ Finish \/ ParseTail \/ Bind \/ Reparse

Spec == Init /\ [][Next]_vars

-----------------------------------------------------------------------------
(* Properties.  What a query text says, read off its tokens without the     *)
(* parser: a word glued to a ':' is a clause, what is glued behind the ':'  *)
(* is its value, and every other word or phrase is a term.                  *)

TypeOf(text, i) == IF i \in DOMAIN text THEN text[i].type ELSE "eol"

ClauseWords == Anchors \cup Modifiers \cup {"vec"}

\* How far behind its keyword a clause's value stands: vec has a '$' too.
Behind(k) == IF k = "vec" THEN 3 ELSE 2

\* The places up to m that begin a clause under k, and those of terms.
ClausesTo(text, k, m) == {i \in 1 .. m : TypeOf(text, i) = k /\ TypeOf(text, i + 1) = "colon"}
TermsTo(text, m) ==
    {i \in 2 .. m : /\ TypeOf(text, i) \in Words \cup {"phrase"}
                    /\ TypeOf(text, i + 1) # "colon"
                    /\ TypeOf(text, i - 1) \notin {"colon", "dollar", "at"}}

\* The tokens d places behind the places in at, in order.
Nth(at, n) == CHOOSE i \in at : Cardinality({j \in at : j <= i}) = n
Listed(text, at, d) == [n \in 1 .. Cardinality(at) |-> text[Nth(at, n) + d]]

Said(k) == Listed(input, ClausesTo(input, k, Len(input)), Behind(k))
SaidTerms == Listed(input, TermsTo(input, Len(input)), 0)

Stray(text, i) ==
    /\ TypeOf(text, i) \in {"nul", "special", "illegal"} \cup PrefixWords
    /\ TypeOf(text, i - 1) # "colon"

SelectorSaid == IF TypeOf(input, 2) = "at" THEN <<IntOf[input[3].literal]>> ELSE <<>>

\* A query that runs is the query that was written: each clause holds exactly
\* the values glued to its keyword, in order, each term is a term, and nothing
\* written was dropped or took another role.
ReadsEveryToken ==
    mode \in {"parsed", "bound"} =>
        /\ node.terms = SaidTerms
        /\ \A k \in ClauseWords : node[k] = Said(k)
        /\ \A i \in DOMAIN input : ~Stray(input, i)
        /\ node.selector = SelectorSaid

(* Why it does: at any place of the text, the node says what was read up to *)
(* the clause being read.                                                   *)

\* What the productions put into a node.
AtMostOne(S) == {<<>>} \cup {<<x>> : x \in S}

Holds(n) ==
    /\ n = [f \in DOMAIN EmptyNode |-> n[f]]
    /\ n.selector \in AtMostOne({IntOf[l] : l \in DOMAIN IntOf} \cap 0 .. 255)
    /\ n.terms \in Seq({t \in Tokens : IsTerm(t)})
    /\ \A k \in Anchors :
          /\ n[k] \in Seq({t \in Tokens : t.type \in Words \cup {"phrase"} /\ t.literal # Blank})
          /\ Times(n.anchors, Len(n.anchors), k) = Len(n[k])
    /\ n.anchors \in Seq(Anchors)
    /\ \A k \in {"top", "depth"} : n[k] \in AtMostOne({t \in Tokens : IsNumber(t)})
    /\ \A k \in {"since", "until"} : n[k] \in AtMostOne({t \in Tokens : IsTime(t)})
    /\ n.vec \in AtMostOne({t \in Tokens : t.type = "literal"})

\* A command that was read: a remember has one quoted fact and no modifier, a
\* recall a seed.
Remembers(n) == Len(n.terms) = 1 /\ n.terms[1].type = "phrase"
Whole(n) ==
    /\ Holds(n)
    /\ n.kind \in {"recall", "remember"}
    /\ IF n.kind = "recall" THEN Seeded(n)
       ELSE Remembers(n) /\ \A k \in Modifiers : n[k] = <<>>

Openings == {"command", "selector", "graph", "space"}
NodeInv ==
    /\ origin = NoNode => {cur, peek} \subseteq Tokens \cup {EOL} /\ Holds(node)
    /\ origin # NoNode => Whole(origin)
    /\ mode = "command" => node = EmptyNode
    /\ mode \notin {"command", "rejected"} => node.kind \in {"recall", "remember"}
    /\ mode = "terms" => node.kind = "recall"
    /\ mode = "phrase" => node.kind = "remember"
    /\ node.kind # "recall" => \A k \in Modifiers : node[k] = <<>>
    /\ mode \notin Openings \cup {"phrase", "rejected"} /\ node.kind = "remember" => Remembers(node)
    /\ mode \in {"separator", "value", "param"} => Takes(key.type)

\* What is read next can be told from the window.
TokensInv ==
    /\ Readable(cur) /\ Readable(peek)
    /\ cur.type \in {"eol", "illegal"} => peek.type = "eol"
    /\ peek.type \in {"eol", "illegal"} \/ origin = NoNode => tape = <<>>
    /\ tape \in Seq(ToSet(tape)) /\ input \in Seq(ToSet(input))
    /\ \A t \in ToSet(tape) : Readable(t) /\ t.type \notin {"eol", "illegal"}

\* cur is the token at p.
WindowAt(p) ==
    /\ p \in 1 .. Len(input) /\ Len(input) \in {p, p + 1}
    /\ cur = input[p] /\ peek.type = TypeOf(input, p + 1)
    /\ cur.type # "eol" => Len(input) = p + 1 /\ peek = input[p + 1]
    /\ \A i \in 1 .. p - 1 : input[i].type # "eol"

\* n says what the text says up to m.
ReadTo(n, text, m) ==
    /\ n.terms = Listed(text, TermsTo(text, m), 0)
    /\ \A k \in ClauseWords :
          /\ n[k] = Listed(text, ClausesTo(text, k, m), Behind(k))
          /\ \A i \in ClausesTo(text, k, m) : i + Behind(k) <= m

\* How far the node is, with cur at p.
Done(p) == CASE mode = "separator" -> p - 2
             [] mode = "value" -> p - 3
             [] mode = "param" -> p - 4
             [] OTHER -> p - 1

\* The keyword being read, in the modes of a clause, and the selector's modes.
ClauseAt(p) ==
    /\ mode = "separator" => key = input[p - 1]
    /\ mode = "value" => key = input[p - 2] /\ TypeOf(input, p - 1) = "colon"
    /\ mode = "param" => /\ key = input[p - 3] /\ key.type = "vec"
                         /\ TypeOf(input, p - 2) = "colon" /\ TypeOf(input, p - 1) = "dollar"
    /\ mode \in {"separator", "value", "param"} => p > 3

SelectorAt(p) ==
    /\ mode = "command" => p = 1
    /\ mode = "selector" => p = 2
    /\ mode = "graph" => p = 3 /\ TypeOf(input, 2) = "at"
    /\ mode = "space" => p = 4 /\ TypeOf(input, 2) = "at"
    /\ IF mode \in {"command", "selector", "graph"} THEN node.selector = <<>>
       ELSE p >= 3 /\ node.selector = SelectorSaid
    /\ mode \in {"selector", "graph", "space", "phrase"} => node.terms = <<>>
    /\ mode \in {"terms", "phrase"} => TypeOf(input, p - 1) \in {"whitespace", "literal", "phrase"}

\* A word before a ':' that is no clause is read as a value, and the ':' is
\* refused next; an unclosed phrase is read as a graph, and the end after it.
ReadingAt(p) ==
    /\ WindowAt(p) /\ ClauseAt(p) /\ SelectorAt(p)
    /\ \/ mode \in {"terms", "clauses"} /\ cur.type = "colon"
       \/ ReadTo(node, input, Done(p))
    /\ \A i \in 1 .. p - 1 :
          Stray(input, i) => mode = "space" /\ i = p - 1 /\ cur.type = "eol"
    /\ mode \in {"parsed", "bound"} => cur.type = "eol"

ReadingInv == TokensInv /\ NodeInv /\ (mode # "rejected" => \E p \in DOMAIN input : ReadingAt(p))

\* A recall that runs can match something and searches as deep as it says, or
\* says that it does not: it has a vector, a term the index can hold, or
\* anchors alone; beside a term or a vector its anchors are searched; and a
\* depth of 0 or more that was written and has no effect, or another one, is
\* warned of.  A negative depth, which only quotes can write, is accepted and
\* not warned of.
SearchesAsWritten ==
    mode = "bound" /\ query.kind = "recall" =>
        /\ \/ node.vec # <<>>
           \/ \E i \in DOMAIN node.terms : ~IsStop(node.terms[i])
           \/ node.terms = <<>> /\ NamesAnchors(node)
        /\ AnchoredSearch(node) => query.depth >= 1
        /\ node.depth # <<>> /\ Written(node.depth) >= 0 =>
              /\ query.depth \in 0 .. MaxDepth
              /\ query.depth # Written(node.depth) => "depth" \in warns
              /\ query.depth > 0 /\ ~NamesAnchors(node) => "depth" \in warns

(* Why it does: a written depth is a number, and what the end of a recall   *)
(* and query.Parse check is still true when the query runs.                 *)
Checked(n) == n.kind = "recall" => Seeded(n) /\ Warned(n) \subseteq warns

QueryInv ==
    /\ node = [f \in DOMAIN EmptyNode |-> node[f]]
    /\ node.terms \in Seq(ToSet(node.terms))
    /\ node.depth # <<>> => node.depth[1].literal \in DOMAIN IntOf
    /\ mode \in {"tail", "parsed", "bound"} => Checked(node)
    /\ mode = "bound" =>
          /\ query.kind = node.kind
          /\ query.kind = "recall" => WithinLimits(node) /\ query.depth = Depth(node)

\* What a clause or a term of a node says, and whether it was quoted.
Says(n, k) ==
    [i \in DOMAIN n[k] |->
        LET t == n[k][i]
        IN CASE k \in {"top", "depth"} -> <<IntOf[t.literal]>>
             [] k = "terms" /\ n.kind = "remember" -> <<t.type, t.literal>>
             [] k = "vec" -> <<t.literal>>
             [] OTHER -> <<t.type = "phrase", Fold(t.literal)>>]

\* The text of a command parses, to a node that says the same.
ParsesBack ==
    origin # NoNode =>
        /\ mode # "rejected"
        /\ mode = "parsed" =>
              /\ node.kind = origin.kind /\ node.selector = origin.selector
              /\ node.kind = "remember" => node.anchors = origin.anchors
              /\ \A k \in {"terms", "vec"} \cup Anchors \cup Modifiers : Says(node, k) = Says(origin, k)

\* A command's String is a query that parses back to the same node, whatever
\* was quoted, folded or mis-cased in the source, as long as its numbers are
\* not negative: what a client logs is what it ran.
NonNegative(n) == \A k \in {"top", "depth"} : n[k] # <<>> => Written(n[k]) >= 0
PrintsBack == origin # NoNode /\ NonNegative(origin) => ParsesBack

(* Why it is: at any place of the printed text, the node again holds what    *)
(* was printed up to the clause being read.                                *)

TokenAt(text, p) == IF p \in DOMAIN text THEN text[p] ELSE EOL

PrintedAt(p) ==
    LET text == Printed(origin)
    IN /\ cur = TokenAt(text, p) /\ peek = TokenAt(text, p + 1)
       /\ tape = SubSeq(text, p + 2, Len(text))

\* The node holds the first t terms, i clauses and v vectors again.
Again(t, i, v) ==
    /\ node.terms = [j \in 1 .. t |-> PrintedTerm(origin, origin.terms[j])[1]]
    /\ \A k \in Anchors \cup Modifiers :
          node[k] = [j \in 1 .. Times(ClauseOrder(origin), i, k) |-> PrintedField(k, origin[k][j])[1]]
    /\ node.vec = SubSeq(origin.vec, 1, v)
    /\ origin.kind = "remember" => node.anchors = SubSeq(origin.anchors, 1, i)
    /\ mode # "command" => node.kind = origin.kind
    /\ node.selector = IF mode \in {"command", "selector", "graph"} THEN <<>> ELSE origin.selector

\* Which place is read next in each mode: two tokens to a term, four to a clause.
HeadLen(n) == 1 + Len(PrintedSelector(n))
Here(n, i, v) == HeadLen(n) + 2 * Len(n.terms) + 4 * i + 5 * v

PlaceAt(p, t, i, v) ==
    LET text == Printed(origin)
        head == HeadLen(origin)
        here == Here(origin, i, v)
    IN CASE mode = "command" -> p = 1
         [] mode = "selector" -> p = 2
         [] mode \in {"graph", "space"} -> p = (IF mode = "graph" THEN 3 ELSE 4) /\ origin.selector # <<>>
         [] mode = "phrase" -> p = head + 2
         [] mode = "terms" -> \/ p = head + 2 * t + 1 /\ t > 0
                              \/ p = head + 2 * t + 2 /\ p <= Len(text) + 1
         [] mode = "clauses" -> p = here + 1 \/ (p = here + 2 /\ p <= Len(text) + 1)
         [] mode = "separator" -> p = here + 3 /\ p <= Len(text) /\ key = text[p - 1]
         [] mode = "value" -> p = here + 4 /\ p <= Len(text) /\ key = text[p - 2]
         [] mode = "param" -> p = here + 5 /\ p <= Len(text) /\ key = text[p - 3] /\ key.type = "vec"
         [] OTHER -> p = Len(text) + 1 /\ i = Len(ClauseOrder(origin)) /\ v = Len(origin.vec)

\* The terms come before the clauses, the vector last.
CountsAt(t, i, v) ==
    /\ t \in 0 .. Len(origin.terms) /\ i \in 0 .. Len(ClauseOrder(origin)) /\ v \in 0 .. Len(origin.vec)
    /\ mode \in Openings \cup {"phrase"} => t = 0
    /\ mode \in Openings \cup {"phrase", "terms"} => i = 0
    /\ mode \notin Openings \cup {"phrase", "terms"} => t = Len(origin.terms)
    /\ v = 0 \/ (i = Len(ClauseOrder(origin)) /\ mode \in {"clauses", "finish", "tail", "parsed"})

BackAt(p, t, i, v) == PrintedAt(p) /\ CountsAt(t, i, v) /\ Again(t, i, v) /\ PlaceAt(p, t, i, v)

BackInv ==
    origin # NoNode /\ NonNegative(origin) =>
        /\ mode \notin {"rejected", "bound"}
        /\ \E p \in 1 .. Len(Printed(origin)) + 1, t \in 0 .. Len(origin.terms),
               i \in 0 .. Len(ClauseOrder(origin)), v \in 0 .. Len(origin.vec) : BackAt(p, t, i, v)

\* The same of every command that is within the limits and so can run.
AlwaysPrintsBack ==
    (origin # NoNode /\ origin.kind = "recall" => WithinLimits(origin)) => ParsesBack

=============================================================================
