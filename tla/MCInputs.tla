------------------------------ MODULE MCInputs ------------------------------
(* What comes into the process, each on its own: a query text, the requests  *)
(* that plan one (MCPlanCache), or the command line and the file it starts   *)
(* with.                                                                     *)
(*                                                                           *)
(* Queries take one or two spellings per token: numbers, which are words     *)
(* too, a stop word, a duration, a negative number, which only quotes can    *)
(* write, a mis-cased keyword as the lexer types it before a ':' and         *)
(* elsewhere, an unclosed phrase, and a NUL for the characters no production *)
(* accepts.                                                                  *)
(*                                                                           *)
(* Of every kind of setting the command line and the file write a zero, a    *)
(* value at and past the end of its range, and a word as accepted, in        *)
(* another case, and not accepted.                                           *)
EXTENDS QueryParser, Config, MCPlanCache

T(ty, l) == [type |-> ty, literal |-> l]

MCTokens ==
    {T(k, k) : k \in {"recall", "remember", "forget", "topic", "depth", "since", "vec"}}
    \cup {T("top", "Top")}
    \cup {T("literal", l) : l \in {"0", "1", "the", "7d", "Top"}}
    \cup {T("phrase", l) : l \in {"-1", ""}}
    \cup {T(s, s) : s \in {"at", "colon", "dollar", "whitespace", "newline", "nul"}}
    \cup {T("illegal", "1")}

MCLower == "Top" :> "top"
MCSplit == "-1" :> <<T("minus", "minus"), T("literal", "1")>>
MCIntOf == ("1" :> 1) @@ ("0" :> 0) @@ ("-1" :> -1)
MCTimeOf == "7d" :> "relative"
MCParams == "1" :> 2

MCValues ==
    [workers |-> {-1, 0, 1}, maxDepth |-> {-1, 0, 1, 3}, defaultDepth |-> {0, 1},
     numGraphs |-> {-1, 256, 257}, maxTop |-> {-1, 1}, minScoreRatio |-> {NaN, -1, 10, 11},
     windowGamma |-> {NaN, -1, 0, 11}, bufferSize |-> {0, 1}, port |-> {0, 1},
     address |-> {<<>>, <<"elsewhere">>}, precision |-> {"", "float64", "Float64", "half"},
     logLevel |-> {"error", "float64"}, logDisableTimestamp |-> {TRUE}]

MCFolded ==
    [w \in UNION {Accepted[s] : s \in DOMAIN Accepted} |-> w]
    @@ ("Float64" :> "float64") @@ ("error" :> "ERROR")

MCPaths == {DefaultConfigFile, "other.toml"}

MCArgs ==
    UNION {{<<s, v>> : v \in MCValues[s]} : s \in DOMAIN MCValues}
    \cup {<<"config", p>> : p \in MCPaths \cup {""}}
    \cup {<<"help">>, <<"undefined">>, <<"word">>}

\* Two arguments are of one setting, or one of them bears on the others.
MCArgLists ==
    {<<>>} \cup {<<a>> : a \in MCArgs}
    \cup {l \in MCArgs \X MCArgs :
            l[1][1] = l[2][1]
            \/ {l[1][1], l[2][1]} \cap {"port", "config", "help", "undefined", "word"} # {}}

MCFiles ==
    {[kind |-> k] : k \in {"missing", "broken"}}
    \cup {[kind |-> "toml", unknown |-> TRUE, written |-> "port" :> 1]}
    \cup UNION {{[kind |-> "toml", unknown |-> FALSE, written |-> s :> v] : v \in MCValues[s]} :
                  s \in DOMAIN MCValues}

\* The other file exists only where the first does not.
MCDisks ==
    {[q \in MCPaths |-> IF q = DefaultConfigFile THEN f ELSE [kind |-> "missing"]] : f \in MCFiles}
    \cup {[q \in MCPaths |-> IF q = DefaultConfigFile THEN [kind |-> "missing"] ELSE f] :
            f \in {g \in MCFiles : g.kind = "toml" => "port" \in DOMAIN g.written}}

-----------------------------------------------------------------------------
VARIABLE part
inputVars == <<part, vars, planVars, configVars>>

IdleConfig ==
    /\ argv = <<>> /\ disk = [p \in MCPaths |-> [kind |-> "missing"]]
    /\ conf = Defaults /\ fileErr = "nil" /\ unknown = FALSE /\ err = "nil"
    /\ step = "flags"

EmptyText == cur = EOL /\ peek = EOL /\ Init

IdlePlan == capacity = 1 /\ PlanInit

MCInit ==
    \/ part = "query" /\ Init /\ IdlePlan /\ IdleConfig
    \/ part = "plan" /\ EmptyText /\ PlanInit /\ IdleConfig
    \/ part = "config" /\ EmptyText /\ IdlePlan /\ ConfigInit

MCNext ==
    /\ UNCHANGED part
    /\ \/ part = "query" /\ Next /\ UNCHANGED <<planVars, configVars>>
       \/ part = "plan" /\ (PlanNext \/ Beside) /\ UNCHANGED <<vars, configVars>>
       \/ part = "config" /\ ConfigNext /\ UNCHANGED <<vars, planVars>>

MCSpec == MCInit /\ [][MCNext]_inputVars
=============================================================================
