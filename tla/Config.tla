------------------------------- MODULE Config -------------------------------
(* How the process gets its settings and decides to start: the flags are    *)
(* read to find the file, the file is decoded over them, the flags are read *)
(* again to win over the file, zeroes take their defaults, and the result   *)
(* is validated (internal/config), then dispatched on (cmd/server).         *)
(*                                                                          *)
(* Durations are in seconds and fractions in tenths.  An address is <<>>    *)
(* when it is empty, <<"local", port>> or <<"elsewhere">>.  GOMAXPROCS is a  *)
(* constant, and so is what EqualFold matches: Folded maps each spelling of *)
(* an accepted word to the word.                                            *)
EXTENDS Integers, SequencesExt

CONSTANTS
    ArgLists,        \* command lines: sequences of <<flag, value>>
    Disks,           \* file systems: a file for every path in Paths
    Paths,           \* what -config may name
    Folded,          \* spelling |-> accepted word
    Cores,           \* runtime.GOMAXPROCS(0)
    NaN

VARIABLES
    argv, disk,      \* what the operator wrote, never changed
    conf,            \* the ConfigSet
    fileErr,         \* what FromFile returned: "nil", "missing", "broken"
    unknown,         \* meta.Undecoded() is not empty
    err,             \* what Parse returns
    step             \* the next step, or how the process went on

configVars == <<argv, disk, conf, fileErr, unknown, err, step>>

-----------------------------------------------------------------------------
MaxInt(a, b) == IF a > b THEN a ELSE b

DefaultConfigFile == "fraise.config.toml"

\* The built-in defaults.  The address has none: adjust derives it.
Defaults == [
    config |-> DefaultConfigFile,
    workers |-> MaxInt(2, Cores), bufferSize |-> 200, enqueueTimeout |-> 2,
    port |-> 9876, readTimeout |-> 15, readHeaderTimeout |-> 5, writeTimeout |-> 15,
    idleTimeout |-> 60, shutdownGrace |-> 10, maxBodyBytes |-> 2 ^ 20,
    logLevel |-> "INFO", logFormat |-> "text", logDisableTimestamp |-> FALSE,
    halfLife |-> 90 * 24 * 3600, cacheCapacity |-> 1000,
    numGraphs |-> 8, defaultTop |-> 10, defaultDepth |-> 0, maxTop |-> 1000,
    maxDepth |-> 2, maxVectorDimension |-> 4096, precision |-> "float32",
    seedSize |-> 10, minScoreRatio |-> 0, windowGamma |-> 3,
    hashingFunction |-> "xxhash", hashingSeed |-> 0, searchAlgorithm |-> "excess",
    scoringAlgorithm |-> "information", relevanceModel |-> "bm25",
    projectionDimension |-> 128, numberTrees |-> 16, rpSeed |-> 4,
    flushFactor |-> 2, leafSize |-> 32, overfetch |-> 32,
    address |-> <<>>]

Settings == DOMAIN Defaults

\* A command line is a sequence, of flags that can be read and of -h, flags
\* that cannot and arguments that are none, which stop the reading.
ASSUME ArgListsAssumption ==
    \A l \in ArgLists :
        /\ Len(l) \in Nat /\ l = [i \in 1 .. Len(l) |-> l[i]]
        /\ \A i \in 1 .. Len(l) : l[i][1] \in Settings \cup {"help", "undefined", "word"}

\* Each fixed vocabulary.
Accepted == [
    logLevel |-> {"DEBUG", "INFO", "WARN", "ERROR"},
    logFormat |-> {"text", "json"},
    precision |-> {"float32", "float64"},
    hashingFunction |-> {"xxhash", "t1ha"},
    searchAlgorithm |-> {"none", "bfs", "excess"},
    scoringAlgorithm |-> {"information", "excess", "rrf"},
    relevanceModel |-> {"bm25", "matchcount"}]

\* Their default is the zero value already, or the file is read before them.
Unadjusted ==
    {"config", "logDisableTimestamp", "defaultDepth", "minScoreRatio", "hashingSeed", "address"}

Zero(s) ==
    CASE s \in DOMAIN Accepted \cup {"config"} -> ""
      [] s = "address" -> <<>>
      [] s = "logDisableTimestamp" -> FALSE
      [] OTHER -> 0

-----------------------------------------------------------------------------
(* FlagSet.Parse: assigns as it goes, stops at a flag it cannot read, at -h *)
(* and before the first argument that is not a flag.                        *)
Assign(c, a) == [c EXCEPT ![a[1]] = a[2]]

StopsAt == SelectInSeq(argv, LAMBDA a : a[1] \notin Settings)
Met == IF StopsAt = 0 THEN "end" ELSE argv[StopsAt][1]

FlagsOver(c) ==
    LET taken == IF StopsAt = 0 THEN Len(argv) ELSE StopsAt - 1
        assigned[n \in 0 .. taken] ==
            IF n = 0 THEN c ELSE Assign(assigned[n - 1], argv[n])
    IN  assigned[taken]

Return(e) == err' = e /\ step' = "run"

ParseFlags ==
    /\ step = "flags"
    /\ conf' = [FlagsOver(conf) EXCEPT !.config = IF @ = "" THEN DefaultConfigFile ELSE @]
    /\ \/ Met = "help" /\ Return("help")
       \/ Met = "undefined" /\ Return("invalid_flag")
       \/ Met \in {"end", "word"} /\ step' = "file" /\ UNCHANGED err
    /\ UNCHANGED <<argv, disk, fileErr, unknown>>

Overlay(c, written) ==
    [s \in Settings |-> IF s \in DOMAIN written THEN written[s] ELSE c[s]]

FromFile ==
    /\ step = "file"
    /\ LET file == disk[conf.config] IN
       \/ /\ file.kind = "missing" /\ fileErr' = "missing"
          /\ step' = "again"
          /\ UNCHANGED <<conf, unknown, err>>
       \/ /\ file.kind = "broken" /\ fileErr' = "broken"
          /\ Return("parsing_failed")
          /\ UNCHANGED <<conf, unknown>>
       \/ /\ file.kind = "toml" /\ conf' = Overlay(conf, file.written)
          /\ unknown' = file.unknown
          /\ step' = "again"
          /\ UNCHANGED <<fileErr, err>>
    /\ UNCHANGED <<argv, disk>>

\* Faulty variant: the flags are read once, before the file.
FlagsOnce ==
    /\ step = "again"
    /\ IF Met = "word" THEN Return("invalid_flag") ELSE step' = "adjust" /\ UNCHANGED err
    /\ UNCHANGED <<argv, disk, conf, fileErr, unknown>>

ParseFlagsAgain ==
    /\ step = "again"
    /\ conf' = FlagsOver(conf)
    /\ \/ Met = "word" /\ Return("invalid_flag")
       \/ Met = "end" /\ step' = "adjust" /\ UNCHANGED err
    /\ UNCHANGED <<argv, disk, fileErr, unknown>>

Adjust(s, v) == IF s \notin Unadjusted /\ v = Zero(s) THEN Defaults[s] ELSE v

\* The address is adjusted after the port, which it derives from.
AdjustAll ==
    /\ step = "adjust"
    /\ \/ unknown /\ Return("parsing_failed") /\ UNCHANGED conf
       \/ /\ ~unknown
          /\ LET adjusted == [s \in Settings |-> Adjust(s, conf[s])] IN
             conf' = [adjusted EXCEPT !.address = IF @ = <<>> THEN <<"local", adjusted.port>> ELSE @]
          /\ step' = "validate" /\ UNCHANGED err
    /\ UNCHANGED <<argv, disk, fileErr, unknown>>

Canonical(s, v) == IF v \in DOMAIN Folded /\ Folded[v] \in Accepted[s] THEN Folded[v] ELSE v

\* Comparisons with a NaN are false, so it is in neither range.
InRange(c) ==
    /\ c.minScoreRatio # NaN /\ c.minScoreRatio >= 0 /\ c.minScoreRatio <= 10
    /\ c.windowGamma # NaN /\ c.windowGamma <= 10
    /\ c.workers >= 1
    /\ c.maxDepth >= 0 /\ c.maxDepth <= 2
    /\ c.maxTop >= 1
    /\ c.numGraphs >= 1 /\ c.numGraphs <= 256

Validate ==
    /\ step = "validate"
    /\ LET canonical ==
               [s \in Settings |-> IF s \in DOMAIN Accepted THEN Canonical(s, conf[s]) ELSE conf[s]]
       IN  /\ conf' = canonical
           /\ IF (\A s \in DOMAIN Accepted : canonical[s] \in Accepted[s]) /\ InRange(canonical)
                THEN Return(fileErr)
                ELSE Return("invalid_value")
    /\ UNCHANGED <<argv, disk, fileErr, unknown>>

Failures == {"invalid_value", "invalid_flag", "parsing_failed"}

\* main and run.  Only a missing file is survived.
Run(cmd) ==
    /\ step = "run"
    /\ step' = IF err = "help" THEN "exit 0"
               ELSE IF err \in Failures THEN "exit 1"
               ELSE CASE cmd = "mcp" -> "mcp"
                      [] cmd = "serve" -> conf.precision
                      [] cmd = "version" -> "exit 0"
                      [] OTHER -> "exit 1"
    /\ UNCHANGED <<argv, disk, conf, fileErr, unknown, err>>

ConfigInit ==
    /\ argv \in ArgLists /\ disk \in Disks
    /\ conf = Defaults
    /\ fileErr = "nil" /\ unknown = FALSE /\ err = "nil"
    /\ step = "flags"

ConfigNext ==
    \/ ParseFlags \/ FromFile \/ ParseFlagsAgain \/ AdjustAll \/ Validate
    \/ \E cmd \in {"serve", "mcp", "version", "other"} : Run(cmd)

ConfigSpec == ConfigInit /\ [][ConfigNext]_configVars

-----------------------------------------------------------------------------
(* What the operator wrote, read off the command line and the file.         *)
Flagged(s) == SelectLastInSeq(argv, LAMBDA a : a[1] = s)

File ==
    LET path == IF Flagged("config") = 0 \/ argv[Flagged("config")][2] = ""
                  THEN DefaultConfigFile ELSE argv[Flagged("config")][2]
    IN  disk[path]

FileSays(s) == File.kind = "toml" /\ s \in DOMAIN File.written

Asked(s) ==
    CASE Flagged(s) # 0 -> argv[Flagged(s)][2]
      [] Flagged(s) = 0 /\ FileSays(s) -> File.written[s]
      [] OTHER -> Defaults[s]

Wanted(s) == IF Asked(s) = Zero(s) THEN Defaults[s] ELSE Asked(s)

\* Nothing on the command line or in the file has to be refused.
Usable ==
    /\ \A i \in DOMAIN argv : argv[i][1] \in Settings
    /\ File.kind # "broken"
    /\ File.kind = "toml" => ~File.unknown
    /\ \A s \in DOMAIN Accepted :
          \E w \in Accepted[s] : Wanted(s) = w \/ (Wanted(s) \in DOMAIN Folded /\ Folded[Wanted(s)] = w)
    /\ InRange([s \in Settings |-> Wanted(s)])

\* The settings are those that were asked for.
Honoured ==
    /\ Usable
    /\ \A s \in Settings \ (DOMAIN Accepted \cup {"address", "config"}) : conf[s] = Wanted(s)
    /\ \A s \in DOMAIN Accepted : conf[s] = Canonical(s, Wanted(s)) /\ conf[s] \in Accepted[s]
    /\ conf.address = (IF Asked("address") = <<>> THEN <<"local", Wanted("port")>>
                                                 ELSE Asked("address"))

Started == step \in {"mcp", "float32", "float64"}

(* A server or a bridge that starts runs with what the operator wrote: the  *)
(* last flag that names a setting, else the file, else the default, with a  *)
(* zero meaning the default, a word in its accepted spelling, and the       *)
(* address that of the port that is served.  It starts only if all of it    *)
(* could be honoured, a missing file being no fault, and a server or bridge *)
(* that was asked for and exits with a failure had something to refuse.     *)
StartsAsWritten ==
    /\ Started => Honoured /\ (step # "mcp" => step = conf.precision)
    /\ err \in Failures => ~Usable

-----------------------------------------------------------------------------
(* Why it does, step by step: what the settings are before each step, as    *)
(* long as every flag could be read.                                        *)

FirstRead == [FlagsOver(Defaults) EXCEPT !.config = IF @ = "" THEN DefaultConfigFile ELSE @]

\* The file was read, or is missing.
FileRead ==
    \/ File.kind = "missing" /\ fileErr = "missing" /\ unknown = FALSE
    \/ File.kind = "toml" /\ fileErr = "nil" /\ unknown = File.unknown

ReadInv ==
    /\ step = "flags" => conf = Defaults
    /\ step \in {"flags", "file"} => fileErr = "nil" /\ unknown = FALSE
    /\ step \in {"file", "again"} => Met \in {"end", "word"}
    /\ step = "file" => conf = FirstRead
    /\ step = "again" /\ Met = "end" =>
          /\ FileRead
          /\ conf = IF File.kind = "toml" THEN Overlay(FirstRead, File.written) ELSE FirstRead
    /\ step \in {"flags", "file", "again", "adjust", "validate"} => err = "nil"

AdjustedInv ==
    /\ step \in {"adjust", "validate"} => Met = "end" /\ FileRead
    /\ step = "adjust" => \A s \in Settings \ {"config"} : conf[s] = Asked(s)
    /\ step = "validate" =>
          /\ ~unknown
          /\ \A s \in Settings \ {"address", "config"} : conf[s] = Wanted(s)
          /\ conf.address = (IF Asked("address") = <<>> THEN <<"local", Wanted("port")>>
                                                       ELSE Asked("address"))

EndInv ==
    /\ err \in {"nil", "missing", "help"} \cup Failures
    /\ err \in Failures => ~Usable
    /\ step = "run" /\ err \in {"nil", "missing"} => Honoured
    /\ Started => Honoured /\ (step # "mcp" => step = conf.precision)

ConfigInv ==
    /\ argv \in ArgLists /\ conf = [s \in Settings |-> conf[s]]
    /\ ReadInv /\ AdjustedInv /\ EndInv
=============================================================================
