---------------------------- MODULE InputProofs ----------------------------
(* What people write is what runs: the settings of the process, the scope   *)
(* of a recall, and each token of a query, which prints back as it was read.*)
EXTENDS Config, QueryParser, CollectionFacts

-----------------------------------------------------------------------------
(* Settings.                                                               *)

\* The names that a step treats apart from the others.
LEMMA SettingNames ==
  /\ {"config", "address", "port", "precision", "minScoreRatio", "windowGamma", "workers",
      "maxDepth", "maxTop", "numGraphs"} \subseteq Settings
  /\ DOMAIN Accepted \subseteq Settings
  /\ {"help", "undefined", "word", "end"} \cap Settings = {}
  BY DEF Settings, Defaults, Accepted

LEMMA AcceptedNames ==
  /\ "precision" \in DOMAIN Accepted /\ Accepted["precision"] = {"float32", "float64"}
  /\ {"config", "address", "port", "minScoreRatio", "windowGamma", "workers",
      "maxDepth", "maxTop", "numGraphs"} \cap DOMAIN Accepted = {}
  BY DEF Accepted

\* The zero of a setting that is not adjusted is its default.
LEMMA UnadjustedDefaults ==
  \A s \in Unadjusted \ {"config", "address"} : Defaults[s] = Zero(s)
<1>1. \A s \in Unadjusted \ {"config", "address"} :
        s \in {"logDisableTimestamp", "defaultDepth", "minScoreRatio", "hashingSeed"}
  BY DEF Unadjusted
<1>2. /\ Defaults["logDisableTimestamp"] = FALSE /\ Defaults["defaultDepth"] = 0
      /\ Defaults["minScoreRatio"] = 0 /\ Defaults["hashingSeed"] = 0
  BY DEF Defaults
<1>3. /\ Zero("logDisableTimestamp") = FALSE /\ Zero("defaultDepth") = 0
      /\ Zero("minScoreRatio") = 0 /\ Zero("hashingSeed") = 0
  BY DEF Zero, Accepted
<1> QED
  BY <1>1, <1>2, <1>3

LEMMA DefaultFile == Defaults["config"] = DefaultConfigFile
  BY DEF Defaults

-----------------------------------------------------------------------------
(* Flags.                                                                  *)

\* What c is once the first n arguments were assigned over base.
Assigned(c, base, n) ==
    /\ c = [s \in DOMAIN base |-> c[s]]
    /\ \A s \in DOMAIN base :
          /\ (\A i \in 1 .. n : argv[i][1] # s) => c[s] = base[s]
          /\ \A i \in 1 .. n :
                argv[i][1] = s /\ (\A j \in i + 1 .. n : argv[j][1] # s) => c[s] = argv[i][2]

LEMMA AssignStep ==
  ASSUME NEW c, NEW base, NEW n \in Nat, Assigned(c, base, n)
  PROVE  Assigned(Assign(c, argv[n + 1]), base, n + 1)
<1> DEFINE d == Assign(c, argv[n + 1])
<1>1. DOMAIN c = DOMAIN base /\ d = [s \in DOMAIN base |-> d[s]]
  BY DEF Assign, Assigned
<1>2. \A s \in DOMAIN base : d[s] = IF argv[n + 1][1] = s THEN argv[n + 1][2] ELSE c[s]
  BY DEF Assign, Assigned
<1> HIDE DEF d
<1>3. \A i \in 1 .. n + 1 : i \in 1 .. n \/ i = n + 1
  OBVIOUS
<1>4. /\ n + 1 \in 1 .. n + 1
      /\ \A i \in 1 .. n : i \in 1 .. n + 1 /\ n + 1 \in i + 1 .. n + 1
                           /\ \A j \in i + 1 .. n : j \in i + 1 .. n + 1
  OBVIOUS
<1>5. ASSUME NEW s \in DOMAIN base, \A i \in 1 .. n + 1 : argv[i][1] # s PROVE d[s] = base[s]
  BY <1>2, <1>4, <1>5 DEF Assigned
<1>6. ASSUME NEW s \in DOMAIN base, NEW i \in 1 .. n + 1,
             argv[i][1] = s, \A j \in i + 1 .. n + 1 : argv[j][1] # s
      PROVE  d[s] = argv[i][2]
  <2>1. CASE i = n + 1
    BY <1>2, <1>6, <2>1
  <2>2. CASE i \in 1 .. n
    BY <1>2, <1>4, <1>6, <2>2 DEF Assigned
  <2> QED
    BY <1>3, <2>1, <2>2
<1>7. Assigned(d, base, n + 1)
  BY <1>1, <1>5, <1>6 DEF Assigned
<1> QED
  BY <1>7 DEF d

\* The arguments taken before the first that is not a flag.
LEMMA Stops ==
  ASSUME argv \in ArgLists
  PROVE  LET taken == IF StopsAt = 0 THEN Len(argv) ELSE StopsAt - 1 IN
         /\ taken \in 0 .. Len(argv)
         /\ StopsAt = 0 <=> \A i \in 1 .. Len(argv) : argv[i][1] \in Settings
         /\ StopsAt # 0 => Met \in {"help", "undefined", "word"} /\ StopsAt \in 1 .. Len(argv)
                           /\ argv[StopsAt][1] \notin Settings
<1> DEFINE I == {i \in 1 .. Len(argv) : argv[i][1] \notin Settings}
<1>1. Len(argv) \in Nat /\ \A i \in I : argv[i][1] \in {"help", "undefined", "word"}
  BY ArgListsAssumption
<1>2. StopsAt = IF I # {} THEN Min(I) ELSE 0
  BY DEF StopsAt, SelectInSeq
<1>3. I # {} => Min(I) \in I
  <2>1. I \in SUBSET (1 .. Len(argv))
    OBVIOUS
  <2> HIDE DEF I
  <2> QED
    BY <1>1, <2>1, ExtremesOf
<1>4. CASE I = {}
  BY <1>1, <1>2, <1>4
<1>5. CASE I # {}
  <2>1. StopsAt \in I
    BY <1>2, <1>3, <1>5
  <2>2. StopsAt \in 1 .. Len(argv) /\ StopsAt # 0 /\ StopsAt - 1 \in 0 .. Len(argv)
    BY <1>1, <2>1
  <2> QED
    BY <1>1, <2>1, <2>2 DEF Met
<1> QED
  BY <1>4, <1>5

\* Reading the flags keeps the settings a configuration has, and gives each
\* the value of the last flag that names it.
LEMMA FlagsAssign ==
  ASSUME argv \in ArgLists, NEW c, c = [s \in DOMAIN c |-> c[s]]
  PROVE  Assigned(FlagsOver(c), c, IF StopsAt = 0 THEN Len(argv) ELSE StopsAt - 1)
<1> DEFINE n == IF StopsAt = 0 THEN Len(argv) ELSE StopsAt - 1
           V == {c[s] : s \in DOMAIN c} \cup {argv[k][2] : k \in 1 .. n}
           D == [DOMAIN c -> V]
           F == [k \in 1 .. n |-> [d \in D |-> Assign(d, argv[k])]]
           Loop(f) == [k \in 0 .. n |-> IF k = 0 THEN c ELSE Assign(f[k - 1], argv[k])]
           assigned == CHOOSE f : f = Loop(f)
           U == {m \in 0 .. n : Assigned(assigned[m], c, m)}
<1>0. n \in Nat
  <2>1. n \in 0 .. Len(argv) /\ Len(argv) \in Nat
    BY Stops, ArgListsAssumption
  <2> HIDE DEF n
  <2> QED
    BY <2>1
<1>1. FlagsOver(c) = assigned[n]
  BY DEF FlagsOver
<1> HIDE DEF n
<1>2. c \in D
  <2>1. \A s \in DOMAIN c : c[s] \in V
    OBVIOUS
  <2> HIDE DEF V
  <2> QED
    BY <2>1
<1>3. ASSUME NEW d \in D, NEW k \in 1 .. n
      PROVE  F[k][d] = Assign(d, argv[k]) /\ F[k][d] \in D
  <2>1. argv[k][2] \in V /\ F[k][d] = Assign(d, argv[k])
    OBVIOUS
  <2> HIDE DEF V, F
  <2>2. Assign(d, argv[k]) \in D
    BY <2>1 DEF Assign
  <2> QED
    BY <2>1, <2>2
<1> HIDE DEF D, F
<1>4. \E f : Runs(f, F, c, D, n)
  <2>1. Turns(F, D, n)
    BY <1>3 DEF Turns
  <2> QED
    BY <1>0, <1>2, <2>1, LoopRuns
<1>5. assigned = Loop(assigned)
  <2>1. PICK f : Runs(f, F, c, D, n)
    BY <1>4
  <2>2. f[0] = c /\ \A k \in 1 .. n : f[k] = Assign(f[k - 1], argv[k])
    BY <1>3, <2>1 DEF Runs
  <2>3. f = [k \in 0 .. n |-> f[k]]
    BY <2>1 DEF Runs
  <2>4. \A k \in 0 .. n : k = 0 \/ k \in 1 .. n
    BY <1>0
  <2>5. f = Loop(f)
    BY <2>2, <2>3, <2>4
  <2> HIDE DEF Loop
  <2> QED
    BY <2>5
<1> HIDE DEF assigned
<1>6. assigned[0] = c /\ \A k \in 0 .. n - 1 : assigned[k + 1] = Assign(assigned[k], argv[k + 1])
  <2>1. \A k \in 0 .. n : assigned[k] = Loop(assigned)[k]
    BY <1>5
  <2> QED
    BY <1>0, <2>1
<1> HIDE DEF Loop
<1>7. 0 \in U
  <2>1. Assigned(c, c, 0)
    BY DEF Assigned
  <2> QED
    BY <1>0, <1>6, <2>1
<1>8. ASSUME NEW m \in 0 .. n - 1, m \in U PROVE m + 1 \in U
  <2>1. m + 1 \in 0 .. n /\ m \in Nat
    BY <1>0
  <2>2. Assigned(assigned[m + 1], c, m + 1)
    BY <1>6, <1>8, <2>1, AssignStep
  <2> QED
    BY <2>1, <2>2
<1>9. n \in U
  <2> HIDE DEF U
  <2>1. \A k \in 0 .. n - 1 : k \in U => k + 1 \in U
    BY <1>8
  <2>2. \A m \in 0 .. n : m \in U
    BY <1>0, <1>7, <2>1, Induction
  <2> QED
    BY <1>0, <2>2
<1> QED
  BY <1>1, <1>9 DEF n

\* The last flag that names s, if any does.
LEMMA FlaggedIs ==
  ASSUME argv \in ArgLists, NEW s
  PROVE  \/ Flagged(s) = 0 /\ \A i \in 1 .. Len(argv) : argv[i][1] # s
         \/ /\ Flagged(s) \in 1 .. Len(argv) /\ Flagged(s) # 0 /\ argv[Flagged(s)][1] = s
            /\ \A j \in Flagged(s) + 1 .. Len(argv) : argv[j][1] # s
<1> DEFINE I == {i \in 1 .. Len(argv) : argv[i][1] = s}
<1>1. Len(argv) \in Nat
  BY ArgListsAssumption
<1>2. Flagged(s) = IF I # {} THEN Max(I) ELSE 0
  BY DEF Flagged, SelectLastInSeq
<1>3. I # {} => Max(I) \in I /\ \A y \in I : Max(I) >= y
  <2>1. I \in SUBSET (1 .. Len(argv))
    OBVIOUS
  <2> HIDE DEF I
  <2> QED
    BY <1>1, <2>1, ExtremesOf
<1>4. CASE I = {}
  BY <1>2, <1>4
<1>5. CASE I # {}
  <2>1. Flagged(s) \in I /\ \A y \in I : Flagged(s) >= y
    BY <1>2, <1>3, <1>5
  <2>2. Flagged(s) \in 1 .. Len(argv) /\ argv[Flagged(s)][1] = s
    BY <2>1
  <2>3. ASSUME NEW j \in Flagged(s) + 1 .. Len(argv) PROVE argv[j][1] # s
    <3>1. j \in 1 .. Len(argv) /\ ~(Flagged(s) >= j)
      BY <1>1, <2>2
    <3> QED
      BY <2>1, <3>1
  <2>4. Flagged(s) # 0
    BY <2>2
  <2> QED
    BY <2>2, <2>3, <2>4
<1> QED
  BY <1>4, <1>5

\* When every argument is a flag, the last one wins.
LEMMA FlagsWin ==
  ASSUME argv \in ArgLists, NEW c, c = [s \in DOMAIN c |-> c[s]]
  PROVE  /\ FlagsOver(c) = [s \in DOMAIN c |-> FlagsOver(c)[s]]
         /\ Met = "end" => \A s \in DOMAIN c :
               FlagsOver(c)[s] = IF Flagged(s) # 0 THEN argv[Flagged(s)][2] ELSE c[s]
<1>1. FlagsOver(c) = [s \in DOMAIN c |-> FlagsOver(c)[s]]
  BY FlagsAssign DEF Assigned
<1>2. ASSUME Met = "end", NEW s \in DOMAIN c
      PROVE  FlagsOver(c)[s] = IF Flagged(s) # 0 THEN argv[Flagged(s)][2] ELSE c[s]
  <2>1. Assigned(FlagsOver(c), c, Len(argv))
    <3>1. StopsAt = 0
      BY <1>2, Stops
    <3> QED
      BY <3>1, FlagsAssign
  <2> QED
    BY <2>1, FlaggedIs DEF Assigned
<1> QED
  BY <1>1, <1>2

-----------------------------------------------------------------------------
(* The steps.                                                              *)

\* What was written does not change.
LEMMA WrittenIsFixed ==
  ASSUME UNCHANGED <<argv, disk>>
  PROVE  /\ Met' = Met /\ File' = File /\ FirstRead' = FirstRead /\ Usable' = Usable
         /\ \A s \in Settings : Asked(s)' = Asked(s) /\ Wanted(s)' = Wanted(s)
<1>0. StopsAt' = StopsAt /\ \A s : Flagged(s)' = Flagged(s)
  BY DEF StopsAt, Flagged, SelectInSeq, SelectLastInSeq
<1>1. Met' = Met /\ File' = File /\ FirstRead' = FirstRead
  <2>1. Met' = Met
    BY <1>0 DEF Met
  <2>2. File' = File
    BY <1>0 DEF File
  <2>3. FirstRead' = FirstRead
    BY <1>0 DEF FirstRead, FlagsOver
  <2> QED
    BY <2>1, <2>2, <2>3
<1>2. \A s \in Settings : Asked(s)' = Asked(s)
  BY <1>0, <1>1 DEF Asked, FileSays
<1>3. \A s \in Settings : Wanted(s)' = Wanted(s)
  BY <1>2 DEF Wanted
<1>4. Usable' = Usable
  <2>1. [s \in Settings |-> Wanted(s)]' = [s \in Settings |-> Wanted(s)]
    BY <1>3
  <2>2. InRange([s \in Settings |-> Wanted(s)])' = InRange([s \in Settings |-> Wanted(s)])
    BY <2>1 DEF InRange
  <2>3. \A s \in DOMAIN Accepted : Wanted(s)' = Wanted(s)
    BY <1>3, SettingNames
  <2> QED
    BY <1>1, <2>2, <2>3 DEF Usable
<1> QED
  BY <1>1, <1>2, <1>3, <1>4

LEMMA HonouredKept ==
  ASSUME UNCHANGED <<argv, disk, conf>>
  PROVE  Honoured' = Honoured
<1>1. Usable' = Usable /\ \A s \in Settings : Asked(s)' = Asked(s) /\ Wanted(s)' = Wanted(s)
  BY WrittenIsFixed
<1> QED
  BY <1>1, SettingNames DEF Honoured

LEMMA ConfigInvInit == ConfigInit => ConfigInv
<1> SUFFICES ASSUME ConfigInit PROVE ConfigInv
  OBVIOUS
<1>1. conf = [s \in Settings |-> conf[s]]
  BY DEF ConfigInit, Settings, Defaults
<1>2. ReadInv /\ AdjustedInv
  BY DEF ConfigInit, ReadInv, AdjustedInv
<1>3. EndInv
  BY DEF ConfigInit, EndInv, Started, Failures
<1> QED
  BY <1>1, <1>2, <1>3 DEF ConfigInit, ConfigInv

\* An argument that is no setting has to be refused.
LEMMA NotAFlag ==
  ASSUME argv \in ArgLists, Met # "end"
  PROVE  ~Usable
<1>1. PICK i \in 1 .. Len(argv) : argv[i][1] \notin Settings
  <2>1. StopsAt # 0
    BY DEF Met
  <2> QED
    BY <2>1, Stops
<1>2. DOMAIN argv = 1 .. Len(argv)
  BY ArgListsAssumption
<1> QED
  BY <1>1, <1>2 DEF Usable

LEMMA DefaultsRead ==
  ASSUME argv \in ArgLists
  PROVE  /\ FirstRead = [s \in Settings |-> FirstRead[s]]
         /\ Met = "end" =>
              /\ disk[FirstRead["config"]] = File
              /\ \A s \in Settings \ {"config"} :
                   FirstRead[s] = IF Flagged(s) # 0 THEN argv[Flagged(s)][2] ELSE Defaults[s]
<1>1. Defaults = [s \in DOMAIN Defaults |-> Defaults[s]]
  BY DEF Defaults
<1>2. /\ DOMAIN FlagsOver(Defaults) = Settings
      /\ Met = "end" => \A s \in Settings : FlagsOver(Defaults)[s] =
             IF Flagged(s) # 0 THEN argv[Flagged(s)][2] ELSE Defaults[s]
  BY <1>1, FlagsWin DEF Settings
<1>3. FirstRead = [s \in Settings |->
          IF s = "config" /\ FlagsOver(Defaults)[s] = "" THEN DefaultConfigFile
          ELSE FlagsOver(Defaults)[s]]
  BY <1>2, SettingNames DEF FirstRead
<1>4. Met = "end" => disk[FirstRead["config"]] = File
  BY <1>2, <1>3, SettingNames, DefaultFile DEF File
<1> QED
  BY <1>2, <1>3, <1>4

LEMMA ParseFlagsStep ==
  ASSUME ConfigInv, ParseFlags
  PROVE  ConfigInv'
<1>1. /\ step = "flags" /\ conf = Defaults /\ argv \in ArgLists
      /\ fileErr' = "nil" /\ unknown' = FALSE /\ conf' = FirstRead /\ UNCHANGED <<argv, disk>>
      /\ err = "nil"
  BY DEF ConfigInv, ReadInv, ParseFlags, FirstRead
<1>2. /\ Met' = Met /\ FirstRead' = FirstRead
      /\ conf' = [s \in Settings |-> conf'[s]]
  BY <1>1, WrittenIsFixed, DefaultsRead
<1>3. \/ Met = "help" /\ err' = "help" /\ step' = "run"
      \/ Met = "undefined" /\ err' = "invalid_flag" /\ step' = "run"
      \/ Met \in {"end", "word"} /\ step' = "file" /\ err' = "nil"
  BY <1>1 DEF ParseFlags, Return
<1>4. ReadInv' /\ AdjustedInv'
  BY <1>1, <1>2, <1>3 DEF ReadInv, AdjustedInv
<1>5. err' \in Failures => ~Usable'
  <2>1. err' \in Failures => Met = "undefined"
    BY <1>3 DEF Failures
  <2> QED
    BY <1>1, <2>1, NotAFlag, WrittenIsFixed
<1>6. EndInv'
  BY <1>3, <1>5 DEF EndInv, Started, Failures
<1> QED
  BY <1>1, <1>2, <1>4, <1>6 DEF ConfigInv

LEMMA FromFileStep ==
  ASSUME ConfigInv, FromFile
  PROVE  ConfigInv'
<1> DEFINE file == disk[conf["config"]]
<1>1. /\ step = "file" /\ argv \in ArgLists /\ conf = FirstRead /\ UNCHANGED <<argv, disk>>
      /\ fileErr = "nil" /\ unknown = FALSE /\ err = "nil" /\ Met \in {"end", "word"}
  BY DEF ConfigInv, ReadInv, FromFile
<1>2. /\ Met' = Met /\ FirstRead' = FirstRead /\ File' = File /\ Usable' = Usable
      /\ Met = "end" => file = File
      /\ conf = [s \in Settings |-> conf[s]]
  BY <1>1, WrittenIsFixed, DefaultsRead
<1>3. \/ /\ file.kind = "missing" /\ fileErr' = "missing" /\ step' = "again"
         /\ UNCHANGED <<conf, unknown, err>>
      \/ /\ file.kind = "broken" /\ err' = "parsing_failed" /\ step' = "run" /\ conf' = conf
      \/ /\ file.kind = "toml" /\ conf' = Overlay(conf, file.written) /\ unknown' = file.unknown
         /\ step' = "again" /\ UNCHANGED <<fileErr, err>>
  BY DEF FromFile, Return
<1> HIDE DEF file
<1>4. conf' = [s \in Settings |-> conf'[s]]
  BY <1>2, <1>3 DEF Overlay
<1>5. step' = "again" /\ Met = "end" =>
         /\ FileRead'
         /\ conf' = IF File.kind = "toml" THEN Overlay(FirstRead, File.written) ELSE FirstRead
  BY <1>1, <1>2, <1>3 DEF FileRead
<1>6. ReadInv' /\ AdjustedInv'
  <2>1. (conf' = IF File.kind = "toml" THEN Overlay(FirstRead, File.written) ELSE FirstRead)
          <=> (conf = IF File.kind = "toml" THEN Overlay(FirstRead, File.written) ELSE FirstRead)'
    BY <1>2 DEF Overlay
  <2>2. step' = "run" \/ (step' = "again" /\ err' = "nil")
    BY <1>1, <1>3
  <2> QED
    BY <1>1, <1>2, <1>5, <2>1, <2>2 DEF ReadInv, AdjustedInv
<1>7. EndInv'
  <2>1. (err' = "parsing_failed" /\ step' = "run") \/ (err' = "nil" /\ step' = "again")
    BY <1>1, <1>3
  <2>2. err' = "parsing_failed" => ~Usable
    <3>1. Met = "end" /\ err' = "parsing_failed" => File.kind = "broken"
      BY <1>1, <1>2, <1>3
    <3> QED
      BY <1>1, <3>1, NotAFlag DEF Usable
  <2> QED
    BY <1>2, <2>1, <2>2 DEF EndInv, Started, Failures
<1> QED
  BY <1>1, <1>4, <1>6, <1>7 DEF ConfigInv

LEMMA ParseFlagsAgainStep ==
  ASSUME ConfigInv, ParseFlagsAgain
  PROVE  ConfigInv'
<1>1. /\ step = "again" /\ argv \in ArgLists /\ conf = [s \in Settings |-> conf[s]]
      /\ conf' = FlagsOver(conf) /\ UNCHANGED <<argv, disk, fileErr, unknown>> /\ err = "nil"
  BY DEF ConfigInv, ReadInv, ParseFlagsAgain
<1>2. Met' = Met /\ File' = File /\ Usable' = Usable
      /\ \A s \in Settings : Asked(s)' = Asked(s)
  BY <1>1, WrittenIsFixed
<1>3. \/ Met = "word" /\ err' = "invalid_flag" /\ step' = "run"
      \/ Met = "end" /\ step' = "adjust" /\ err' = err
  BY DEF ParseFlagsAgain, Return
<1>4. DOMAIN conf = Settings
  BY <1>1
<1>5. conf' = [s \in Settings |-> conf'[s]]
  BY <1>1, <1>4, FlagsWin
<1>6. Met = "end" => FileRead'
  BY <1>1, <1>2 DEF ConfigInv, ReadInv, FileRead
<1>7. ASSUME Met = "end", NEW s \in Settings \ {"config"} PROVE conf'[s] = Asked(s)
  <2>1. conf'[s] = IF Flagged(s) # 0 THEN argv[Flagged(s)][2] ELSE conf[s]
    BY <1>1, <1>4, <1>7, FlagsWin
  <2>2. conf[s] = IF FileSays(s) THEN File.written[s] ELSE FirstRead[s]
    BY <1>1, <1>7 DEF ConfigInv, ReadInv, Overlay, FileSays
  <2>3. FirstRead[s] = IF Flagged(s) # 0 THEN argv[Flagged(s)][2] ELSE Defaults[s]
    BY <1>1, <1>7, DefaultsRead
  <2> QED
    BY <2>1, <2>2, <2>3 DEF Asked
<1>8. ReadInv' /\ AdjustedInv'
  BY <1>1, <1>2, <1>3, <1>6, <1>7 DEF ReadInv, AdjustedInv
<1>9. EndInv'
  <2>1. err' = "invalid_flag" => ~Usable
    BY <1>1, <1>3, NotAFlag
  <2> QED
    BY <1>1, <1>2, <1>3, <2>1 DEF EndInv, Started, Failures
<1> QED
  BY <1>1, <1>5, <1>8, <1>9 DEF ConfigInv

LEMMA AdjustAllStep ==
  ASSUME ConfigInv, AdjustAll
  PROVE  ConfigInv'
<1>1. /\ step = "adjust" /\ argv \in ArgLists /\ conf = [s \in Settings |-> conf[s]]
      /\ UNCHANGED <<argv, disk, fileErr, unknown>> /\ err = "nil"
      /\ Met = "end" /\ FileRead /\ \A s \in Settings \ {"config"} : conf[s] = Asked(s)
  BY DEF ConfigInv, ReadInv, AdjustedInv, AdjustAll
<1>2. /\ Met' = Met /\ File' = File /\ Usable' = Usable
      /\ \A s \in Settings : Asked(s)' = Asked(s) /\ Wanted(s)' = Wanted(s)
      /\ FileRead'
  <2>1. /\ Met' = Met /\ File' = File /\ Usable' = Usable
        /\ \A s \in Settings : Asked(s)' = Asked(s) /\ Wanted(s)' = Wanted(s)
    BY <1>1, WrittenIsFixed
  <2> QED
    BY <1>1, <2>1 DEF FileRead
<1>3. CASE unknown /\ err' = "parsing_failed" /\ step' = "run" /\ conf' = conf
  <2>1. ~Usable
    BY <1>1, <1>3 DEF FileRead, Usable
  <2>2. ReadInv' /\ AdjustedInv'
    BY <1>3 DEF ReadInv, AdjustedInv
  <2>3. EndInv'
    BY <1>2, <1>3, <2>1 DEF EndInv, Started, Failures
  <2> QED
    BY <1>1, <1>3, <2>2, <2>3 DEF ConfigInv
<1>4. CASE ~unknown /\ step' = "validate" /\ err' = err
  <2> DEFINE adjusted == [s \in Settings |-> Adjust(s, conf[s])]
  <2>1. conf' = [adjusted EXCEPT !["address"] =
                    IF @ = <<>> THEN <<"local", adjusted["port"]>> ELSE @]
    BY <1>4 DEF AdjustAll, Return
  <2>2. \A s \in Settings \ {"address", "config"} : adjusted[s] = Wanted(s)
    <3>1. ASSUME NEW s \in Settings \ {"address", "config"} PROVE Adjust(s, Asked(s)) = Wanted(s)
      BY UnadjustedDefaults DEF Adjust, Wanted
    <3> QED
      BY <1>1, <3>1
  <2>3. adjusted["address"] = Asked("address") /\ adjusted["port"] = Wanted("port")
    <3>1. Adjust("address", Asked("address")) = Asked("address")
      BY DEF Adjust, Unadjusted
    <3> QED
      BY <1>1, <2>2, <3>1, SettingNames
  <2>4. DOMAIN adjusted = Settings
    OBVIOUS
  <2> HIDE DEF adjusted
  <2>5. /\ conf' = [s \in Settings |-> conf'[s]]
        /\ \A s \in Settings \ {"address", "config"} : conf'[s] = Wanted(s)
        /\ conf'["address"] = (IF Asked("address") = <<>> THEN <<"local", Wanted("port")>>
                                                          ELSE Asked("address"))
    BY <2>1, <2>2, <2>3, <2>4, SettingNames
  <2>6. ReadInv'
    BY <1>1, <1>4 DEF ReadInv
  <2>7. AdjustedInv'
    BY <1>1, <1>2, <1>4, <2>5, SettingNames DEF AdjustedInv
  <2>8. EndInv'
    BY <1>1, <1>4 DEF EndInv, Started, Failures
  <2> QED
    BY <1>1, <2>5, <2>6, <2>7, <2>8 DEF ConfigInv
<1> QED
  BY <1>3, <1>4 DEF AdjustAll, Return

\* A word is accepted when it is one of the vocabulary or folds to one.
LEMMA CanonicalAccepted ==
  ASSUME NEW s \in DOMAIN Accepted, NEW v
  PROVE  Canonical(s, v) \in Accepted[s] <=>
           \E w \in Accepted[s] : v = w \/ (v \in DOMAIN Folded /\ Folded[v] = w)
  BY DEF Canonical

LEMMA ValidateStep ==
  ASSUME ConfigInv, Validate
  PROVE  ConfigInv'
<1> DEFINE canonical ==
             [s \in Settings |-> IF s \in DOMAIN Accepted THEN Canonical(s, conf[s]) ELSE conf[s]]
           fits == (\A s \in DOMAIN Accepted : canonical[s] \in Accepted[s]) /\ InRange(canonical)
<1>1. /\ step = "validate" /\ argv \in ArgLists
      /\ UNCHANGED <<argv, disk, fileErr, unknown>> /\ err = "nil"
      /\ Met = "end" /\ FileRead /\ ~unknown
      /\ \A s \in Settings \ {"address", "config"} : conf[s] = Wanted(s)
      /\ conf["address"] = (IF Asked("address") = <<>> THEN <<"local", Wanted("port")>>
                                                       ELSE Asked("address"))
  BY DEF ConfigInv, ReadInv, AdjustedInv, Validate
<1>2. /\ conf' = canonical /\ step' = "run"
      /\ err' = IF fits THEN fileErr ELSE "invalid_value"
  BY DEF Validate, Return
<1>3. /\ \A s \in DOMAIN Accepted : canonical[s] = Canonical(s, Wanted(s))
      /\ \A s \in Settings \ (DOMAIN Accepted \cup {"address", "config"}) : canonical[s] = Wanted(s)
      /\ canonical["address"] = conf["address"]
      /\ canonical = [s \in Settings |-> canonical[s]]
  BY <1>1, SettingNames, AcceptedNames
<1> HIDE DEF canonical
<1>4. InRange(canonical) <=> InRange([s \in Settings |-> Wanted(s)])
  <2>1. \A s \in {"minScoreRatio", "windowGamma", "workers", "maxDepth", "maxTop", "numGraphs"} :
          canonical[s] = [z \in Settings |-> Wanted(z)][s]
    BY <1>3, SettingNames, AcceptedNames
  <2> QED
    BY <2>1 DEF InRange
<1>5. fits <=> Usable
  <2>1. \A i \in DOMAIN argv : argv[i][1] \in Settings
    <3>1. StopsAt = 0
      BY <1>1, Stops
    <3>2. DOMAIN argv = 1 .. Len(argv)
      BY <1>1, ArgListsAssumption
    <3> QED
      BY <1>1, <3>1, <3>2, Stops
  <2>2. File.kind # "broken" /\ (File.kind = "toml" => ~File.unknown)
    BY <1>1 DEF FileRead
  <2>3. (\A s \in DOMAIN Accepted : canonical[s] \in Accepted[s]) <=>
          \A s \in DOMAIN Accepted :
             \E w \in Accepted[s] :
                Wanted(s) = w \/ (Wanted(s) \in DOMAIN Folded /\ Folded[Wanted(s)] = w)
    BY <1>3, CanonicalAccepted
  <2> QED
    BY <1>4, <2>1, <2>2, <2>3 DEF Usable
<1> HIDE DEF fits
<1>6. /\ File' = File /\ Usable' = Usable
      /\ \A s \in Settings : Asked(s)' = Asked(s) /\ Wanted(s)' = Wanted(s)
  BY <1>1, WrittenIsFixed
<1>7. fits => Honoured'
  <2> SUFFICES ASSUME fits PROVE Honoured'
    OBVIOUS
  <2>1. \A s \in DOMAIN Accepted : canonical[s] \in Accepted[s]
    BY DEF fits
  <2>2. \A s \in Settings \ (DOMAIN Accepted \cup {"address", "config"}) : conf'[s] = Wanted(s)'
    BY <1>2, <1>3, <1>6
  <2>3. \A s \in DOMAIN Accepted :
           conf'[s] = Canonical(s, Wanted(s)') /\ conf'[s] \in Accepted[s]
    BY <1>2, <1>3, <1>6, <2>1, SettingNames
  <2>4. conf'["address"] = (IF Asked("address")' = <<>> THEN <<"local", Wanted("port")'>>
                                                       ELSE Asked("address")')
    BY <1>1, <1>2, <1>3, <1>6, SettingNames
  <2> QED
    BY <1>5, <1>6, <2>2, <2>3, <2>4 DEF Honoured, Canonical
<1>8. fileErr \in {"nil", "missing"}
  BY <1>1 DEF FileRead
<1>9. ReadInv' /\ AdjustedInv'
  BY <1>2 DEF ReadInv, AdjustedInv
<1>10. EndInv'
  BY <1>2, <1>5, <1>6, <1>7, <1>8 DEF EndInv, Started, Failures
<1> QED
  BY <1>1, <1>2, <1>3, <1>9, <1>10 DEF ConfigInv

LEMMA RunStep ==
  ASSUME ConfigInv, NEW cmd \in {"serve", "mcp", "version", "other"}, Run(cmd)
  PROVE  ConfigInv'
<1>1. /\ step = "run" /\ UNCHANGED <<argv, disk, conf, fileErr, unknown, err>>
      /\ err \in {"nil", "missing", "help"} \cup Failures
  BY DEF Run, ConfigInv, EndInv
<1>2. Honoured' = Honoured /\ Usable' = Usable
  BY <1>1, HonouredKept, WrittenIsFixed
<1>3. err \in {"nil", "missing"} => Honoured /\ conf["precision"] \in {"float32", "float64"}
  BY <1>1, AcceptedNames DEF ConfigInv, EndInv, Honoured
<1>4. \/ step' \in {"exit 0", "exit 1"}
      \/ err \in {"nil", "missing"} /\ step' \in {"mcp", conf["precision"]}
  <2>1. CASE err = "help"
    BY <2>1 DEF Run
  <2>2. CASE err \in Failures
    BY <2>2 DEF Run, Failures
  <2>3. CASE err \in {"nil", "missing"}
    <3>1. err # "help" /\ err \notin Failures
      BY <2>3 DEF Failures
    <3>2. cmd = "mcp" => step' = "mcp"
      BY <3>1 DEF Run
    <3>3. cmd = "serve" => step' = conf["precision"]
      BY <3>1 DEF Run
    <3>4. cmd \in {"version", "other"} => step' \in {"exit 0", "exit 1"}
      BY <3>1 DEF Run
    <3> QED
      BY <2>3, <3>2, <3>3, <3>4
  <2> QED
    BY <1>1, <2>1, <2>2, <2>3
<1>5. step' \in {"exit 0", "exit 1", "mcp", "float32", "float64"}
  BY <1>3, <1>4
<1>6. ReadInv' /\ AdjustedInv'
  BY <1>5 DEF ReadInv, AdjustedInv
<1>7. Started' => Honoured' /\ (step' # "mcp" => step' = conf'["precision"])
  BY <1>1, <1>2, <1>3, <1>4 DEF Started
<1>8. EndInv'
  BY <1>1, <1>2, <1>5, <1>7 DEF ConfigInv, EndInv
<1> QED
  BY <1>1, <1>6, <1>8 DEF ConfigInv

LEMMA ConfigInvStep == ConfigInv /\ [ConfigNext]_configVars => ConfigInv'
<1> SUFFICES ASSUME ConfigInv, [ConfigNext]_configVars PROVE ConfigInv'
  OBVIOUS
<1>1. CASE UNCHANGED configVars
  <2>1. UNCHANGED <<argv, disk, conf, fileErr, unknown, err, step>>
    BY <1>1 DEF configVars
  <2>2. Met' = Met /\ File' = File /\ FirstRead' = FirstRead /\ Usable' = Usable /\ Honoured' = Honoured
        /\ \A s \in Settings : Asked(s)' = Asked(s) /\ Wanted(s)' = Wanted(s)
    BY <2>1, WrittenIsFixed, HonouredKept
  <2>3. ReadInv'
    BY <2>1, <2>2 DEF ConfigInv, ReadInv, FileRead, Overlay
  <2>4. AdjustedInv'
    BY <2>1, <2>2, SettingNames DEF ConfigInv, AdjustedInv, FileRead
  <2>5. EndInv'
    BY <2>1, <2>2 DEF ConfigInv, EndInv, Started
  <2> QED
    BY <2>1, <2>3, <2>4, <2>5 DEF ConfigInv
<1> QED
  BY <1>1, ParseFlagsStep, FromFileStep, ParseFlagsAgainStep, AdjustAllStep, ValidateStep, RunStep
     DEF ConfigNext

\* A process that starts runs with the last flag that names a setting, else the
\* file, else the default, whatever the command line and the file; and one that
\* fails had something to refuse.
THEOREM RunsAsWritten == ConfigSpec => []StartsAsWritten
<1>1. ConfigInv => StartsAsWritten
  BY DEF ConfigInv, EndInv, StartsAsWritten
<1> QED
  BY <1>1, ConfigInvInit, ConfigInvStep, PTL DEF ConfigSpec

-----------------------------------------------------------------------------
(* Queries.                                                                *)

LEMMA NothingInSequence == <<>> \in Seq(ToSet(<<>>))
  OBVIOUS

LEMMA QueryInvInit == Init => QueryInv
<1> SUFFICES ASSUME Init PROVE QueryInv
  OBVIOUS
<1>1. node = EmptyNode /\ mode = "command"
  BY DEF Init
<1>2. /\ node = [f \in DOMAIN EmptyNode |-> node[f]]
      /\ node["depth"] = <<>> /\ node["terms"] = <<>>
  BY <1>1 DEF EmptyNode
<1>3. node["terms"] \in Seq(ToSet(node["terms"]))
  BY <1>2, NothingInSequence
<1> QED
  BY <1>1, <1>2, <1>3 DEF QueryInv

LEMMA NodeFields ==
  /\ {"kind", "selector", "terms", "topic", "entity", "anchors", "since", "until", "top",
      "depth", "vec"} \subseteq DOMAIN EmptyNode
  /\ EmptyNode = [f \in DOMAIN EmptyNode |-> EmptyNode[f]]
  /\ EmptyNode["depth"] = <<>> /\ EmptyNode["terms"] = <<>>
  BY DEF EmptyNode

LEMMA SequenceGrows ==
  ASSUME NEW S, NEW s \in Seq(S), NEW e
  PROVE  s \in Seq(S \cup {e})
<1>1. s \in [1 .. Len(s) -> S \cup {e}] /\ Len(s) \in Nat
  OBVIOUS
<1> QED
  BY <1>1, SeqDef

\* A production that reads a token and checks nothing of the whole command.
LEMMA ReadingStep ==
  ASSUME QueryInv, mode' \notin {"tail", "parsed", "bound"},
         node' = [f \in DOMAIN EmptyNode |-> node'[f]],
         node'["depth"] = node["depth"], node'["terms"] = node["terms"]
  PROVE  QueryInv'
  BY DEF QueryInv

\* One that goes on and leaves the command as it is.
LEMMA UnreadStep ==
  ASSUME QueryInv, mode' \notin {"tail", "parsed", "bound"}, node' = node
  PROVE  QueryInv'
  BY DEF QueryInv

LEMMA RejectStep ==
  ASSUME QueryInv, Reject
  PROVE  QueryInv'
  BY UnreadStep DEF Reject, Goes

LEMMA SelectorSteps ==
  ASSUME QueryInv, ParseQuery \/ ParseGraphSelector \/ ParseSelector
  PROVE  QueryInv'
<1>0. node = [f \in DOMAIN EmptyNode |-> node[f]]
  BY DEF QueryInv
<1>1. CASE Reject
  BY <1>1, RejectStep
<1>2. CASE mode' = "selector" /\ node' = [node EXCEPT !["kind"] = cur.type]
  <2>1. /\ node' = [f \in DOMAIN EmptyNode |-> node'[f]]
        /\ node'["depth"] = node["depth"] /\ node'["terms"] = node["terms"]
    BY <1>0, <1>2
  <2> QED
    BY <1>2, <2>1, ReadingStep
<1>3. CASE mode' = "space" /\ node' = [node EXCEPT !["selector"] = <<IntOf[cur.literal]>>]
  <2>1. /\ node' = [f \in DOMAIN EmptyNode |-> node'[f]]
        /\ node'["depth"] = node["depth"] /\ node'["terms"] = node["terms"]
    BY <1>0, <1>3
  <2> QED
    BY <1>3, <2>1, ReadingStep
<1>4. CASE mode' \in {"graph", "terms", "phrase"} /\ node' = node
  BY <1>4, UnreadStep
<1>5. ParseQuery => \/ Reject
                    \/ mode' = "selector" /\ node' = [node EXCEPT !["kind"] = cur.type]
  BY DEF ParseQuery, Accept, Goes
<1>6. ParseGraphSelector =>
        \/ Reject
        \/ mode' = "space" /\ node' = [node EXCEPT !["selector"] = <<IntOf[cur.literal]>>]
  BY DEF ParseGraphSelector, Accept, Goes
<1>7. ParseSelector => Reject \/ (mode' \in {"graph", "terms", "phrase"} /\ node' = node)
  BY DEF ParseSelector, Accept, Goes
<1> QED
  BY <1>1, <1>2, <1>3, <1>4, <1>5, <1>6, <1>7

LEMMA TermSteps ==
  ASSUME QueryInv, ParsePhrase \/ ParseTerms
  PROVE  QueryInv'
<1>0. node = [f \in DOMAIN EmptyNode |-> node[f]]
  BY DEF QueryInv
<1>1. CASE Reject
  BY <1>1, RejectStep
<1>2. CASE mode' \in {"clauses", "terms"} /\ node' = node
  BY <1>2, UnreadStep
<1>3. ASSUME NEW terms \in {<<cur>>, Append(node["terms"], cur)},
             mode' \in {"clauses", "terms"}, node' = [node EXCEPT !["terms"] = terms]
      PROVE  QueryInv'
  <2>1. terms \in Seq(ToSet(terms))
    <3>1. node["terms"] \in Seq(ToSet(node["terms"]) \cup {cur})
      BY SequenceGrows DEF QueryInv
    <3>2. terms \in Seq(ToSet(node["terms"]) \cup {cur})
      <4> DEFINE S == ToSet(node["terms"]) \cup {cur}
      <4>1. cur \in S
        OBVIOUS
      <4> HIDE DEF S
      <4>2. <<cur>> \in Seq(S)
        BY <4>1
      <4>3. Append(node["terms"], cur) \in Seq(S)
        BY <3>1, <4>1 DEF S
      <4>4. terms \in Seq(S)
        BY <4>2, <4>3
      <4> QED
        BY <4>4 DEF S
    <3> QED
      BY <3>2, OwnElements
  <2>2. /\ node' = [f \in DOMAIN EmptyNode |-> node'[f]]
        /\ node'["depth"] = node["depth"] /\ node'["terms"] = terms
    BY <1>0, <1>3, NodeFields
  <2> QED
    BY <1>3, <2>1, <2>2 DEF QueryInv
<1>4. Append(node["terms"], cur) \in {<<cur>>, Append(node["terms"], cur)}
  OBVIOUS
<1>5. ParsePhrase => Reject \/ (mode' = "clauses" /\ node' = [node EXCEPT !["terms"] = <<cur>>])
  BY DEF ParsePhrase, Accept, Goes
<1>6. ParseTerms => \/ Reject
                    \/ mode' \in {"clauses", "terms"} /\ node' = node
                    \/ /\ mode' = "terms"
                       /\ node' = [node EXCEPT !["terms"] = Append(node["terms"], cur)]
  BY DEF ParseTerms, Accept, Goes
<1> QED
  BY <1>1, <1>2, <1>3, <1>4, <1>5, <1>6

LEMMA ClauseSteps ==
  ASSUME QueryInv, ParseClause \/ ParseSeparator \/ ParseValue \/ ParseVec
  PROVE  QueryInv'
<1>0. node = [f \in DOMAIN EmptyNode |-> node[f]]
  BY DEF QueryInv
<1>1. CASE Reject
  BY <1>1, RejectStep
<1>2. CASE mode' \in {"finish", "clauses", "separator", "value", "param"} /\ node' = node
  BY <1>2, UnreadStep
<1>3. CASE mode' = "clauses" /\ node' = [node EXCEPT !["vec"] = <<cur>>]
  <2>1. /\ node' = [f \in DOMAIN EmptyNode |-> node'[f]]
        /\ node'["depth"] = node["depth"] /\ node'["terms"] = node["terms"]
    BY <1>0, <1>3
  <2> QED
    BY <1>3, <2>1, ReadingStep
<1>4. ParseClause => Reject \/ (mode' \in {"finish", "clauses", "separator"} /\ node' = node)
  BY DEF ParseClause, Accept, Goes
<1>5. ParseSeparator => Reject \/ (mode' = "value" /\ node' = node)
  BY DEF ParseSeparator, Accept, Goes
<1>6. ParseVec => \/ Reject
                  \/ mode' = "param" /\ node' = node
                  \/ mode' = "clauses" /\ node' = [node EXCEPT !["vec"] = <<cur>>]
  BY DEF ParseVec, Accept, Goes
<1>7. ASSUME ParseValue PROVE QueryInv'
  <2>1. CASE Reject
    BY <2>1, RejectStep
  <2>2. CASE ~Reject
    <3> DEFINE k == key.type
               held == IF k \in Anchors THEN Append(node[k], cur) ELSE <<cur>>
               order == IF k \in Anchors THEN Append(node["anchors"], k) ELSE node["anchors"]
    <3>1. /\ Reads(k) /\ mode' = "clauses"
          /\ node' = [node EXCEPT ![k] = held, !["anchors"] = order]
      BY <1>7, <2>2 DEF ParseValue, Accept, Goes
    <3>2. k \in Anchors \cup {"top", "depth", "since", "until"}
      BY <3>1 DEF Reads
    <3>3. k # "depth" \/ (held = <<cur>> /\ cur.literal \in DOMAIN IntOf)
      BY <3>1 DEF Reads, IsNumber, Anchors
    <3> HIDE DEF k, held, order
    <3>4. node' = [f \in DOMAIN EmptyNode |-> node'[f]]
      BY <1>0, <3>1
    <3>5. node'["depth"] = IF k = "depth" THEN held ELSE node["depth"]
      BY <1>0, <3>1, NodeFields
    <3>6. node'["terms"] = node["terms"]
      <4>1. k # "terms"
        BY <3>2 DEF Anchors
      <4> QED
        BY <1>0, <3>1, <4>1, NodeFields
    <3>7. node'["depth"] # <<>> => node'["depth"][1].literal \in DOMAIN IntOf
      BY <3>3, <3>5 DEF QueryInv
    <3> QED
      BY <3>1, <3>4, <3>6, <3>7 DEF QueryInv
  <2> QED
    BY <2>1, <2>2
<1> QED
  BY <1>1, <1>2, <1>3, <1>4, <1>5, <1>6, <1>7

LEMMA CheckSteps ==
  ASSUME QueryInv, Finish \/ ParseTail \/ Bind \/ Reparse
  PROVE  QueryInv'
<1>1. CASE Reject
  BY <1>1, RejectStep
<1>2. ASSUME Finish, ~Reject PROVE QueryInv'
  <2>1. /\ node.kind = "remember" \/ Seeded(node)
        /\ mode' = "tail" /\ node' = node
        /\ warns' = IF node.kind = "recall" THEN warns \cup Warned(node) ELSE warns
    BY <1>2 DEF Finish, Goes
  <2>2. Checked(node)'
    BY <2>1 DEF Checked, Seeded, NamesAnchors, Warned, Written, AnchoredSearch
  <2> QED
    BY <2>1, <2>2 DEF QueryInv
<1>3. ASSUME ParseTail, ~Reject PROVE QueryInv'
  <2>1. mode = "tail" /\ mode' \in {"tail", "parsed"} /\ UNCHANGED <<node, warns>>
    BY <1>3 DEF ParseTail, Accept, Goes
  <2> QED
    BY <2>1 DEF QueryInv, Checked
<1>4. ASSUME Bind, ~Reject PROVE QueryInv'
  <2>1. /\ mode = "parsed" /\ mode' = "bound" /\ UNCHANGED <<node, warns>>
        /\ node.kind = "recall" => WithinLimits(node)
        /\ query' = [kind |-> node.kind, graph |-> Selector(node),
                     top |-> IF node.kind = "recall" THEN Top(node) ELSE 0,
                     depth |-> IF node.kind = "recall" THEN Depth(node) ELSE 0]
    BY <1>4 DEF Bind, Goes
  <2>2. query'.kind = node.kind /\ (node.kind = "recall" => query'.depth = Depth(node))
    BY <2>1
  <2>3. Checked(node)' /\ WithinLimits(node)' = WithinLimits(node) /\ Depth(node)' = Depth(node)
    BY <2>1 DEF QueryInv, Checked
  <2> QED
    BY <2>1, <2>2, <2>3 DEF QueryInv
<1>5. ASSUME Reparse PROVE QueryInv'
  <2>1. mode' = "command" /\ node' = EmptyNode
    BY <1>5 DEF Reparse, Goes
  <2>2. node'["terms"] \in Seq(ToSet(node'["terms"]))
    BY <2>1, NodeFields, NothingInSequence
  <2> QED
    BY <2>1, <2>2, NodeFields DEF QueryInv
<1> QED
  BY <1>1, <1>2, <1>3, <1>4, <1>5

LEMMA QueryInvStep == QueryInv /\ [Next]_vars => QueryInv'
<1>1. ASSUME QueryInv, UNCHANGED vars PROVE QueryInv'
  <2>1. UNCHANGED <<mode, node, warns, query>>
    BY <1>1 DEF vars
  <2> QED
    BY <1>1, <2>1 DEF QueryInv, Checked
<1> QED
  BY <1>1, SelectorSteps, TermSteps, ClauseSteps, CheckSteps DEF Next

\* The depth a recall runs at.
LEMMA DepthIs ==
  ASSUME QueryInv
  PROVE  /\ Depth(node) \in Int
         /\ AnchoredSearch(node) => Depth(node) >= 1
         /\ node.depth # <<>> =>
              /\ Written(node.depth) \in Int
              /\ ~AnchoredSearch(node) \/ Written(node.depth) >= 1 => Depth(node) = Written(node.depth)
<1> DEFINE v == IF node.depth = <<>> THEN DefaultDepth ELSE Written(node.depth)
<1>1. v \in Int /\ (node.depth # <<>> => v = Written(node.depth))
  BY LimitsAssumption DEF QueryInv, Written
<1>2. Depth(node) = IF v < 1 /\ AnchoredSearch(node) THEN 1 ELSE v
  BY DEF Depth
<1> HIDE DEF v
<1> QED
  BY <1>1, <1>2

\* A recall that runs has something to match, searches its anchors, and runs at
\* the depth it was written with or has warned that it does not, whatever the
\* tokens, the stop words and the limits.
THEOREM RecallsAsWritten == Spec => []SearchesAsWritten
<1>1. ASSUME QueryInv PROVE SearchesAsWritten
  <2> SUFFICES ASSUME mode = "bound", query.kind = "recall"
      PROVE  /\ \/ node.vec # <<>>
                \/ \E i \in DOMAIN node.terms : ~IsStop(node.terms[i])
                \/ node.terms = <<>> /\ NamesAnchors(node)
             /\ AnchoredSearch(node) => query.depth >= 1
             /\ node.depth # <<>> /\ Written(node.depth) >= 0 =>
                  /\ query.depth \in 0 .. MaxDepth
                  /\ query.depth # Written(node.depth) => "depth" \in warns
                  /\ query.depth > 0 /\ ~NamesAnchors(node) => "depth" \in warns
    BY DEF SearchesAsWritten
  <2>1. Seeded(node) /\ Warned(node) \subseteq warns /\ WithinLimits(node) /\ query.depth = Depth(node)
    BY <1>1 DEF QueryInv, Checked
  <2>2. \/ node.vec # <<>>
        \/ \E i \in DOMAIN node.terms : ~IsStop(node.terms[i])
        \/ node.terms = <<>> /\ NamesAnchors(node)
    <3>1. CASE \E i \in DOMAIN node.terms : IsStop(node.terms[i])
      BY <2>1, <3>1 DEF Seeded
    <3>2. CASE ~ \E i \in DOMAIN node.terms : IsStop(node.terms[i])
      <4>1. node.terms # <<>> => \E i \in DOMAIN node.terms : TRUE
        <5>1. node.terms \in Seq(ToSet(node.terms))
          BY <1>1 DEF QueryInv
        <5>2. node.terms # <<>> => 1 \in DOMAIN node.terms
          BY <5>1
        <5> QED
          BY <5>2
      <4> QED
        BY <2>1, <3>2, <4>1 DEF Seeded
    <3> QED
      BY <3>1, <3>2
  <2>3. AnchoredSearch(node) => query.depth >= 1
    BY <1>1, <2>1, DepthIs
  <2>4. ASSUME node.depth # <<>>, Written(node.depth) >= 0
        PROVE  /\ query.depth \in 0 .. MaxDepth
               /\ query.depth # Written(node.depth) => "depth" \in warns
               /\ query.depth > 0 /\ ~NamesAnchors(node) => "depth" \in warns
    <3>1. query.depth \in 0 .. MaxDepth
      <4>1. Depth(node) \in Int /\ Depth(node) >= 0 /\ Depth(node) <= MaxDepth
        BY <1>1, <2>1, <2>4, DepthIs DEF WithinLimits
      <4> QED
        BY <2>1, <4>1, LimitsAssumption
    <3>2. (IF Written(node.depth) = 0 THEN AnchoredSearch(node) ELSE ~NamesAnchors(node))
            => "depth" \in warns
      BY <2>1, <2>4 DEF Warned
    <3>3. query.depth # Written(node.depth) => Written(node.depth) = 0 /\ AnchoredSearch(node)
      BY <1>1, <2>1, <2>4, DepthIs
    <3>4. query.depth > 0 /\ ~NamesAnchors(node) => Written(node.depth) # 0
      BY <1>1, <2>1, <2>4, DepthIs DEF AnchoredSearch
    <3> QED
      BY <3>1, <3>2, <3>3, <3>4
  <2> QED
    BY <2>2, <2>3, <2>4
<1> QED
  BY <1>1, QueryInvInit, QueryInvStep, PTL DEF Spec

-----------------------------------------------------------------------------
(* Places in order.                                                        *)

Places(S) == IsFiniteSet(S) /\ \A i \in S : i \in Int

\* The places up to i in S.
UpTo(S, i) == {j \in S : j <= i}

LEMMA UpToFacts ==
  ASSUME NEW S, Places(S), NEW i \in Int
  PROVE  IsFiniteSet(UpTo(S, i)) /\ Cardinality(UpTo(S, i)) \in Nat
         /\ Cardinality(UpTo(S, i)) <= Cardinality(S)
<1>1. UpTo(S, i) \in SUBSET S /\ IsFiniteSet(S)
  BY DEF UpTo, Places
<1> QED
  BY <1>1, FS_Subset, FS_CardinalityType

LEMMA NthUnique ==
  ASSUME NEW S, Places(S), NEW i \in S, NEW j \in S,
         Cardinality(UpTo(S, i)) = Cardinality(UpTo(S, j))
  PROVE  i = j
<1>1. ASSUME NEW a \in S, NEW b \in S, a < b PROVE Cardinality(UpTo(S, a)) # Cardinality(UpTo(S, b))
  <2>0. \A x \in S : x \in Int
    BY DEF Places
  <2>1. UpTo(S, a) \in SUBSET UpTo(S, b) /\ b \in UpTo(S, b) /\ b \notin UpTo(S, a)
    <3>1. a \in Int /\ b \in Int
      BY <2>0
    <3>2. b \in UpTo(S, b) /\ b \notin UpTo(S, a)
      BY <1>1, <3>1 DEF UpTo
    <3>3. \A x \in S : x <= a => x <= b
      BY <1>1, <2>0, <3>1
    <3>4. UpTo(S, a) \subseteq UpTo(S, b)
      BY <3>3 DEF UpTo
    <3> QED
      BY <3>2, <3>4
  <2>2. IsFiniteSet(UpTo(S, b)) /\ a \in Int /\ b \in Int
    BY <2>0, UpToFacts
  <2> QED
    BY <2>1, <2>2, FS_Subset
<1>2. i \in Int /\ j \in Int
  BY DEF Places
<1> QED
  BY <1>1, <1>2

LEMMA NthExists ==
  ASSUME NEW S, Places(S), NEW n \in 1 .. Cardinality(S)
  PROVE  \E i \in S : Cardinality(UpTo(S, i)) = n
<1> DEFINE R == {q \in S \X S : q[1] < q[2]}
<1>0. IsFiniteSet(S) /\ \A i \in S : i \in Int
  BY DEF Places
<1>1. Orders(R, S)
  <2> SUFFICES ASSUME NEW a \in S, NEW b \in S, NEW c \in S
      PROVE  /\ <<a, a>> \notin R
             /\ <<a, b>> \in R /\ <<b, c>> \in R => <<a, c>> \in R
             /\ a # b => <<a, b>> \in R \/ <<b, a>> \in R
    BY DEF Orders
  <2>1. \A x, y \in S : <<x, y>> \in R <=> x < y
    OBVIOUS
  <2> HIDE DEF R
  <2> QED
    BY <1>0, <2>1
<1>2. \A x, y \in S : <<x, y>> \in R <=> x < y
  OBVIOUS
<1> HIDE DEF R
<1>3. PICK s : LaidOut(s, R, S)
  BY <1>0, <1>1, Sortable
<1> DEFINE m == Cardinality(S)
<1>4. m \in Nat
  BY <1>0, FS_CardinalityType
<1>5. /\ s \in [1 .. m -> S] /\ \A x \in S : \E i \in 1 .. m : s[i] = x
      /\ \A i, j \in 1 .. m : i < j => s[i] < s[j]
  <2>1. s \in [1 .. m -> S] /\ \A i, j \in 1 .. m : i < j => <<s[i], s[j]>> \in R
    BY <1>3 DEF LaidOut
  <2>2. s \in Seq(S) /\ Len(s) = m /\ ToSet(s) = S
    BY <1>0, <1>1, <1>3, LayoutIsWhole
  <2>3. \A x \in S : \E i \in 1 .. m : s[i] = x
    BY <2>2, ElementsOf
  <2> QED
    BY <1>2, <2>1, <2>3
<1>6. n \in 1 .. m
  OBVIOUS
<1> HIDE DEF m
<1>7. \A i \in 1 .. m : s[i] \in UpTo(S, s[n]) <=> i <= n
  <2> SUFFICES ASSUME NEW i \in 1 .. m PROVE s[i] <= s[n] <=> i <= n
    BY <1>5, <1>6 DEF UpTo
  <2>1. i \in Int /\ n \in Int /\ s[i] \in S /\ s[n] \in S
    BY <1>4, <1>5, <1>6
  <2>2. s[i] \in Int /\ s[n] \in Int
    BY <1>0, <2>1
  <2> QED
    BY <1>5, <1>6, <2>1, <2>2
<1> DEFINE f == [i \in 1 .. n |-> s[i]]
<1>8. f \in Bijection(1 .. n, UpTo(S, s[n]))
  <2>1. 1 .. n \subseteq 1 .. m
    BY <1>4, <1>6
  <2>2. f \in [1 .. n -> UpTo(S, s[n])]
    BY <1>7, <2>1
  <2>3. \A i, j \in 1 .. n : f[i] = f[j] => i = j
    <3> SUFFICES ASSUME NEW i \in 1 .. n, NEW j \in 1 .. n, s[i] = s[j] PROVE i = j
      OBVIOUS
    <3>1. i \in 1 .. m /\ j \in 1 .. m /\ s[i] \in Int /\ s[j] \in Int
      BY <1>0, <1>5, <2>1
    <3> QED
      BY <1>5, <3>1
  <2>4. \A x \in UpTo(S, s[n]) : \E i \in 1 .. n : f[i] = x
    <3> SUFFICES ASSUME NEW x \in UpTo(S, s[n]) PROVE \E i \in 1 .. n : f[i] = x
      OBVIOUS
    <3>1. PICK i \in 1 .. m : s[i] = x
      BY <1>5 DEF UpTo
    <3>2. i \in 1 .. n
      BY <1>7, <3>1, <1>6
    <3> QED
      BY <3>1, <3>2
  <2> HIDE DEF f
  <2> QED
    BY <2>2, <2>3, <2>4 DEF Bijection, Injection, Surjection, IsInjective
<1>9. Cardinality(1 .. n) = n /\ IsFiniteSet(1 .. n)
  BY <1>4, <1>6, FS_Interval
<1>10. ExistsBijection(1 .. n, UpTo(S, s[n]))
  BY <1>8 DEF ExistsBijection
<1>11. Cardinality(UpTo(S, s[n])) = n
  BY <1>9, <1>10, FS_Bijection
<1> QED
  BY <1>5, <1>6, <1>11

LEMMA NthFacts ==
  ASSUME NEW S, Places(S), NEW n \in 1 .. Cardinality(S)
  PROVE  /\ Nth(S, n) \in S
         /\ \A i \in S : Cardinality(UpTo(S, i)) = n => Nth(S, n) = i
<1>1. Nth(S, n) = CHOOSE i \in S : Cardinality(UpTo(S, i)) = n
  BY DEF Nth, UpTo
<1>2. Nth(S, n) \in S /\ Cardinality(UpTo(S, Nth(S, n))) = n
  BY <1>1, NthExists
<1> QED
  BY <1>2, NthUnique

\* A place after all others is the last.
LEMMA NthGrows ==
  ASSUME NEW S, Places(S), NEW m \in Int, \A i \in S : i < m
  PROVE  /\ Places(S \cup {m})
         /\ Cardinality(S) \in Nat /\ Cardinality(S \cup {m}) = Cardinality(S) + 1
         /\ Nth(S \cup {m}, Cardinality(S) + 1) = m
         /\ \A n \in 1 .. Cardinality(S) : Nth(S \cup {m}, n) = Nth(S, n)
<1> DEFINE T == S \cup {m}
<1>1. /\ Places(T) /\ m \in T
      /\ Cardinality(S) \in Nat /\ Cardinality(T) = Cardinality(S) + 1
  <2>1. IsFiniteSet(S) /\ \A i \in S : i \in Int /\ i < m
    BY DEF Places
  <2>2. m \notin S
    BY <2>1
  <2>3. IsFiniteSet(T) /\ Cardinality(T) = Cardinality(S) + 1
    BY <2>1, <2>2, FS_AddElement
  <2>4. Cardinality(S) \in Nat
    BY <2>1, FS_CardinalityType
  <2> QED
    BY <2>1, <2>3, <2>4 DEF Places
<1>2. UpTo(T, m) = T /\ \A i \in S : UpTo(T, i) = UpTo(S, i)
  <2>1. \A j \in T : j \in Int /\ j <= m
    BY DEF Places
  <2>2. \A i \in S : ~(m <= i)
    BY DEF Places
  <2> QED
    BY <2>1, <2>2 DEF UpTo
<1> HIDE DEF T
<1>3. Nth(T, Cardinality(S) + 1) = m
  <2>1. Cardinality(S) + 1 \in 1 .. Cardinality(T)
    BY <1>1
  <2> QED
    BY <1>1, <1>2, <2>1, NthFacts
<1>4. ASSUME NEW n \in 1 .. Cardinality(S) PROVE Nth(T, n) = Nth(S, n)
  <2>1. PICK i \in S : Cardinality(UpTo(S, i)) = n
    BY NthExists
  <2>2. n \in 1 .. Cardinality(T) /\ i \in T /\ Cardinality(UpTo(T, i)) = n
    BY <1>1, <1>2, <2>1 DEF T
  <2> QED
    BY <1>1, <2>1, <2>2, NthFacts
<1> QED
  BY <1>1, <1>3, <1>4 DEF T

LEMMA ListedEmpty ==
  ASSUME NEW text, NEW d
  PROVE  Listed(text, {}, d) = <<>>
  BY FS_EmptySet DEF Listed

LEMMA ListedGrows ==
  ASSUME NEW text, NEW d, NEW S, Places(S), NEW m \in Int, \A i \in S : i < m
  PROVE  Listed(text, S \cup {m}, d) = Append(Listed(text, S, d), text[m + d])
<1> DEFINE T == S \cup {m}
           c == Cardinality(S)
           X == {text[i + d] : i \in T}
           l == Listed(text, S, d)
<1>1. /\ c \in Nat /\ Cardinality(T) = c + 1 /\ Nth(T, c + 1) = m
      /\ \A n \in 1 .. c : Nth(T, n) = Nth(S, n) /\ Nth(S, n) \in S
  BY NthGrows, NthFacts
<1>2. l = [n \in 1 .. c |-> text[Nth(S, n) + d]]
  BY DEF Listed
<1>3. Listed(text, T, d) = [n \in 1 .. c + 1 |-> text[Nth(T, n) + d]]
  BY <1>1 DEF Listed
<1>4. text[m + d] \in X /\ \A n \in 1 .. c : text[Nth(S, n) + d] \in X
  BY <1>1
<1> HIDE DEF T, c, X
<1>5. l \in [1 .. c -> X]
  BY <1>2, <1>4
<1>6. l \in Seq(X) /\ Len(l) = c
  BY <1>1, <1>5, SeqDef
<1> HIDE DEF l
<1> DEFINE e == Append(l, text[m + d])
<1>7. e \in Seq(X) /\ Len(e) = c + 1 /\ e[c + 1] = text[m + d] /\ \A n \in 1 .. c : e[n] = l[n]
  BY <1>1, <1>4, <1>6, AppendProperties
<1> HIDE DEF e
<1>8. e = [n \in 1 .. c + 1 |-> e[n]]
  BY <1>7
<1>9. \A n \in 1 .. c + 1 : e[n] = text[Nth(T, n) + d]
  <2> SUFFICES ASSUME NEW n \in 1 .. c + 1 PROVE e[n] = text[Nth(T, n) + d]
    OBVIOUS
  <2>1. CASE n = c + 1
    BY <1>1, <1>7, <2>1
  <2>2. CASE n \in 1 .. c
    BY <1>1, <1>2, <1>7, <2>2
  <2> QED
    BY <1>1, <2>1, <2>2
<1> QED
  BY <1>3, <1>8, <1>9 DEF e, T, l

LEMMA ListedSame ==
  ASSUME NEW s, NEW t, NEW d, NEW S, Places(S),
         \A i \in S : s[i + d] = t[i + d]
  PROVE  Listed(s, S, d) = Listed(t, S, d)
<1>1. \A n \in 1 .. Cardinality(S) : Nth(S, n) \in S
  BY NthFacts
<1> QED
  BY <1>1 DEF Listed

-----------------------------------------------------------------------------
(* Reading on.                                                             *)

ClauseAtPlace(text, k, m) == TypeOf(text, m) = k /\ TypeOf(text, m + 1) = "colon"
TermAtPlace(text, m) ==
    /\ m > 1 /\ TypeOf(text, m) \in Words \cup {"phrase"}
    /\ TypeOf(text, m + 1) # "colon" /\ TypeOf(text, m - 1) \notin {"colon", "dollar", "at"}
Quiet(text, m) == ~TermAtPlace(text, m) /\ \A k \in ClauseWords : ~ClauseAtPlace(text, k, m)

LEMMA PlacesUpTo ==
  ASSUME NEW m \in Nat, NEW text
  PROVE  /\ Places(TermsTo(text, m)) /\ \A i \in TermsTo(text, m) : i \in 2 .. m
         /\ \A k : Places(ClausesTo(text, k, m)) /\ \A i \in ClausesTo(text, k, m) : i \in 1 .. m
<1>1. TermsTo(text, m) \subseteq 2 .. m /\ \A k : ClausesTo(text, k, m) \subseteq 1 .. m
  BY DEF ClausesTo, TermsTo
<1>2. IsFiniteSet(1 .. m) /\ IsFiniteSet(2 .. m)
  BY FS_Interval
<1>3. IsFiniteSet(TermsTo(text, m)) /\ \A k : IsFiniteSet(ClausesTo(text, k, m))
  BY <1>1, <1>2, FS_Subset
<1> QED
  BY <1>1, <1>3 DEF Places

LEMMA NextClausePlace ==
  ASSUME NEW m \in Nat, NEW text, NEW k
  PROVE  ClausesTo(text, k, m + 1) =
           IF ClauseAtPlace(text, k, m + 1) THEN ClausesTo(text, k, m) \cup {m + 1}
           ELSE ClausesTo(text, k, m)
<1>1. \A i : i \in 1 .. m + 1 <=> i \in 1 .. m \/ i = m + 1
  OBVIOUS
<1> QED
  BY <1>1 DEF ClausesTo, ClauseAtPlace

LEMMA NextTermPlace ==
  ASSUME NEW m \in Nat, NEW text
  PROVE  TermsTo(text, m + 1) =
           IF TermAtPlace(text, m + 1) THEN TermsTo(text, m) \cup {m + 1} ELSE TermsTo(text, m)
<1>1. \A i : i \in 2 .. m + 1 <=> i \in 2 .. m \/ (i = m + 1 /\ m + 1 > 1)
  OBVIOUS
<1> QED
  BY <1>1 DEF TermsTo, TermAtPlace

LEMMA BehindIs == \A k : Behind(k) \in {2, 3}
  BY DEF Behind

LEMMA NothingRead ==
  ASSUME NEW n, NEW text, n.terms = <<>>, \A k \in ClauseWords : n[k] = <<>>
  PROVE  ReadTo(n, text, 0)
<1>1. TermsTo(text, 0) = {} /\ \A k : ClausesTo(text, k, 0) = {}
  BY DEF TermsTo, ClausesTo
<1> QED
  BY <1>1, ListedEmpty DEF ReadTo

LEMMA ReadQuiet ==
  ASSUME NEW m \in Nat, NEW text, NEW n, ReadTo(n, text, m), Quiet(text, m + 1)
  PROVE  ReadTo(n, text, m + 1)
<1>1. TermsTo(text, m + 1) = TermsTo(text, m)
  BY NextTermPlace DEF Quiet
<1>2. \A k \in ClauseWords : ClausesTo(text, k, m + 1) = ClausesTo(text, k, m)
  BY NextClausePlace DEF Quiet
<1>3. \A k \in ClauseWords : \A i \in ClausesTo(text, k, m) : i + Behind(k) <= m + 1
  <2> SUFFICES ASSUME NEW k \in ClauseWords, NEW i \in ClausesTo(text, k, m)
      PROVE  i + Behind(k) <= m + 1
    OBVIOUS
  <2>1. i + Behind(k) <= m /\ i \in Nat /\ Behind(k) \in Nat
    BY PlacesUpTo, BehindIs DEF ReadTo
  <2> QED
    BY <2>1
<1> QED
  BY <1>1, <1>2, <1>3 DEF ReadTo

\* A text that goes on differently says the same up to there.
LEMMA ReadSame ==
  ASSUME NEW m \in Nat, NEW s, NEW t, NEW n, ReadTo(n, s, m),
         \A i \in 1 .. m : s[i] = t[i], \A i \in 1 .. m + 1 : TypeOf(s, i) = TypeOf(t, i)
  PROVE  ReadTo(n, t, m)
<1>1. ASSUME NEW k PROVE ClausesTo(t, k, m) = ClausesTo(s, k, m)
  <2>1. \A i \in 1 .. m : i \in 1 .. m + 1 /\ i + 1 \in 1 .. m + 1
    OBVIOUS
  <2> QED
    BY <2>1 DEF ClausesTo
<1>2. TermsTo(t, m) = TermsTo(s, m)
  <2>1. \A i \in 2 .. m : i \in 1 .. m + 1 /\ i + 1 \in 1 .. m + 1 /\ i - 1 \in 1 .. m + 1
    OBVIOUS
  <2> QED
    BY <2>1 DEF TermsTo
<1>3. n.terms = Listed(t, TermsTo(t, m), 0)
  <2>1. \A i \in TermsTo(s, m) : s[i + 0] = t[i + 0]
    <3>1. \A i \in TermsTo(s, m) : i \in 1 .. m /\ i + 0 = i
      BY PlacesUpTo
    <3> QED
      BY <3>1
  <2>2. Listed(s, TermsTo(s, m), 0) = Listed(t, TermsTo(s, m), 0)
    BY <2>1, PlacesUpTo, ListedSame
  <2> QED
    BY <1>2, <2>2 DEF ReadTo
<1>4. ASSUME NEW k \in ClauseWords
      PROVE  n[k] = Listed(t, ClausesTo(t, k, m), Behind(k))
  <2>1. \A i \in ClausesTo(s, k, m) : s[i + Behind(k)] = t[i + Behind(k)]
    <3>1. \A i \in ClausesTo(s, k, m) : i \in 1 .. m /\ i + Behind(k) <= m /\ Behind(k) \in {2, 3}
      BY PlacesUpTo, BehindIs DEF ReadTo
    <3>2. \A i \in ClausesTo(s, k, m) : i + Behind(k) \in 1 .. m
      BY <3>1
    <3> QED
      BY <3>2
  <2>2. Places(ClausesTo(s, k, m))
    BY PlacesUpTo
  <2>3. Listed(s, ClausesTo(s, k, m), Behind(k)) = Listed(t, ClausesTo(s, k, m), Behind(k))
    BY <2>1, <2>2, ListedSame
  <2> QED
    BY <1>1, <2>3 DEF ReadTo
<1> QED
  BY <1>1, <1>3, <1>4 DEF ReadTo

\* One more term.
LEMMA ReadTerm ==
  ASSUME NEW m \in Nat, NEW text, NEW n, ReadTo(n, text, m), TermAtPlace(text, m + 1),
         NEW o, o.terms = Append(n.terms, text[m + 1]), \A k \in ClauseWords : o[k] = n[k]
  PROVE  ReadTo(o, text, m + 1)
<1>1. TermsTo(text, m + 1) = TermsTo(text, m) \cup {m + 1}
  BY NextTermPlace
<1>2. Places(TermsTo(text, m)) /\ m + 1 \in Int /\ \A i \in TermsTo(text, m) : i < m + 1
  BY PlacesUpTo
<1>3. Listed(text, TermsTo(text, m) \cup {m + 1}, 0)
        = Append(Listed(text, TermsTo(text, m), 0), text[(m + 1) + 0])
  BY <1>2, ListedGrows
<1>4. (m + 1) + 0 = m + 1
  OBVIOUS
<1>5. o.terms = Listed(text, TermsTo(text, m + 1), 0)
  BY <1>1, <1>3, <1>4 DEF ReadTo
<1>6. \A k \in ClauseWords : ClausesTo(text, k, m + 1) = ClausesTo(text, k, m)
  BY NextClausePlace DEF TermAtPlace, ClauseAtPlace
<1>7. \A k \in ClauseWords : \A i \in ClausesTo(text, k, m) : i + Behind(k) <= m + 1
  <2> SUFFICES ASSUME NEW k \in ClauseWords, NEW i \in ClausesTo(text, k, m)
      PROVE  i + Behind(k) <= m + 1
    OBVIOUS
  <2>1. i + Behind(k) <= m /\ i \in Nat /\ Behind(k) \in Nat
    BY PlacesUpTo, BehindIs DEF ReadTo
  <2> QED
    BY <2>1
<1> QED
  BY <1>5, <1>6, <1>7 DEF ReadTo

\* One more clause, read to its value.
LEMMA ReadClause ==
  ASSUME NEW m \in Nat, NEW text, NEW n, ReadTo(n, text, m),
         NEW k \in ClauseWords, ClauseAtPlace(text, k, m + 1),
         \A i \in m + 2 .. m + 1 + Behind(k) : Quiet(text, i),
         NEW o, o.terms = n.terms, o[k] = Append(n[k], text[m + 1 + Behind(k)]),
         \A c \in ClauseWords \ {k} : o[c] = n[c]
  PROVE  ReadTo(o, text, m + 1 + Behind(k))
<1> DEFINE b == Behind(k)
           T(j) == TermsTo(text, j)
           C(c, j) == ClausesTo(text, c, j)
<1>1. b \in {2, 3}
  BY BehindIs
<1>2. /\ T(m + 1) = T(m)
      /\ \A c \in ClauseWords : C(c, m + 1) = IF c = k THEN C(c, m) \cup {m + 1} ELSE C(c, m)
  BY NextTermPlace, NextClausePlace DEF TermAtPlace, ClauseAtPlace
<1>3. ASSUME NEW j \in m + 1 .. m + b
      PROVE  T(j + 1) = T(j) /\ \A c \in ClauseWords : C(c, j + 1) = C(c, j)
  <2>1. j \in Nat /\ j + 1 \in m + 2 .. m + 1 + b
    BY <1>1
  <2>2. Quiet(text, j + 1)
    BY <2>1
  <2> QED
    BY <2>1, <2>2, NextTermPlace, NextClausePlace DEF Quiet
<1>4. /\ T(m + 1 + b) = T(m)
      /\ \A c \in ClauseWords : C(c, m + 1 + b) = IF c = k THEN C(c, m) \cup {m + 1} ELSE C(c, m)
  <2>1. T(m + 1 + b) = T(m + 1) /\ \A c \in ClauseWords : C(c, m + 1 + b) = C(c, m + 1)
    <3> HIDE DEF T, C, b
    <3>1. CASE b = 2
      <4>1. /\ m + 1 \in m + 1 .. m + b /\ m + 2 \in m + 1 .. m + b
            /\ (m + 1) + 1 = m + 2 /\ (m + 2) + 1 = m + 1 + b
        BY <3>1
      <4> QED
        BY <1>3, <4>1
    <3>2. CASE b = 3
      <4>1. /\ m + 1 \in m + 1 .. m + b /\ m + 2 \in m + 1 .. m + b /\ m + 3 \in m + 1 .. m + b
            /\ (m + 1) + 1 = m + 2 /\ (m + 2) + 1 = m + 3 /\ (m + 3) + 1 = m + 1 + b
        BY <3>2
      <4> QED
        BY <1>3, <4>1
    <3> QED
      BY <1>1, <3>1, <3>2
  <2> QED
    BY <1>2, <2>1
<1>5. ASSUME NEW c \in ClauseWords PROVE o[c] = Listed(text, C(c, m + 1 + b), Behind(c))
  <2>1. n[c] = Listed(text, C(c, m), Behind(c))
    BY DEF ReadTo
  <2>2. CASE c # k
    BY <1>4, <2>1, <2>2
  <2>3. CASE c = k
    <3>0. Places(C(k, m)) /\ \A i \in C(k, m) : i \in 1 .. m
      BY PlacesUpTo
    <3>1. Places(C(k, m)) /\ m + 1 \in Int /\ \A i \in C(k, m) : i < m + 1
      BY <3>0
    <3>2. Listed(text, C(k, m) \cup {m + 1}, b) = Append(Listed(text, C(k, m), b), text[(m + 1) + b])
      BY <3>1, ListedGrows
    <3> QED
      BY <1>4, <2>1, <2>3, <3>2
  <2> QED
    BY <2>2, <2>3
<1>6. ASSUME NEW c \in ClauseWords, NEW i \in C(c, m + 1 + b)
      PROVE  i + Behind(c) <= m + 1 + b
  <2>1. CASE i \in C(c, m)
    <3>1. i + Behind(c) <= m /\ i \in Nat /\ Behind(c) \in Nat
      BY <2>1, PlacesUpTo, BehindIs DEF ReadTo
    <3> QED
      BY <1>1, <3>1
  <2>2. CASE i = m + 1 /\ c = k
    BY <1>1, <2>2
  <2> QED
    BY <1>4, <1>6, <2>1, <2>2
<1>7. o.terms = Listed(text, T(m + 1 + b), 0)
  BY <1>4 DEF ReadTo
<1> QED
  BY <1>5, <1>6, <1>7 DEF ReadTo

-----------------------------------------------------------------------------
(* What a node holds.                                                      *)

LEMMA TimesFacts ==
  ASSUME NEW ks, NEW k
  PROVE  /\ Times(ks, 0, k) = 0
         /\ \A i \in Nat : /\ Times(ks, i, k) \in 0 .. i
                           /\ Times(ks, i + 1, k) = Times(ks, i, k) + IF ks[i + 1] = k THEN 1 ELSE 0
<1> DEFINE S(i) == {j \in 1 .. i : ks[j] = k}
<1>1. S(0) = {}
  OBVIOUS
<1>2. ASSUME NEW i \in Nat PROVE IsFiniteSet(S(i)) /\ Cardinality(S(i)) \in 0 .. i
  <2>1. IsFiniteSet(1 .. i) /\ Cardinality(1 .. i) = i
    BY FS_Interval
  <2>2. S(i) \subseteq 1 .. i
    OBVIOUS
  <2> HIDE DEF S
  <2>3. IsFiniteSet(S(i)) /\ Cardinality(S(i)) <= i /\ Cardinality(S(i)) \in Nat
    BY <2>1, <2>2, FS_Subset, FS_CardinalityType
  <2> QED
    BY <2>3
<1>3. ASSUME NEW i \in Nat
      PROVE  Cardinality(S(i + 1)) = Cardinality(S(i)) + IF ks[i + 1] = k THEN 1 ELSE 0
  <2>1. S(i + 1) = IF ks[i + 1] = k THEN S(i) \cup {i + 1} ELSE S(i)
    <3>1. \A j : j \in 1 .. i + 1 <=> j \in 1 .. i \/ j = i + 1
      OBVIOUS
    <3> QED
      BY <3>1
  <2>2. i + 1 \notin S(i)
    OBVIOUS
  <2> HIDE DEF S
  <2>3. Cardinality(S(i)) \in Nat /\ Cardinality(S(i) \cup {i + 1}) = Cardinality(S(i)) + 1
    BY <1>2, <2>2, FS_AddElement, FS_CardinalityType
  <2> QED
    BY <2>1, <2>3
<1>4. \A i : Times(ks, i, k) = Cardinality(S(i))
  BY DEF Times
<1> HIDE DEF S
<1>5. Cardinality(S(0)) = 0
  BY <1>1, FS_EmptySet
<1> QED
  BY <1>2, <1>3, <1>4, <1>5

LEMMA TimesSame ==
  ASSUME NEW s, NEW t, NEW i \in Nat, \A j \in 1 .. i : s[j] = t[j], NEW k
  PROVE  Times(s, i, k) = Times(t, i, k)
<1>1. {j \in 1 .. i : s[j] = k} = {j \in 1 .. i : t[j] = k}
  OBVIOUS
<1> QED
  BY <1>1 DEF Times

LEMMA TimesAppended ==
  ASSUME NEW S, NEW s \in Seq(S), NEW e \in S, NEW k
  PROVE  Times(Append(s, e), Len(Append(s, e)), k) = Times(s, Len(s), k) + IF e = k THEN 1 ELSE 0
<1> DEFINE t == Append(s, e)
           n == Len(s)
<1>1. n \in Nat /\ Len(t) = n + 1 /\ t[n + 1] = e /\ \A j \in 1 .. n : t[j] = s[j]
  BY AppendProperties
<1> HIDE DEF t, n
<1>2. Times(t, n, k) = Times(s, n, k)
  BY <1>1, TimesSame
<1>3. Times(t, n + 1, k) = Times(t, n, k) + IF t[n + 1] = k THEN 1 ELSE 0
  BY <1>1, TimesFacts
<1> QED
  BY <1>1, <1>2, <1>3 DEF t, n

LEMMA FieldNames ==
  /\ DOMAIN EmptyNode = {"kind", "selector", "terms", "topic", "entity", "anchors", "since", "until",
                         "top", "depth", "vec"}
  /\ EmptyNode["kind"] = "none"
  /\ \A f \in DOMAIN EmptyNode \ {"kind"} : EmptyNode[f] = <<>>
  BY DEF EmptyNode

LEMMA FieldSet ==
  ASSUME NEW n, n = [f \in DOMAIN EmptyNode |-> n[f]], NEW g \in DOMAIN EmptyNode, NEW v
  PROVE  LET o == [n EXCEPT ![g] = v]
         IN /\ o = [f \in DOMAIN EmptyNode |-> o[f]]
            /\ o[g] = v /\ \A f \in DOMAIN EmptyNode \ {g} : o[f] = n[f]
  OBVIOUS

LEMMA EmptyHolds == Holds(EmptyNode)
<1>1. /\ EmptyNode = [f \in DOMAIN EmptyNode |-> EmptyNode[f]]
      /\ \A f \in DOMAIN EmptyNode \ {"kind"} : EmptyNode[f] = <<>>
  BY FieldNames, NodeFields
<1>2. \A S : <<>> \in Seq(S) /\ <<>> \in AtMostOne(S)
  BY DEF AtMostOne
<1>3. Len(<<>>) = 0 /\ \A k : Times(<<>>, 0, k) = 0
  BY TimesFacts
<1>4. \A f \in {"selector", "terms", "topic", "entity", "anchors", "since", "until", "top", "depth", "vec"} :
        EmptyNode[f] = <<>>
  BY <1>1, FieldNames
<1>5. ASSUME NEW k \in Anchors
      PROVE  /\ EmptyNode[k] = <<>>
             /\ Times(EmptyNode["anchors"], Len(EmptyNode["anchors"]), k) = Len(EmptyNode[k])
  BY <1>3, <1>4 DEF Anchors
<1> QED
  BY <1>1, <1>2, <1>4, <1>5 DEF Holds

\* What one step may put into a node.
LEMMA HoldsMore ==
  ASSUME NEW n, Holds(n), NEW g \in DOMAIN EmptyNode, NEW v,
         \/ g = "kind"
         \/ g = "selector" /\ v \in AtMostOne({IntOf[l] : l \in DOMAIN IntOf} \cap 0 .. 255)
         \/ g = "terms" /\ v \in Seq({t \in Tokens : IsTerm(t)})
         \/ g \in {"top", "depth"} /\ v \in AtMostOne({t \in Tokens : IsNumber(t)})
         \/ g \in {"since", "until"} /\ v \in AtMostOne({t \in Tokens : IsTime(t)})
         \/ g = "vec" /\ v \in AtMostOne({t \in Tokens : t.type = "literal"})
  PROVE  Holds([n EXCEPT ![g] = v])
<1> DEFINE o == [n EXCEPT ![g] = v]
<1>1. n = [f \in DOMAIN EmptyNode |-> n[f]]
  BY DEF Holds
<1>2. o = [f \in DOMAIN EmptyNode |-> o[f]] /\ o[g] = v /\ \A f \in DOMAIN EmptyNode \ {g} : o[f] = n[f]
  BY <1>1, FieldSet
<1> HIDE DEF o
<1>3. \A f \in {"selector", "terms", "topic", "entity", "anchors", "since", "until", "top", "depth", "vec"} :
        f # g => o[f] = n[f]
  BY <1>2, FieldNames
<1>4. ASSUME NEW k \in Anchors
      PROVE  /\ o[k] \in Seq({t \in Tokens : t.type \in Words \cup {"phrase"} /\ t.literal # Blank})
             /\ Times(o["anchors"], Len(o["anchors"]), k) = Len(o[k])
  <2>1. k # g /\ "anchors" # g
    BY DEF Anchors
  <2>2. o[k] = n[k] /\ o["anchors"] = n["anchors"]
    BY <1>3, <2>1 DEF Anchors
  <2> QED
    BY <2>2 DEF Holds
<1>5. o["anchors"] = n["anchors"]
  BY <1>3
<1>6. /\ o["selector"] \in AtMostOne({IntOf[l] : l \in DOMAIN IntOf} \cap 0 .. 255)
      /\ o["terms"] \in Seq({t \in Tokens : IsTerm(t)})
      /\ o["vec"] \in AtMostOne({t \in Tokens : t.type = "literal"})
  BY <1>2, <1>3 DEF Holds
<1>7. ASSUME NEW k \in {"top", "depth"} PROVE o[k] \in AtMostOne({t \in Tokens : IsNumber(t)})
  BY <1>2, <1>3 DEF Holds
<1>8. ASSUME NEW k \in {"since", "until"} PROVE o[k] \in AtMostOne({t \in Tokens : IsTime(t)})
  BY <1>2, <1>3 DEF Holds
<1>9. Holds(o)
  BY <1>2, <1>4, <1>5, <1>6, <1>7, <1>8 DEF Holds
<1> QED
  BY <1>9 DEF o

LEMMA HoldsAnchor ==
  ASSUME NEW n, Holds(n), NEW k \in Anchors,
         NEW t \in {u \in Tokens : u.type \in Words \cup {"phrase"} /\ u.literal # Blank}
  PROVE  Holds([n EXCEPT ![k] = Append(n[k], t), !["anchors"] = Append(n["anchors"], k)])
<1> DEFINE o == [n EXCEPT ![k] = Append(n[k], t), !["anchors"] = Append(n["anchors"], k)]
           V == {u \in Tokens : u.type \in Words \cup {"phrase"} /\ u.literal # Blank}
<1>1. n = [f \in DOMAIN EmptyNode |-> n[f]] /\ k \in DOMAIN EmptyNode /\ k # "anchors"
  BY FieldNames DEF Holds, Anchors
<1>2. /\ o = [f \in DOMAIN EmptyNode |-> o[f]]
      /\ o[k] = Append(n[k], t) /\ o["anchors"] = Append(n["anchors"], k)
      /\ \A f \in DOMAIN EmptyNode \ {k, "anchors"} : o[f] = n[f]
  BY <1>1, FieldNames
<1>3. /\ n["anchors"] \in Seq(Anchors)
      /\ \A c \in Anchors : n[c] \in Seq(V) /\ Times(n["anchors"], Len(n["anchors"]), c) = Len(n[c])
  BY DEF Holds
<1> HIDE DEF o, V
<1>4. o["anchors"] \in Seq(Anchors) /\ o[k] \in Seq(V) /\ Len(o[k]) = Len(n[k]) + 1
  <2>1. t \in V
    BY DEF V
  <2>2. n[k] \in Seq(V)
    BY <1>3
  <2>3. Append(n[k], t) \in Seq(V) /\ Len(Append(n[k], t)) = Len(n[k]) + 1
    BY <2>1, <2>2, AppendProperties
  <2>4. Append(n["anchors"], k) \in Seq(Anchors)
    BY <1>3, AppendProperties
  <2> QED
    BY <1>2, <2>3, <2>4
<1>5. ASSUME NEW c \in Anchors
      PROVE  o[c] \in Seq(V) /\ Times(o["anchors"], Len(o["anchors"]), c) = Len(o[c])
  <2>1. Times(o["anchors"], Len(o["anchors"]), c) = Len(n[c]) + IF k = c THEN 1 ELSE 0
    <3>1. n["anchors"] \in Seq(Anchors) /\ o["anchors"] = Append(n["anchors"], k)
      BY <1>2, <1>3
    <3>2. Times(o["anchors"], Len(o["anchors"]), c)
            = Times(n["anchors"], Len(n["anchors"]), c) + IF k = c THEN 1 ELSE 0
      BY <3>1, TimesAppended
    <3> QED
      BY <1>3, <3>2
  <2>2. CASE c = k
    BY <1>4, <2>1, <2>2
  <2>3. CASE c # k
    <3>1. c \in DOMAIN EmptyNode \ {k, "anchors"}
      BY <2>3, FieldNames DEF Anchors
    <3>2. o[c] = n[c] /\ n[c] \in Seq(V)
      BY <1>2, <1>3, <3>1
    <3>3. Len(n[c]) \in Nat
      BY <3>2
    <3> DEFINE l == Len(n[c])
               x == Times(o["anchors"], Len(o["anchors"]), c)
    <3>4. x = l + (IF k = c THEN 1 ELSE 0) /\ l \in Nat
      BY <2>1, <3>3
    <3> HIDE DEF l, x
    <3>5. x = l
      BY <2>3, <3>4
    <3> QED
      BY <3>2, <3>5 DEF l, x
  <2> QED
    BY <2>2, <2>3
<1>6. Holds(o)
  <2>1. \A f \in {"selector", "terms", "top", "depth", "since", "until", "vec"} : o[f] = n[f]
    BY <1>2, FieldNames DEF Anchors
  <2> QED
    BY <1>2, <1>4, <1>5, <2>1 DEF Holds, V
<1> QED
  BY <1>6 DEF o

LEMMA TokensIn ==
  ASSUME NodeInv, UNCHANGED origin, Shift \/ UNCHANGED window
  PROVE  /\ origin' = NoNode => {cur', peek'} \subseteq Tokens \cup {EOL}
         /\ origin' # NoNode => Whole(origin)'
<1>1. Whole(origin)' = Whole(origin)
  BY DEF Whole
<1> QED
  BY <1>1 DEF NodeInv, Shift, Lexed, window

\* A step that leaves the command as it is.
LEMMA NodeInvKept ==
  ASSUME NodeInv, UNCHANGED <<origin, node>>, Shift \/ UNCHANGED window,
         mode' # "command", mode' # "rejected" => node.kind \in {"recall", "remember"},
         mode' = "terms" => node.kind = "recall", mode' = "phrase" => node.kind = "remember",
         mode' \notin Openings \cup {"phrase", "rejected"} /\ node.kind = "remember" => Remembers(node),
         mode' \in {"separator", "value", "param"} => Takes(key'.type)
  PROVE  NodeInv'
<1>1. mode' \in {"separator", "value", "param"} => Takes(key.type)'
  BY DEF Takes
<1>2. /\ origin' = NoNode => {cur', peek'} \subseteq Tokens \cup {EOL}
      /\ origin' # NoNode => Whole(origin)'
  BY TokensIn
<1> QED
  BY <1>1, <1>2 DEF NodeInv

LEMMA NodeInvRejects ==
  ASSUME NodeInv, Reject
  PROVE  NodeInv'
<1>1. UNCHANGED <<origin, node>> /\ UNCHANGED window /\ mode' = "rejected"
  BY DEF Reject, Goes
<1> QED
  BY <1>1, NodeInvKept DEF Openings

LEMMA EOLIs == EOL.type = "eol" /\ EOL.literal = Blank /\ EOL.literal \notin Numeric
<1>1. EOL.type = "eol" /\ EOL.literal = Blank
  BY DEF EOL
<1>2. Readable(EOL)
  BY LexemesAssumption
<1> QED
  BY <1>1, <1>2 DEF Readable

LEMMA HoldsSame == ASSUME NodeInv, origin = NoNode PROVE Holds(node)
  BY DEF NodeInv

LEMMA NodeInvHead ==
  ASSUME NodeInv, QueryInv, ParseQuery \/ ParseGraphSelector \/ ParseSelector
  PROVE  NodeInv'
<1>0. node = [f \in DOMAIN EmptyNode |-> node[f]]
  BY DEF QueryInv
<1>1. CASE Reject
  BY <1>1, NodeInvRejects
<1>2. ASSUME ParseQuery, ~Reject PROVE NodeInv'
  <2>1. /\ mode = "command" /\ cur.type \in {"recall", "remember"} /\ Shift /\ UNCHANGED origin
        /\ mode' = "selector" /\ node' = [node EXCEPT !["kind"] = cur.type]
    BY <1>2 DEF ParseQuery, Accept, Goes
  <2>2. node = EmptyNode
    BY <2>1 DEF NodeInv
  <2>3. node'["kind"] = cur.type /\ \A f \in Modifiers : node'[f] = <<>>
    BY <1>0, <2>1, <2>2, FieldNames DEF Modifiers
  <2>4. origin = NoNode => Holds(node')
    <3>1. Holds([node EXCEPT !["kind"] = cur.type])
      BY <2>2, EmptyHolds, HoldsMore, FieldNames
    <3> QED
      BY <2>1, <3>1
  <2>5. origin' = NoNode => {cur', peek'} \subseteq Tokens \cup {EOL}
    BY <2>1, TokensIn
  <2>6. origin' # NoNode => Whole(origin)'
    BY <2>1, TokensIn
  <2> QED
    BY <2>1, <2>3, <2>4, <2>5, <2>6 DEF NodeInv, Openings
<1>3. ASSUME ParseGraphSelector, ~Reject PROVE NodeInv'
  <2>1. /\ mode = "graph" /\ cur.literal \in DOMAIN IntOf /\ IntOf[cur.literal] \in 0 .. 255
        /\ Shift /\ UNCHANGED origin
        /\ mode' = "space" /\ node' = [node EXCEPT !["selector"] = <<IntOf[cur.literal]>>]
    BY <1>3 DEF ParseGraphSelector, Accept, Goes
  <2>2. /\ node'["kind"] = node["kind"] /\ \A f \in Modifiers : node'[f] = node[f]
    BY <1>0, <2>1, FieldNames DEF Modifiers
  <2>3. origin = NoNode => Holds(node')
    <3>1. <<IntOf[cur.literal]>> \in AtMostOne({IntOf[l] : l \in DOMAIN IntOf} \cap 0 .. 255)
      BY <2>1 DEF AtMostOne
    <3> QED
      BY <2>1, <3>1, HoldsSame, HoldsMore, FieldNames
  <2>4. origin' = NoNode => {cur', peek'} \subseteq Tokens \cup {EOL}
    BY <2>1, TokensIn
  <2>5. origin' # NoNode => Whole(origin)'
    BY <2>1, TokensIn
  <2> QED
    BY <2>1, <2>2, <2>3, <2>4, <2>5 DEF NodeInv, Openings
<1>4. ASSUME ParseSelector, ~Reject PROVE NodeInv'
  <2>1. /\ mode \in {"selector", "space"} /\ Shift /\ UNCHANGED <<node, origin>>
        /\ mode' \in {"graph", IF node.kind = "recall" THEN "terms" ELSE "phrase"}
    BY <1>4 DEF ParseSelector, Accept, Goes
  <2>2. node.kind \in {"recall", "remember"}
    BY <2>1 DEF NodeInv
  <2> QED
    BY <2>1, <2>2, NodeInvKept DEF Openings
<1> QED
  BY <1>1, <1>2, <1>3, <1>4

LEMMA NodeInvTerms ==
  ASSUME NodeInv, QueryInv, ParsePhrase \/ ParseTerms
  PROVE  NodeInv'
<1>0. node = [f \in DOMAIN EmptyNode |-> node[f]]
  BY DEF QueryInv
<1>1. CASE Reject
  BY <1>1, NodeInvRejects
<1>2. ASSUME NEW terms, node' = [node EXCEPT !["terms"] = terms],
             \/ mode' = "terms" /\ node.kind = "recall"
             \/ mode' = "clauses" /\ node.kind = "remember" /\ Len(terms) = 1 /\ terms[1].type = "phrase",
             origin = NoNode => terms \in Seq({t \in Tokens : IsTerm(t)}),
             Shift, UNCHANGED origin
      PROVE  NodeInv'
  <2>1. /\ node'["kind"] = node["kind"] /\ \A f \in Modifiers : node'[f] = node[f]
        /\ node'["terms"] = terms
    BY <1>0, <1>2, FieldNames DEF Modifiers
  <2>2. origin = NoNode => Holds(node')
    BY <1>2, HoldsSame, HoldsMore, FieldNames
  <2>3. /\ origin' = NoNode => {cur', peek'} \subseteq Tokens \cup {EOL}
        /\ origin' # NoNode => Whole(origin)'
    BY <1>2, TokensIn
  <2> QED
    BY <1>2, <2>1, <2>2, <2>3 DEF NodeInv, Openings, Remembers
<1>3. origin = NoNode => cur \in Tokens \cup {EOL}
  BY DEF NodeInv
<1>4. ASSUME ParsePhrase, ~Reject PROVE NodeInv'
  <2>1. /\ mode = "phrase" /\ cur.type = "phrase" /\ cur.literal # Blank
        /\ Shift /\ UNCHANGED origin
        /\ mode' = "clauses" /\ node' = [node EXCEPT !["terms"] = <<cur>>]
    BY <1>4 DEF ParsePhrase, Accept, Goes
  <2>2. node.kind = "remember"
    BY <2>1 DEF NodeInv
  <2>3. origin = NoNode => cur \in {t \in Tokens : IsTerm(t)}
    BY <1>3, <2>1, EOLIs DEF IsTerm, IsMisCasedKeyword
  <2>4. origin = NoNode => <<cur>> \in Seq({t \in Tokens : IsTerm(t)})
    BY <2>3
  <2>5. Len(<<cur>>) = 1 /\ <<cur>>[1] = cur
    OBVIOUS
  <2> QED
    BY <1>2, <2>1, <2>2, <2>4, <2>5
<1>5. ASSUME ParseTerms, ~Reject PROVE NodeInv'
  <2>1. mode = "terms" /\ UNCHANGED origin
    BY <1>5 DEF ParseTerms, Accept, Goes
  <2>2. node.kind = "recall"
    BY <2>1 DEF NodeInv
  <2>3. CASE mode' \in {"clauses", "terms"} /\ UNCHANGED node /\ (Shift \/ UNCHANGED window)
    BY <2>1, <2>2, <2>3, NodeInvKept DEF Openings
  <2>4. CASE /\ IsTerm(cur) /\ Shift /\ mode' = "terms"
             /\ node' = [node EXCEPT !["terms"] = Append(node["terms"], cur)]
    <3>1. origin = NoNode => Append(node["terms"], cur) \in Seq({t \in Tokens : IsTerm(t)})
      <4> SUFFICES ASSUME origin = NoNode
                   PROVE  Append(node["terms"], cur) \in Seq({t \in Tokens : IsTerm(t)})
        OBVIOUS
      <4> DEFINE V == {t \in Tokens : IsTerm(t)}
      <4>1. cur \in V
        BY <1>3, <2>4, EOLIs DEF IsTerm
      <4>2. node["terms"] \in Seq(V)
        BY HoldsSame DEF Holds
      <4> HIDE DEF V
      <4>3. Append(node["terms"], cur) \in Seq(V)
        BY <4>1, <4>2, AppendProperties
      <4> QED
        BY <4>3 DEF V
    <3> QED
      BY <1>2, <2>1, <2>2, <2>4, <3>1
  <2> QED
    BY <1>5, <2>3, <2>4 DEF ParseTerms, Accept, Goes
<1> QED
  BY <1>1, <1>4, <1>5

LEMMA NodeInvClauses ==
  ASSUME NodeInv, QueryInv, ParseClause \/ ParseSeparator \/ ParseValue \/ ParseVec
  PROVE  NodeInv'
<1>0. node = [f \in DOMAIN EmptyNode |-> node[f]]
  BY DEF QueryInv
<1>1. CASE Reject
  BY <1>1, NodeInvRejects
<1>2. /\ mode \in {"clauses", "separator", "value", "param"} /\ UNCHANGED origin
      /\ node.kind \in {"recall", "remember"} /\ (node.kind = "remember" => Remembers(node))
  BY DEF ParseClause, ParseSeparator, ParseValue, ParseVec, Accept, Reject, NodeInv, Openings
<1>3. ASSUME ParseClause, ~Reject PROVE NodeInv'
  <2>1. CASE mode' \in {"finish", "clauses"} /\ UNCHANGED node /\ (Shift \/ UNCHANGED window)
    BY <1>2, <2>1, NodeInvKept DEF Openings
  <2>2. CASE mode' = "separator" /\ UNCHANGED node /\ Shift /\ Takes(cur.type) /\ key' = cur
    BY <1>2, <2>2, NodeInvKept DEF Openings
  <2> QED
    BY <1>3, <2>1, <2>2 DEF ParseClause, Accept, Goes
<1>4. ASSUME ParseSeparator, ~Reject PROVE NodeInv'
  <2>1. mode = "separator" /\ mode' = "value" /\ UNCHANGED node /\ Shift /\ key' = key
    BY <1>4 DEF ParseSeparator, Accept, Goes
  <2>2. Takes(key'.type)
    BY <2>1 DEF NodeInv
  <2> QED
    BY <1>2, <2>1, <2>2, NodeInvKept DEF Openings
<1>5. origin = NoNode => cur \in Tokens \cup {EOL}
  BY DEF NodeInv
<1>6. Shift => /\ origin' = NoNode => {cur', peek'} \subseteq Tokens \cup {EOL}
               /\ origin' # NoNode => Whole(origin)'
  BY <1>2, TokensIn
<1>7. ASSUME ParseVec, ~Reject PROVE NodeInv'
  <2>1. CASE mode' = "param" /\ UNCHANGED <<node, key>> /\ Shift
    <3>1. key'.type = "vec" /\ mode \in {"value", "param"}
      BY <1>7, <2>1 DEF ParseVec
    <3>2. Takes(key'.type)
      BY <2>1, <3>1 DEF NodeInv
    <3> QED
      BY <1>2, <2>1, <3>2, NodeInvKept DEF Openings
  <2>2. CASE cur.type = "literal" /\ mode' = "clauses" /\ node' = [node EXCEPT !["vec"] = <<cur>>] /\ Shift
    <3>1. /\ node'["kind"] = node["kind"] /\ node'["terms"] = node["terms"]
          /\ \A f \in Modifiers : node'[f] = node[f]
      BY <1>0, <2>2, FieldNames DEF Modifiers
    <3>2. origin = NoNode => Holds(node')
      <4> SUFFICES ASSUME origin = NoNode PROVE Holds(node')
        OBVIOUS
      <4>1. cur \in {t \in Tokens : t.type = "literal"}
        BY <1>5, <2>2, EOLIs
      <4>2. <<cur>> \in AtMostOne({t \in Tokens : t.type = "literal"})
        BY <4>1 DEF AtMostOne
      <4> QED
        BY <2>2, <4>2, HoldsSame, HoldsMore, FieldNames
    <3> QED
      BY <1>2, <1>6, <2>2, <3>1, <3>2 DEF NodeInv, Openings, Remembers
  <2> QED
    BY <1>7, <2>1, <2>2 DEF ParseVec, Accept, Goes
<1>8. ASSUME ParseValue, ~Reject PROVE NodeInv'
  <2> DEFINE k == key.type
  <2>1. /\ Reads(k) /\ Shift /\ mode = "value" /\ mode' = "clauses"
        /\ node' = [node EXCEPT ![k] = IF k \in Anchors THEN Append(node[k], cur) ELSE <<cur>>,
                                !["anchors"] = IF k \in Anchors THEN Append(node["anchors"], k)
                                               ELSE node["anchors"]]
    BY <1>8 DEF ParseValue, Accept, Goes
  <2>2. Takes(k)
    BY <2>1 DEF NodeInv
  <2> HIDE DEF k
  <2>3. CASE k \in Anchors
    <3>1. node' = [node EXCEPT ![k] = Append(node[k], cur), !["anchors"] = Append(node["anchors"], k)]
      BY <2>1, <2>3
    <3>2. /\ node'["kind"] = node["kind"] /\ node'["terms"] = node["terms"]
          /\ \A f \in Modifiers : node'[f] = node[f]
      BY <1>0, <2>3, <3>1, FieldNames DEF Anchors, Modifiers
    <3>3. origin = NoNode => Holds(node')
      <4> SUFFICES ASSUME origin = NoNode PROVE Holds(node')
        OBVIOUS
      <4>1. cur.type \in Words \cup {"phrase"} /\ cur.literal # Blank
        <5>1. IsValue(cur, peek) /\ cur.literal # Blank
          BY <2>1, <2>3 DEF Reads, Anchors
        <5> QED
          BY <5>1 DEF IsValue, IsKeyword, Words
      <4>2. cur \in {u \in Tokens : u.type \in Words \cup {"phrase"} /\ u.literal # Blank}
        BY <1>5, <4>1, EOLIs
      <4> QED
        BY <2>3, <3>1, <4>2, HoldsSame, HoldsAnchor
    <3> QED
      BY <1>2, <1>6, <2>1, <3>2, <3>3 DEF NodeInv, Openings, Remembers
  <2>4. CASE k \notin Anchors
    <3>1. k \in {"top", "depth", "since", "until"}
      BY <2>1, <2>4 DEF Reads
    <3>2. node' = [node EXCEPT ![k] = <<cur>>]
      BY <1>0, <2>1, <2>4, <3>1, FieldNames
    <3>3. /\ node'["kind"] = node["kind"] /\ node'["terms"] = node["terms"]
          /\ node.kind = "recall"
      BY <1>0, <1>2, <2>2, <3>1, <3>2, FieldNames DEF Takes, Anchors
    <3>4. origin = NoNode => Holds(node')
      <4> SUFFICES ASSUME origin = NoNode PROVE Holds(node')
        OBVIOUS
      <4>1. CASE k \in {"top", "depth"}
        <5>1. IsNumber(cur)
          BY <2>1, <2>4, <4>1 DEF Reads
        <5>2. cur \in {t \in Tokens : IsNumber(t)}
          BY <1>5, <5>1, EOLIs DEF IsNumber, Numeric
        <5>3. <<cur>> \in AtMostOne({t \in Tokens : IsNumber(t)})
          BY <5>2 DEF AtMostOne
        <5> QED
          BY <3>2, <4>1, <5>3, HoldsSame, HoldsMore, FieldNames
      <4>2. CASE k \in {"since", "until"}
        <5>1. IsTime(cur)
          BY <2>1, <2>4, <4>2 DEF Reads
        <5>2. cur \in {t \in Tokens : IsTime(t)}
          BY <1>5, <5>1, EOLIs DEF IsTime, Numeric
        <5>3. <<cur>> \in AtMostOne({t \in Tokens : IsTime(t)})
          BY <5>2 DEF AtMostOne
        <5> QED
          BY <3>2, <4>2, <5>3, HoldsSame, HoldsMore, FieldNames
      <4> QED
        BY <3>1, <4>1, <4>2
    <3> QED
      BY <1>2, <1>6, <2>1, <3>3, <3>4 DEF NodeInv, Openings, Remembers
  <2> QED
    BY <2>3, <2>4
<1> QED
  BY <1>1, <1>3, <1>4, <1>7, <1>8

LEMMA NodeInvChecks ==
  ASSUME NodeInv, QueryInv, Finish \/ ParseTail \/ Bind \/ Reparse
  PROVE  NodeInv'
<1>1. CASE Reject
  BY <1>1, NodeInvRejects
<1>2. CASE Reparse
  <2>1. /\ mode = "parsed" /\ origin = NoNode /\ origin' = node
        /\ mode' = "command" /\ node' = EmptyNode
    BY <1>2 DEF Reparse, Goes
  <2>2. /\ node.kind \in {"recall", "remember"} /\ Holds(node)
        /\ node.kind = "remember" => Remembers(node) /\ \A k \in Modifiers : node[k] = <<>>
    BY <2>1 DEF NodeInv, Openings
  <2>3. node.kind = "recall" => Seeded(node)
    BY <2>1 DEF QueryInv, Checked
  <2>4. Whole(node)
    BY <2>2, <2>3 DEF Whole
  <2>5. Whole(origin)'
    <3>1. Whole(origin)' <=> Whole(node)
      BY <2>1 DEF Whole, Holds, Seeded, NamesAnchors, Remembers
    <3> QED
      BY <2>4, <3>1
  <2>6. origin' # NoNode
    BY <2>1, <2>2 DEF NoNode
  <2>7. node'.kind = "none" /\ \A k \in Modifiers : node'[k] = <<>>
    BY <2>1, FieldNames DEF Modifiers
  <2> QED
    BY <2>1, <2>5, <2>6, <2>7 DEF NodeInv, Openings
<1>3. ASSUME Finish \/ ParseTail \/ Bind, ~Reject PROVE NodeInv'
  <2>1. /\ mode \in {"finish", "tail", "parsed"} /\ mode' \in {"tail", "parsed", "bound"}
        /\ UNCHANGED <<node, origin>> /\ (Shift \/ UNCHANGED window)
    BY <1>3 DEF Finish, ParseTail, Bind, Accept, Goes
  <2>2. node.kind \in {"recall", "remember"} /\ (node.kind = "remember" => Remembers(node))
    BY <2>1 DEF NodeInv, Openings
  <2> QED
    BY <2>1, <2>2, NodeInvKept DEF Openings
<1> QED
  BY <1>1, <1>2, <1>3

LEMMA NodeInvInit == Init => NodeInv
<1> SUFFICES ASSUME Init PROVE NodeInv
  OBVIOUS
<1>1. node = EmptyNode /\ mode = "command" /\ {cur, peek} \subseteq Tokens \cup {EOL} /\ origin = NoNode
  BY DEF Init
<1>2. Holds(node)
  BY <1>1, EmptyHolds
<1>3. \A k \in Modifiers : node[k] = <<>>
  BY <1>1, FieldNames DEF Modifiers
<1> QED
  BY <1>1, <1>2, <1>3 DEF NodeInv, Openings

LEMMA NodeInvStep == NodeInv /\ QueryInv /\ [Next]_vars => NodeInv'
<1>1. ASSUME NodeInv, UNCHANGED vars PROVE NodeInv'
  <2>1. UNCHANGED <<cur, peek, origin, node, mode, key>>
    BY <1>1 DEF vars, window
  <2> QED
    BY <1>1, <2>1 DEF NodeInv, Takes
<1> QED
  BY <1>1, NodeInvHead, NodeInvTerms, NodeInvClauses, NodeInvChecks DEF Next

-----------------------------------------------------------------------------
(* The window moves.                                                       *)

LEMMA AppendedText ==
  ASSUME NEW s, s \in Seq(ToSet(s)), NEW e
  PROVE  LET t == Append(s, e)
         IN /\ t \in Seq(ToSet(t)) /\ Len(t) = Len(s) + 1 /\ Len(s) \in Nat
            /\ t[Len(s) + 1] = e /\ \A i \in 1 .. Len(s) : t[i] = s[i]
            /\ DOMAIN s = 1 .. Len(s) /\ DOMAIN t = 1 .. Len(s) + 1
<1> DEFINE S == ToSet(s) \cup {e}
           t == Append(s, e)
<1>1. s \in Seq(S)
  BY SequenceGrows
<1>2. e \in S
  OBVIOUS
<1> HIDE DEF S
<1>3. t \in Seq(S) /\ Len(t) = Len(s) + 1 /\ t[Len(s) + 1] = e /\ \A i \in 1 .. Len(s) : t[i] = s[i]
  BY <1>1, <1>2, AppendProperties
<1>4. Len(s) \in Nat /\ DOMAIN s = 1 .. Len(s) /\ DOMAIN t = 1 .. Len(t)
  BY <1>1, <1>3
<1>5. t \in Seq(ToSet(t))
  BY <1>3, OwnElements
<1> QED
  BY <1>3, <1>4, <1>5

\* The next token of the printed text.
LEMMA TapeShifts ==
  ASSUME NEW s, s \in Seq(ToSet(s)), s # <<>>
  PROVE  /\ Head(s) \in ToSet(s) /\ Tail(s) \in Seq(ToSet(Tail(s)))
         /\ ToSet(Tail(s)) \subseteq ToSet(s)
<1> DEFINE S == ToSet(s)
<1>1. s \in Seq(S)
  OBVIOUS
<1> HIDE DEF S
<1>2. Tail(s) \in Seq(S) /\ Head(s) \in S
  BY <1>1
<1> QED
  BY <1>2, OwnElements, ElementsOf DEF S

LEMMA TokensInvShifts ==
  ASSUME TokensInv, Shift, UNCHANGED origin
  PROVE  TokensInv' /\ (peek.type \in {"eol", "illegal"} => peek'.type = "eol")
<1>1. cur' = peek
  BY DEF Shift
<1>2. input' \in Seq(ToSet(input'))
  BY AppendedText DEF TokensInv, Shift
<1>3. Readable(EOL) /\ EOL.type = "eol"
  BY LexemesAssumption, EOLIs
<1>4. CASE origin = NoNode
  <2>1. PICK u \in Tokens \cup {EOL} : Lexed(peek, u) /\ peek' = u
    BY <1>4 DEF Shift
  <2>2. Readable(peek') /\ (peek.type \in {"eol", "illegal"} => peek' = EOL)
    BY <2>1, LexemesAssumption DEF Lexed, Follows
  <2>3. tape' = tape /\ tape = <<>>
    BY <1>4 DEF Shift, TokensInv
  <2> QED
    BY <1>1, <1>2, <1>3, <2>2, <2>3 DEF TokensInv, Readable
<1>5. CASE origin # NoNode
  <2>1. CASE tape = <<>>
    <3>1. peek' = EOL /\ tape' = tape
      BY <1>5, <2>1 DEF Shift
    <3> QED
      BY <1>1, <1>2, <1>3, <1>5, <2>1, <3>1 DEF TokensInv, Readable
  <2>2. CASE tape # <<>>
    <3>1. peek' = Head(tape) /\ tape' = Tail(tape)
      BY <1>5, <2>2 DEF Shift
    <3>2. /\ Head(tape) \in ToSet(tape) /\ Tail(tape) \in Seq(ToSet(Tail(tape)))
          /\ ToSet(Tail(tape)) \subseteq ToSet(tape)
      BY <2>2, TapeShifts DEF TokensInv
    <3>3. peek.type \notin {"eol", "illegal"}
      BY <2>2 DEF TokensInv
    <3>4. Readable(peek') /\ peek'.type \notin {"eol", "illegal"}
      BY <3>1, <3>2 DEF TokensInv
    <3>5. tape' \in Seq(ToSet(tape')) /\ \A t \in ToSet(tape') : Readable(t) /\ t.type \notin {"eol", "illegal"}
      BY <3>1, <3>2 DEF TokensInv
    <3> QED
      BY <1>1, <1>2, <1>5, <3>3, <3>4, <3>5 DEF TokensInv, Readable
  <2> QED
    BY <2>1, <2>2
<1> QED
  BY <1>4, <1>5

\* What was read up to the next token stays as it was.
Agree(s, t, n) == \A i \in 1 .. n : s[i] = t[i] /\ TypeOf(s, i) = TypeOf(t, i)

LEMMA Shifts ==
  ASSUME TokensInv, NEW p \in Nat, WindowAt(p), cur.type # "eol", Shift, UNCHANGED origin
  PROVE  /\ TokensInv' /\ WindowAt(p + 1)' /\ Agree(input, input', p + 1)
         /\ cur' = input[p + 1] /\ p + 1 \in DOMAIN input /\ DOMAIN input = 1 .. p + 1
<1>1. /\ p \in 1 .. Len(input) /\ Len(input) = p + 1 /\ cur = input[p] /\ peek = input[p + 1]
      /\ \A i \in 1 .. p - 1 : input[i].type # "eol"
  BY DEF WindowAt
<1>2. /\ input \in Seq(ToSet(input)) /\ DOMAIN input = 1 .. p + 1
      /\ Len(Append(input, peek')) = p + 2 /\ DOMAIN Append(input, peek') = 1 .. p + 2
      /\ Append(input, peek')[p + 2] = peek'
      /\ \A i \in 1 .. p + 1 : Append(input, peek')[i] = input[i]
  <2>1. input \in Seq(ToSet(input))
    BY DEF TokensInv
  <2> QED
    BY <1>1, <2>1, AppendedText
<1>3. cur' = peek
  BY DEF Shift
<1>4. TokensInv' /\ (peek.type \in {"eol", "illegal"} => peek'.type = "eol")
  BY TokensInvShifts
<1>5. \A i \in 1 .. p : input[i].type # "eol"
  BY <1>1
<1>6. CASE peek.type = "eol"
  <2>1. input' = input /\ peek'.type = "eol"
    BY <1>4, <1>6 DEF Shift
  <2>2. TypeOf(input', p + 2) = "eol"
    BY <1>2, <2>1 DEF TypeOf
  <2>3. WindowAt(p + 1)'
    BY <1>1, <1>2, <1>3, <1>5, <1>6, <2>1, <2>2 DEF WindowAt
  <2> QED
    BY <1>1, <1>2, <1>3, <1>4, <2>1, <2>3 DEF Agree
<1>7. CASE peek.type # "eol"
  <2>1. input' = Append(input, peek')
    BY <1>7 DEF Shift
  <2>2. \A i \in 1 .. p + 1 : i \in DOMAIN input /\ i \in DOMAIN input' /\ input'[i] = input[i]
    BY <1>2, <2>1
  <2>3. Agree(input, input', p + 1)
    BY <2>2 DEF Agree, TypeOf
  <2>4. Len(input') = p + 2 /\ input'[p + 2] = peek' /\ p + 2 \in DOMAIN input'
    BY <1>2, <2>1
  <2>5. TypeOf(input', p + 2) = peek'.type
    BY <2>4 DEF TypeOf
  <2>6. \A i \in 1 .. (p + 1) - 1 : input'[i].type # "eol"
    <3>1. \A i \in 1 .. (p + 1) - 1 : i \in 1 .. p /\ i \in 1 .. p + 1
      OBVIOUS
    <3> QED
      BY <1>5, <2>2, <3>1
  <2>7. WindowAt(p + 1)'
    <3>1. cur' = input'[p + 1] /\ p + 1 \in 1 .. Len(input') /\ Len(input') \in {p + 1, (p + 1) + 1}
          /\ (p + 1) + 1 = p + 2
      BY <1>1, <1>3, <2>2, <2>4
    <3> QED
      BY <2>4, <2>5, <2>6, <3>1 DEF WindowAt
  <2> QED
    BY <1>1, <1>2, <1>3, <1>4, <2>3, <2>7
<1> QED
  BY <1>6, <1>7

-----------------------------------------------------------------------------
(* What each production reads.                                             *)

LEMMA ReadFields ==
  ASSUME NEW n, NEW text, NEW m, ReadTo(n, text, m),
         NEW o, o.terms = n.terms, \A k \in ClauseWords : o[k] = n[k]
  PROVE  ReadTo(o, text, m)
  BY DEF ReadTo

\* The window, read off the text.
LEMMA WindowSays ==
  ASSUME TokensInv, NEW p \in Nat, WindowAt(p)
  PROVE  /\ p >= 1 /\ p - 1 \in Nat /\ (p - 1) + 1 = p /\ (p + 1) - 1 = p
         /\ cur = input[p] /\ TypeOf(input, p) = cur.type /\ TypeOf(input, p + 1) = peek.type
<1>1. p \in 1 .. Len(input) /\ cur = input[p] /\ peek.type = TypeOf(input, p + 1)
  BY DEF WindowAt
<1>2. DOMAIN input = 1 .. Len(input)
  BY DEF TokensInv
<1> QED
  BY <1>1, <1>2 DEF TypeOf

\* A production that accepts cur.
LEMMA Advance ==
  ASSUME TokensInv, NEW p \in Nat, ReadingAt(p), cur.type # "eol", Shift, UNCHANGED origin,
         mode' \notin {"parsed", "bound", "rejected"},
         NEW m \in 0 .. p, m = Done(p + 1)',
         ReadTo(node', input, m) \/ (mode' \in {"terms", "clauses"} /\ cur'.type = "colon"),
         ClauseAt(p + 1)', SelectorAt(p + 1)',
         Stray(input, p) => mode' = "space" /\ cur'.type = "eol"
  PROVE  TokensInv' /\ ReadingAt(p + 1)'
<1>0. /\ WindowAt(p) /\ \A i \in 1 .. p - 1 : ~Stray(input, i)
  BY DEF ReadingAt
<1>1. /\ TokensInv' /\ WindowAt(p + 1)' /\ Agree(input, input', p + 1)
  BY <1>0, Shifts
<1>2. \A i \in 1 .. p : Stray(input', i) <=> Stray(input, i)
  <2>1. \A i \in 1 .. p : i \in 1 .. p + 1 /\ (i - 1 \in 1 .. p + 1 \/ i - 1 = 0)
    OBVIOUS
  <2>2. TypeOf(input, 0) = TypeOf(input', 0)
    <3>1. 0 \notin DOMAIN input /\ 0 \notin DOMAIN input'
      BY <1>1 DEF TokensInv
    <3> QED
      BY <3>1 DEF TypeOf
  <2> QED
    BY <1>1, <2>1, <2>2 DEF Stray, Agree
<1>3. ASSUME ReadTo(node', input, m) PROVE ReadTo(node', input', m)
  <2>1. m \in Nat /\ \A i \in 1 .. m : i \in 1 .. p + 1
    OBVIOUS
  <2>2. \A i \in 1 .. m + 1 : i \in 1 .. p + 1
    OBVIOUS
  <2> QED
    BY <1>1, <1>3, <2>1, <2>2, ReadSame DEF Agree
<1>4. \A i \in 1 .. (p + 1) - 1 : Stray(input', i) => mode' = "space" /\ i = (p + 1) - 1 /\ cur'.type = "eol"
  <2>1. \A i \in 1 .. (p + 1) - 1 : i \in 1 .. p /\ (i = p \/ i \in 1 .. p - 1)
    OBVIOUS
  <2> QED
    BY <1>0, <1>2, <2>1
<1>5. \/ mode' \in {"terms", "clauses"} /\ cur'.type = "colon"
      \/ ReadTo(node', input', Done(p + 1)')
  BY <1>3
<1> QED
  BY <1>1, <1>4, <1>5 DEF ReadingAt

\* A blank, or another token that says nothing by itself.
LEMMA SkipsQuiet ==
  ASSUME TokensInv, NEW p \in Nat, WindowAt(p), ReadTo(node, input, p - 1), Quiet(input, p),
         node'.terms = node.terms, \A k \in ClauseWords : node'[k] = node[k]
  PROVE  ReadTo(node', input, p)
<1>1. p - 1 \in Nat /\ (p - 1) + 1 = p
  BY WindowSays
<1>2. ReadTo(node, input, p)
  BY <1>1, ReadQuiet
<1> QED
  BY <1>2, ReadFields

LEMMA QuietTokens ==
  ASSUME TokensInv, NEW p \in Nat, WindowAt(p)
  PROVE  /\ cur.type \in {"whitespace", "newline", "at", "colon", "dollar", "eol"} => Quiet(input, p)
         /\ cur.type \in {"recall", "remember"} /\ p = 1 => Quiet(input, p)
         /\ TypeOf(input, p - 1) \in {"colon", "dollar", "at"} /\ cur.type \in {"literal", "phrase", "illegal"}
               => Quiet(input, p)
         /\ TypeOf(input, p - 1) = "colon" /\ peek.type # "colon" => Quiet(input, p)
         /\ cur.type \in {"whitespace", "newline", "at", "colon", "dollar", "eol", "recall", "remember",
                          "literal", "phrase"} \cup ClauseWords => ~Stray(input, p)
         /\ TypeOf(input, p - 1) = "colon" => ~Stray(input, p)
  BY WindowSays DEF Quiet, TermAtPlace, ClauseAtPlace, Stray, ClauseWords, Words, Keywords, Commands,
     PrefixWords, Anchors, Modifiers

LEMMA SelectorSame ==
  ASSUME NEW p \in Nat, p >= 2, Agree(input, input', p + 1)
  PROVE  SelectorSaid' = SelectorSaid /\ TypeOf(input', 2) = TypeOf(input, 2)
<1>1. 2 \in 1 .. p + 1 /\ 3 \in 1 .. p + 1
  OBVIOUS
<1>2. TypeOf(input', 2) = TypeOf(input, 2) /\ input'[3] = input[3]
  BY <1>1 DEF Agree
<1> QED
  BY <1>2 DEF SelectorSaid

LEMMA ReadsQuery ==
  ASSUME TokensInv, NodeInv, NEW p \in Nat, ReadingAt(p), ParseQuery, ~Reject
  PROVE  TokensInv' /\ ReadingAt(p + 1)'
<1>1. /\ mode = "command" /\ cur.type \in {"recall", "remember"} /\ Shift /\ UNCHANGED origin
      /\ mode' = "selector" /\ node' = [node EXCEPT !["kind"] = cur.type]
  BY DEF ParseQuery, Accept, Goes
<1>2. p = 1 /\ WindowAt(p) /\ node = EmptyNode /\ ReadTo(node, input, Done(p))
  BY <1>1 DEF ReadingAt, SelectorAt, NodeInv
<1>3. ReadTo(node, input, p - 1)
  BY <1>1, <1>2 DEF Done
<1>4. /\ node'["terms"] = node["terms"] /\ node'["selector"] = <<>> /\ node["terms"] = <<>>
      /\ \A k \in ClauseWords : node'[k] = node[k]
  BY <1>1, <1>2, FieldNames, NodeFields DEF ClauseWords, Anchors, Modifiers
<1>5. ReadTo(node', input, p)
  BY <1>1, <1>2, <1>3, <1>4, QuietTokens, SkipsQuiet
<1>6. ~Stray(input, p)
  BY <1>1, <1>2, QuietTokens
<1>7. SelectorAt(p + 1)' /\ ClauseAt(p + 1)'
  BY <1>1, <1>2, <1>4 DEF SelectorAt, ClauseAt
<1>8. p = Done(p + 1)'
  BY <1>1 DEF Done
<1>9. p \in 0 .. p /\ cur.type # "eol" /\ mode' \notin {"parsed", "bound", "rejected"}
  BY <1>1
<1> QED
  BY <1>1, <1>5, <1>6, <1>7, <1>8, <1>9, Advance

LEMMA ReadsGraph ==
  ASSUME TokensInv, NodeInv, QueryInv, NEW p \in Nat, ReadingAt(p), ParseGraphSelector, ~Reject
  PROVE  TokensInv' /\ ReadingAt(p + 1)'
<1>1. /\ mode = "graph" /\ cur.literal \in DOMAIN IntOf /\ Shift /\ UNCHANGED origin
      /\ mode' = "space" /\ node' = [node EXCEPT !["selector"] = <<IntOf[cur.literal]>>]
  BY DEF ParseGraphSelector, Accept, Goes
<1>2. /\ p = 3 /\ TypeOf(input, 2) = "at" /\ WindowAt(p) /\ ReadTo(node, input, Done(p))
      /\ node["terms"] = <<>>
  BY <1>1 DEF ReadingAt, SelectorAt
<1>3. cur.type \in {"literal", "phrase", "illegal"} /\ (cur.type = "illegal" => peek.type = "eol")
  BY <1>1 DEF TokensInv, Readable, Numeric
<1>4. /\ node'["terms"] = node["terms"] /\ node'["selector"] = <<IntOf[cur.literal]>>
      /\ \A k \in ClauseWords : node'[k] = node[k]
  BY <1>1, FieldNames DEF QueryInv, ClauseWords, Anchors, Modifiers
<1>5. TypeOf(input, p - 1) = "at"
  BY <1>2
<1>6. Quiet(input, p)
  BY <1>2, <1>3, <1>5, QuietTokens
<1>7. ReadTo(node', input, p)
  <2>1. ReadTo(node, input, p - 1)
    BY <1>1, <1>2 DEF Done
  <2> QED
    BY <1>2, <1>4, <1>6, <2>1, SkipsQuiet
<1>8. cur' = peek
  BY <1>1 DEF Shift
<1>9. Stray(input, p) => mode' = "space" /\ cur'.type = "eol"
  BY <1>1, <1>2, <1>3, <1>8, QuietTokens
<1>10. Agree(input, input', p + 1) /\ cur = input[3]
  BY <1>1, <1>2, <1>3, Shifts, WindowSays
<1>11. TypeOf(input', 2) = "at" /\ SelectorSaid' = <<IntOf[cur.literal]>>
  <2>1. TypeOf(input', 2) = TypeOf(input, 2) /\ SelectorSaid' = SelectorSaid
    BY <1>2, <1>10, SelectorSame
  <2> QED
    BY <1>2, <1>10, <2>1 DEF SelectorSaid
<1>12. SelectorAt(p + 1)' /\ ClauseAt(p + 1)'
  BY <1>1, <1>2, <1>4, <1>11 DEF SelectorAt, ClauseAt
<1>13. p = Done(p + 1)'
  BY <1>1 DEF Done
<1>14. p \in 0 .. p /\ cur.type # "eol" /\ mode' \notin {"parsed", "bound", "rejected"}
  BY <1>1, <1>3
<1> QED
  BY <1>1, <1>7, <1>9, <1>12, <1>13, <1>14, Advance

\* A production that goes past a blank.
LEMMA Skips ==
  ASSUME TokensInv, NEW p \in Nat, ReadingAt(p), Shift, UNCHANGED <<origin, node>>,
         cur.type \in {"whitespace", "newline", "at"},
         mode \notin {"separator", "value", "param"},
         mode' \notin {"separator", "value", "param", "parsed", "bound", "rejected"},
         SelectorAt(p + 1)'
  PROVE  TokensInv' /\ ReadingAt(p + 1)'
<1>1. WindowAt(p) /\ ReadTo(node, input, p - 1)
  BY DEF ReadingAt, Done
<1>2. Quiet(input, p) /\ ~Stray(input, p)
  BY <1>1, QuietTokens
<1>3. ReadTo(node', input, p)
  BY <1>1, <1>2, SkipsQuiet
<1>4. p = Done(p + 1)' /\ ClauseAt(p + 1)'
  BY DEF Done, ClauseAt
<1>5. p \in 0 .. p /\ cur.type # "eol" /\ mode' \notin {"parsed", "bound", "rejected"}
  OBVIOUS
<1> QED
  BY <1>2, <1>3, <1>4, <1>5, Advance

\* One that goes on without reading.
LEMMA Stays ==
  ASSUME TokensInv, NEW p \in Nat, ReadingAt(p), UNCHANGED <<window, node, origin>>,
         mode \in {"terms", "clauses", "finish", "tail", "parsed"},
         mode' \in {"clauses", "finish", "tail", "parsed", "bound"},
         cur.type = "colon" /\ mode \in {"terms", "clauses"} => mode' = "clauses",
         mode' \in {"parsed", "bound"} => cur.type = "eol"
  PROVE  TokensInv' /\ ReadingAt(p)'
<1>1. UNCHANGED <<cur, peek, input, tape>>
  BY DEF window
<1>2. TokensInv' /\ WindowAt(p)'
  BY <1>1 DEF TokensInv, Readable, ReadingAt, WindowAt, TypeOf
<1>3. Done(p)' = p - 1 /\ Done(p) = p - 1 /\ ClauseAt(p)'
  BY DEF Done, ClauseAt
<1>4. SelectorAt(p)'
  <2>1. p >= 3 /\ node.selector = SelectorSaid /\ SelectorSaid' = SelectorSaid
    BY <1>1 DEF ReadingAt, SelectorAt, SelectorSaid, TypeOf
  <2> QED
    BY <2>1 DEF SelectorAt
<1>5. (mode' \in {"terms", "clauses"} /\ cur'.type = "colon") \/ ReadTo(node', input', Done(p)')
  BY <1>1, <1>3 DEF ReadingAt
<1>6. \A i \in 1 .. p - 1 : ~Stray(input', i)
  BY <1>1 DEF ReadingAt
<1> QED
  BY <1>1, <1>2, <1>3, <1>4, <1>5, <1>6 DEF ReadingAt

LEMMA ReadsSelector ==
  ASSUME TokensInv, NEW p \in Nat, ReadingAt(p), ParseSelector, ~Reject
  PROVE  TokensInv' /\ ReadingAt(p + 1)'
<1>1. WindowAt(p) /\ SelectorAt(p)
  BY DEF ReadingAt
<1>2. TypeOf(input, p) = cur.type
  BY <1>1, WindowSays
<1>3. CASE /\ mode = "selector" /\ cur.type = "at" /\ Shift /\ UNCHANGED <<origin, node>>
           /\ mode' = "graph"
  <2>1. p = 2 /\ node.selector = <<>> /\ node.terms = <<>>
    BY <1>1, <1>3 DEF SelectorAt
  <2>2. TypeOf(input', 2) = "at"
    <3>1. Agree(input, input', p + 1)
      BY <1>1, <1>3, Shifts
    <3> QED
      BY <1>2, <1>3, <2>1, <3>1, SelectorSame
  <2>3. SelectorAt(p + 1)'
    BY <1>3, <2>1, <2>2 DEF SelectorAt
  <2> QED
    BY <1>3, <2>3, Skips
<1>4. CASE /\ mode \in {"selector", "space"} /\ cur.type = "whitespace"
           /\ Shift /\ UNCHANGED <<origin, node>> /\ mode' \in {"terms", "phrase"}
  <2>1. Agree(input, input', p + 1)
    BY <1>1, <1>4, Shifts
  <2>2. p \in {2, 4} /\ node.selector = SelectorSaid /\ node.terms = <<>>
    BY <1>1, <1>2, <1>4 DEF SelectorAt, SelectorSaid
  <2>3. SelectorSaid' = SelectorSaid
    BY <2>1, <2>2, SelectorSame
  <2>4. TypeOf(input', (p + 1) - 1) = "whitespace"
    <3>1. (p + 1) - 1 = p /\ p \in 1 .. p + 1
      BY <2>2
    <3>2. TypeOf(input', p) = TypeOf(input, p)
      BY <2>1, <3>1 DEF Agree
    <3> QED
      BY <1>2, <1>4, <3>1, <3>2
  <2>5. SelectorAt(p + 1)'
    BY <1>4, <2>2, <2>3, <2>4 DEF SelectorAt
  <2> QED
    BY <1>4, <2>5, Skips
<1> QED
  BY <1>3, <1>4 DEF ParseSelector, Accept, Goes

\* A term, or the fact of a remember.
LEMMA ReadsTerm ==
  ASSUME TokensInv, QueryInv, NEW p \in Nat, ReadingAt(p), Shift, UNCHANGED origin,
         mode \in {"terms", "phrase"}, mode' \in {"terms", "clauses"}, cur.type \in {"literal", "phrase"},
         node' = [node EXCEPT !["terms"] = Append(node["terms"], cur)]
  PROVE  TokensInv' /\ ReadingAt(p + 1)'
<1>1. /\ WindowAt(p) /\ p >= 3 /\ node.selector = SelectorSaid
      /\ TypeOf(input, p - 1) \in {"whitespace", "literal", "phrase"}
  BY DEF ReadingAt, SelectorAt
<1>2. ReadTo(node, input, p - 1)
  BY DEF ReadingAt, Done
<1>3. /\ p - 1 \in Nat /\ (p - 1) + 1 = p /\ (p + 1) - 1 = p
      /\ cur = input[p] /\ TypeOf(input, p) = cur.type /\ TypeOf(input, p + 1) = peek.type
  BY <1>1, WindowSays
<1>4. /\ node'["terms"] = Append(node["terms"], cur) /\ node'["selector"] = node["selector"]
      /\ \A k \in ClauseWords : node'[k] = node[k]
  BY FieldNames DEF QueryInv, ClauseWords, Anchors, Modifiers
<1>5. peek.type # "colon" => ReadTo(node', input, p)
  <2> SUFFICES ASSUME peek.type # "colon" PROVE ReadTo(node', input, p)
    OBVIOUS
  <2>1. TermAtPlace(input, (p - 1) + 1)
    BY <1>1, <1>3 DEF TermAtPlace, Words
  <2>2. node'.terms = Append(node.terms, input[(p - 1) + 1])
    BY <1>3, <1>4
  <2>3. ReadTo(node', input, (p - 1) + 1)
    BY <1>2, <1>3, <1>4, <2>1, <2>2, ReadTerm
  <2> QED
    BY <1>3, <2>3
<1>6. cur' = peek
  BY DEF Shift
<1>7. Agree(input, input', p + 1)
  BY <1>1, Shifts
<1>8. SelectorAt(p + 1)'
  <2>1. SelectorSaid' = SelectorSaid
    BY <1>1, <1>7, SelectorSame
  <2>2. TypeOf(input', (p + 1) - 1) = cur.type
    <3>1. p \in 1 .. p + 1
      BY <1>1
    <3> QED
      BY <1>3, <1>7, <3>1 DEF Agree
  <2> QED
    BY <1>1, <1>4, <2>1, <2>2 DEF SelectorAt
<1>9. ~Stray(input, p)
  BY <1>1, QuietTokens
<1>10. p = Done(p + 1)' /\ ClauseAt(p + 1)' /\ p \in 0 .. p /\ cur.type # "eol"
       /\ mode' \notin {"parsed", "bound", "rejected"}
  BY DEF Done, ClauseAt
<1> QED
  BY <1>5, <1>6, <1>8, <1>9, <1>10, Advance

LEMMA ReadsTerms ==
  ASSUME TokensInv, QueryInv, NEW p \in Nat, ReadingAt(p), ParsePhrase \/ ParseTerms, ~Reject
  PROVE  TokensInv' /\ (ReadingAt(p)' \/ ReadingAt(p + 1)')
<1>1. WindowAt(p) /\ SelectorAt(p)
  BY DEF ReadingAt
<1>2. CASE ParsePhrase
  <2>1. /\ mode = "phrase" /\ cur.type = "phrase" /\ Shift /\ UNCHANGED origin
        /\ mode' = "clauses" /\ node' = [node EXCEPT !["terms"] = <<cur>>]
    BY <1>2 DEF ParsePhrase, Accept, Goes
  <2>2. node["terms"] = <<>>
    BY <1>1, <2>1 DEF SelectorAt
  <2>3. Append(node["terms"], cur) = <<cur>>
    BY <2>2
  <2>4. node' = [node EXCEPT !["terms"] = Append(node["terms"], cur)]
    BY <2>1, <2>3
  <2> QED
    BY <2>1, <2>4, ReadsTerm
<1>3. CASE ParseTerms
  <2>1. mode = "terms" /\ UNCHANGED origin
    BY <1>3 DEF ParseTerms, Accept, Goes
  <2>2. CASE mode' = "clauses" /\ UNCHANGED <<window, node, origin>>
    BY <2>1, <2>2, Stays
  <2>3. CASE cur.type = "whitespace" /\ mode' = "terms" /\ Shift /\ UNCHANGED node
    <3>1. Agree(input, input', p + 1) /\ TypeOf(input, p) = "whitespace" /\ p >= 3
          /\ (p + 1) - 1 = p /\ p \in 1 .. p + 1 /\ node.selector = SelectorSaid
      BY <1>1, <2>1, <2>3, Shifts, WindowSays DEF SelectorAt
    <3>2. SelectorSaid' = SelectorSaid
      BY <3>1, SelectorSame
    <3>3. TypeOf(input', (p + 1) - 1) = "whitespace"
      BY <3>1 DEF Agree
    <3>4. SelectorAt(p + 1)'
      BY <2>3, <3>1, <3>2, <3>3 DEF SelectorAt
    <3> QED
      BY <2>1, <2>3, <3>4, Skips
  <2>4. CASE /\ IsTerm(cur) /\ mode' = "terms" /\ Shift
             /\ node' = [node EXCEPT !["terms"] = Append(node["terms"], cur)]
    BY <2>1, <2>4, ReadsTerm DEF IsTerm
  <2> QED
    BY <1>3, <2>2, <2>3, <2>4 DEF ParseTerms, Accept, Goes
<1> QED
  BY <1>2, <1>3

\* Past the opening the selector is read, and stays read.
LEMMA SelectorKept ==
  ASSUME TokensInv, NEW p \in Nat, ReadingAt(p), cur.type # "eol", Shift, UNCHANGED origin,
         mode \in {"terms", "phrase", "clauses", "separator", "value", "param", "tail"},
         mode' \in {"clauses", "separator", "value", "param", "tail"},
         node'.selector = node.selector
  PROVE  SelectorAt(p + 1)' /\ p >= 3
<1>1. WindowAt(p) /\ p >= 3 /\ node.selector = SelectorSaid
  BY DEF ReadingAt, SelectorAt
<1>2. SelectorSaid' = SelectorSaid
  BY <1>1, Shifts, SelectorSame
<1> QED
  BY <1>1, <1>2 DEF SelectorAt

LEMMA TakesClauses == ASSUME NEW k, Takes(k) PROVE k \in ClauseWords
  BY DEF Takes, ClauseWords

\* A keyword, with which the next clause begins.
LEMMA ReadsClause ==
  ASSUME TokensInv, NEW p \in Nat, ReadingAt(p), ParseClause, ~Reject
  PROVE  TokensInv' /\ (ReadingAt(p)' \/ ReadingAt(p + 1)')
<1>1. WindowAt(p) /\ SelectorAt(p) /\ mode = "clauses" /\ UNCHANGED origin
  BY DEF ReadingAt, ParseClause, Accept
<1>2. CASE mode' = "finish" /\ IsEndOfLine(cur) /\ UNCHANGED <<window, node, origin>>
  BY <1>1, <1>2, Stays DEF IsEndOfLine
<1>3. CASE cur.type = "whitespace" /\ mode' = "clauses" /\ Shift /\ UNCHANGED node
  <2>1. SelectorAt(p + 1)'
    BY <1>1, <1>3, SelectorKept
  <2> QED
    BY <1>1, <1>3, <2>1, Skips
<1>4. CASE Takes(cur.type) /\ Shift /\ mode' = "separator" /\ key' = cur /\ UNCHANGED node
  <2>1. cur.type \in ClauseWords /\ cur.type \notin {"eol", "colon"}
    BY <1>4, TakesClauses DEF ClauseWords, Anchors, Modifiers
  <2>2. SelectorAt(p + 1)' /\ p >= 3
    BY <1>1, <1>4, <2>1, SelectorKept
  <2>3. Agree(input, input', p + 1) /\ cur = input[p] /\ (p + 1) - 1 = p /\ p \in 1 .. p + 1
        /\ p + 1 > 3
    BY <1>1, <1>4, <2>1, <2>2, Shifts, WindowSays
  <2>4. key' = input'[(p + 1) - 1]
    BY <1>4, <2>3 DEF Agree
  <2>5. ClauseAt(p + 1)'
    BY <1>4, <2>3, <2>4 DEF ClauseAt
  <2>6. ReadTo(node', input, p - 1)
    BY <1>1, <1>4, <2>1 DEF ReadingAt, Done
  <2>7. p - 1 = Done(p + 1)' /\ p - 1 \in 0 .. p
    BY <1>4, <2>2 DEF Done
  <2>8. ~Stray(input, p)
    BY <1>1, <2>1, QuietTokens
  <2>9. mode' \notin {"parsed", "bound", "rejected"}
    BY <1>4
  <2> QED
    BY <1>1, <1>4, <2>1, <2>2, <2>5, <2>6, <2>7, <2>8, <2>9, Advance
<1> QED
  BY <1>1, <1>2, <1>3, <1>4 DEF ParseClause, Accept, Goes

LEMMA ReadsSeparator ==
  ASSUME TokensInv, NEW p \in Nat, ReadingAt(p), ParseSeparator, ~Reject
  PROVE  TokensInv' /\ ReadingAt(p + 1)'
<1>1. /\ WindowAt(p) /\ mode = "separator" /\ UNCHANGED <<origin, node, key>>
      /\ cur.type = "colon" /\ Shift /\ mode' = "value"
  BY DEF ReadingAt, ParseSeparator, Accept, Goes
<1>2. SelectorAt(p + 1)' /\ p >= 3 /\ key = input[p - 1] /\ p > 3
  BY <1>1, SelectorKept DEF ReadingAt, ClauseAt
<1>3. /\ Agree(input, input', p + 1) /\ TypeOf(input, p) = "colon"
      /\ (p + 1) - 1 = p /\ (p + 1) - 2 = p - 1 /\ p \in 1 .. p + 1 /\ p - 1 \in 1 .. p + 1
  BY <1>1, <1>2, Shifts, WindowSays
<1>4. key' = input'[(p + 1) - 2] /\ TypeOf(input', (p + 1) - 1) = "colon"
  BY <1>1, <1>2, <1>3 DEF Agree
<1>5. ClauseAt(p + 1)'
  BY <1>1, <1>2, <1>4 DEF ClauseAt
<1>6. ReadTo(node', input, p - 2)
  BY <1>1 DEF ReadingAt, Done
<1>7. p - 2 = Done(p + 1)' /\ p - 2 \in 0 .. p
  BY <1>1, <1>2 DEF Done
<1>8. ~Stray(input, p) /\ cur.type # "eol" /\ mode' \notin {"parsed", "bound", "rejected"}
  BY <1>1, QuietTokens
<1> QED
  BY <1>1, <1>2, <1>5, <1>6, <1>7, <1>8, Advance

LEMMA QuietSigns ==
  ASSUME NEW text, NEW m, TypeOf(text, m) \in {"colon", "dollar"}
  PROVE  Quiet(text, m)
  BY DEF Quiet, TermAtPlace, ClauseAtPlace, ClauseWords, Words, Keywords, Commands, PrefixWords,
     Anchors, Modifiers

\* A value, with which the clause ends.
LEMMA ReadsField ==
  ASSUME TokensInv, NEW p \in Nat, ReadingAt(p), Shift, UNCHANGED origin, cur.type # "eol",
         mode \in {"value", "param"}, mode' = "clauses",
         NEW k \in ClauseWords, k = key.type, mode = "param" <=> k = "vec",
         node'.selector = node.selector, node'.terms = node.terms,
         node'[k] = Append(node[k], cur), \A c \in ClauseWords \ {k} : node'[c] = node[c],
         k = "vec" => cur.type = "literal"
  PROVE  TokensInv' /\ ReadingAt(p + 1)'
<1>1. WindowAt(p) /\ SelectorAt(p + 1)' /\ p > 3
  BY SelectorKept DEF ReadingAt, ClauseAt
<1>2. /\ cur = input[p] /\ TypeOf(input, p) = cur.type /\ TypeOf(input, p + 1) = peek.type
      /\ DOMAIN input = 1 .. Len(input) /\ p <= Len(input)
  BY <1>1, WindowSays DEF WindowAt, TokensInv
<1>3. /\ TypeOf(input, p - Behind(k)) = k /\ TypeOf(input, p - Behind(k) + 1) = "colon"
      /\ \A i \in p - Behind(k) + 1 .. p - 1 : TypeOf(input, i) \in {"colon", "dollar"}
      /\ TypeOf(input, p - 1) \in {"colon", "dollar"} /\ (k # "vec" => TypeOf(input, p - 1) = "colon")
  <2>1. CASE mode = "value"
    <3>1. Behind(k) = 2 /\ key = input[p - 2] /\ TypeOf(input, p - 1) = "colon"
      BY <2>1 DEF ReadingAt, ClauseAt, Behind
    <3>2. p - 2 \in DOMAIN input /\ p - 2 + 1 = p - 1 /\ \A i \in p - 1 .. p - 1 : i = p - 1
      BY <1>1, <1>2
    <3> QED
      BY <3>1, <3>2 DEF TypeOf
  <2>2. CASE mode = "param"
    <3>1. /\ Behind(k) = 3 /\ key = input[p - 3] /\ k = "vec"
          /\ TypeOf(input, p - 2) = "colon" /\ TypeOf(input, p - 1) = "dollar"
      BY <2>2 DEF ReadingAt, ClauseAt, Behind
    <3>2. p - 3 \in DOMAIN input /\ p - 3 + 1 = p - 2 /\ \A i \in p - 2 .. p - 1 : i = p - 1 \/ i = p - 2
      BY <1>1, <1>2
    <3> QED
      BY <3>1, <3>2 DEF TypeOf
  <2> QED
    BY <2>1, <2>2
<1>4. ~Stray(input, p) /\ (peek.type # "colon" => Quiet(input, p))
  BY <1>1, <1>3, QuietTokens
<1>5. ASSUME peek.type # "colon" PROVE ReadTo(node', input, p)
  <2> DEFINE m == p - 1 - Behind(k)
  <2>1. m \in Nat /\ m + 1 = p - Behind(k) /\ m + 1 + Behind(k) = p /\ m + 2 = p - Behind(k) + 1
    BY <1>1, BehindIs
  <2>2. m = Done(p)
    BY <2>1 DEF Done, Behind
  <2>3. ReadTo(node, input, m)
    BY <2>2 DEF ReadingAt
  <2> HIDE DEF m
  <2>4. ClauseAtPlace(input, k, m + 1)
    BY <1>3, <2>1 DEF ClauseAtPlace
  <2>5. \A i \in m + 2 .. m + 1 + Behind(k) : Quiet(input, i)
    <3> SUFFICES ASSUME NEW i \in m + 2 .. m + 1 + Behind(k) PROVE Quiet(input, i)
      OBVIOUS
    <3>1. i = p \/ i \in p - Behind(k) + 1 .. p - 1
      BY <2>1, BehindIs
    <3> QED
      BY <1>3, <1>4, <1>5, <3>1, QuietSigns
  <2>6. node'[k] = Append(node[k], input[m + 1 + Behind(k)])
    BY <1>2, <2>1
  <2>7. ReadTo(node', input, m + 1 + Behind(k))
    BY <2>1, <2>3, <2>4, <2>5, <2>6, ReadClause
  <2> QED
    BY <2>1, <2>7
<1>6. cur' = peek
  BY DEF Shift
<1>7. p = Done(p + 1)' /\ p \in 0 .. p /\ ClauseAt(p + 1)' /\ mode' \notin {"parsed", "bound", "rejected"}
  BY DEF Done, ClauseAt
<1> QED
  BY <1>1, <1>4, <1>5, <1>6, <1>7, Advance

LEMMA ReadsValue ==
  ASSUME TokensInv, NodeInv, QueryInv, NEW p \in Nat, ReadingAt(p), ParseValue, ~Reject
  PROVE  TokensInv' /\ ReadingAt(p + 1)'
<1> DEFINE k == key.type
<1>1. /\ mode = "value" /\ Reads(k) /\ k # "vec" /\ Shift /\ UNCHANGED origin /\ mode' = "clauses"
      /\ node' = [node EXCEPT ![k] = IF k \in Anchors THEN Append(node[k], cur) ELSE <<cur>>,
                              !["anchors"] = IF k \in Anchors THEN Append(node["anchors"], k)
                                             ELSE node["anchors"]]
  BY FieldNames DEF ParseValue, Accept, Goes, QueryInv
<1>2. Takes(k)
  BY <1>1 DEF NodeInv
<1>3. k \in ClauseWords /\ k \in DOMAIN EmptyNode
  BY <1>2, TakesClauses, FieldNames DEF ClauseWords, Anchors, Modifiers
<1>4. k \notin Anchors => node[k] = <<>>
  BY <1>1, <1>2 DEF Takes
<1>5. node = [f \in DOMAIN EmptyNode |-> node[f]]
  BY DEF QueryInv
<1>6. cur.type # "eol"
  <2>1. CASE k \in Anchors
    BY <1>1, <2>1 DEF Reads, IsValue, IsKeyword, Keywords, Commands, PrefixWords, Anchors, Modifiers
  <2>2. CASE k \notin Anchors
    <3>1. cur.literal \in Numeric /\ cur.type # "illegal"
      BY <1>1, <2>2 DEF Reads, IsNumber, IsTime, Numeric
    <3> QED
      BY <3>1 DEF TokensInv, Readable
  <2> QED
    BY <2>1, <2>2
<1> HIDE DEF k
<1>7. /\ node'["selector"] = node["selector"] /\ node'["terms"] = node["terms"]
      /\ node'[k] = IF k \in Anchors THEN Append(node[k], cur) ELSE <<cur>>
      /\ \A c \in ClauseWords \ {k} : node'[c] = node[c]
  BY <1>1, <1>3, <1>5, FieldNames DEF ClauseWords, Anchors, Modifiers
<1>8. node'[k] = Append(node[k], cur)
  <2>1. Append(<<>>, cur) = <<cur>>
    OBVIOUS
  <2> QED
    BY <1>4, <1>7, <2>1
<1> QED
  BY <1>1, <1>3, <1>6, <1>7, <1>8, ReadsField DEF k

LEMMA ReadsVec ==
  ASSUME TokensInv, NodeInv, QueryInv, NEW p \in Nat, ReadingAt(p), ParseVec, ~Reject
  PROVE  TokensInv' /\ ReadingAt(p + 1)'
<1>0. WindowAt(p) /\ UNCHANGED <<origin, key>> /\ Shift /\ key.type = "vec"
  BY DEF ReadingAt, ParseVec, Accept
<1>1. CASE mode = "value" /\ cur.type = "dollar" /\ mode' = "param" /\ UNCHANGED node
  <2>1. SelectorAt(p + 1)' /\ key = input[p - 2] /\ TypeOf(input, p - 1) = "colon" /\ p > 3
    BY <1>0, <1>1, SelectorKept DEF ReadingAt, ClauseAt
  <2>2. /\ Agree(input, input', p + 1) /\ TypeOf(input, p) = "dollar"
        /\ (p + 1) - 1 = p /\ (p + 1) - 2 = p - 1 /\ (p + 1) - 3 = p - 2
        /\ p \in 1 .. p + 1 /\ p - 1 \in 1 .. p + 1 /\ p - 2 \in 1 .. p + 1
    BY <1>0, <1>1, <2>1, Shifts, WindowSays
  <2>3. /\ key' = input'[(p + 1) - 3] /\ TypeOf(input', (p + 1) - 2) = "colon"
        /\ TypeOf(input', (p + 1) - 1) = "dollar"
    BY <1>0, <2>1, <2>2 DEF Agree
  <2>4. ClauseAt(p + 1)'
    BY <1>0, <1>1, <2>1, <2>3 DEF ClauseAt
  <2>5. ReadTo(node', input, p - 3)
    BY <1>1 DEF ReadingAt, Done
  <2>6. p - 3 = Done(p + 1)' /\ p - 3 \in 0 .. p
    BY <1>1, <2>1 DEF Done
  <2>7. ~Stray(input, p) /\ cur.type # "eol" /\ mode' \notin {"parsed", "bound", "rejected"}
    BY <1>0, <1>1, QuietTokens
  <2> QED
    BY <1>0, <2>1, <2>4, <2>5, <2>6, <2>7, Advance
<1>2. CASE /\ mode = "param" /\ cur.type = "literal" /\ mode' = "clauses"
           /\ node' = [node EXCEPT !["vec"] = <<cur>>]
  <2>1. node["vec"] = <<>>
    BY <1>0, <1>2 DEF NodeInv, Takes, Anchors, Modifiers
  <2>2. /\ node'["selector"] = node["selector"] /\ node'["terms"] = node["terms"]
        /\ node'["vec"] = <<cur>> /\ \A c \in ClauseWords \ {"vec"} : node'[c] = node[c]
    BY <1>2, FieldNames DEF QueryInv, ClauseWords, Anchors, Modifiers
  <2>3. node'["vec"] = Append(node["vec"], cur) /\ "vec" \in ClauseWords
    BY <2>1, <2>2 DEF ClauseWords
  <2> QED
    BY <1>0, <1>2, <2>2, <2>3, ReadsField
<1> QED
  BY <1>1, <1>2 DEF ParseVec, Accept, Goes

LEMMA ReadsEnd ==
  ASSUME TokensInv, NEW p \in Nat, ReadingAt(p), Finish \/ ParseTail \/ Bind, ~Reject
  PROVE  TokensInv' /\ (ReadingAt(p)' \/ ReadingAt(p + 1)')
<1>1. CASE /\ UNCHANGED <<window, node, origin>>
           /\ \/ mode = "finish" /\ mode' = "tail"
              \/ mode = "tail" /\ mode' = "parsed" /\ cur.type = "eol"
              \/ mode = "parsed" /\ mode' = "bound"
  <2>1. mode' \in {"parsed", "bound"} => cur.type = "eol"
    BY <1>1 DEF ReadingAt
  <2> QED
    BY <1>1, <2>1, Stays
<1>2. CASE mode = "tail" /\ cur.type \in {"newline", "whitespace"} /\ mode' = "tail" /\ Shift
           /\ UNCHANGED <<node, origin>>
  <2>1. SelectorAt(p + 1)'
    BY <1>2, SelectorKept
  <2> QED
    BY <1>2, <2>1, Skips
<1> QED
  BY <1>1, <1>2 DEF Finish, ParseTail, Bind, Accept, Goes

-----------------------------------------------------------------------------
(* Sequences of sequences.                                                 *)

LEMMA Flattens ==
  ASSUME NEW D, NEW ss \in Seq(Seq(D))
  PROVE  \E g \in [0 .. Len(ss) -> Seq(D)] :
            /\ g[0] = <<>> /\ \A k \in 1 .. Len(ss) : k - 1 \in 0 .. Len(ss) /\ g[k] = g[k - 1] \o ss[k]
            /\ FlattenSeq(ss) = g[Len(ss)]
<1> DEFINE n == Len(ss)
           F == [k \in 1 .. n |-> [d \in Seq(D) |-> d \o ss[k]]]
           Loop(f) == [i \in 1 .. n |-> IF i = 1 THEN ss[i] ELSE f[i - 1] \o ss[i]]
           flat == CHOOSE f : f = Loop(f)
<1>0. n \in Nat /\ ss \in [1 .. n -> Seq(D)]
  OBVIOUS
<1>1. FlattenSeq(ss) = IF n = 0 THEN ss ELSE flat[n]
  BY DEF FlattenSeq
<1>2. n = 0 => ss = <<>>
  OBVIOUS
<1> HIDE DEF n
<1>3. ASSUME NEW d \in Seq(D), NEW k \in 1 .. n PROVE F[k][d] = d \o ss[k] /\ F[k][d] \in Seq(D)
  <2>1. ss[k] \in Seq(D) /\ F[k][d] = d \o ss[k]
    BY <1>0
  <2> HIDE DEF F
  <2> QED
    BY <2>1
<1>4. Turns(F, Seq(D), n) /\ <<>> \in Seq(D)
  BY <1>3 DEF Turns
<1> HIDE DEF F
<1>5. PICK g : Runs(g, F, <<>>, Seq(D), n)
  BY <1>0, <1>4, LoopRuns
<1>6. /\ g \in [0 .. n -> Seq(D)] /\ g[0] = <<>>
      /\ \A k \in 1 .. n : k - 1 \in 0 .. n /\ g[k] = g[k - 1] \o ss[k]
  BY <1>3, <1>5 DEF Runs
<1>7. flat = Loop(flat)
  <2> DEFINE f == [i \in 1 .. n |-> g[i]]
  <2>1. \A i \in 1 .. n : f[i] = IF i = 1 THEN ss[i] ELSE f[i - 1] \o ss[i]
    <3> SUFFICES ASSUME NEW i \in 1 .. n PROVE g[i] = IF i = 1 THEN ss[i] ELSE f[i - 1] \o ss[i]
      OBVIOUS
    <3>1. g[i] = g[i - 1] \o ss[i]
      BY <1>6
    <3>2. CASE i = 1
      <4>1. g[i - 1] = <<>> /\ ss[i] \in Seq(D)
        BY <1>0, <1>6, <3>2
      <4> QED
        BY <3>1, <3>2, <4>1
    <3>3. CASE i # 1
      <4>1. i - 1 \in 1 .. n
        BY <1>0, <3>3
      <4> QED
        BY <3>1, <3>3, <4>1
    <3> QED
      BY <3>2, <3>3
  <2>2. f = Loop(f)
    <3>1. f = [i \in 1 .. n |-> f[i]]
      OBVIOUS
    <3> HIDE DEF f
    <3> QED
      BY <2>1, <3>1
  <2> HIDE DEF Loop, f
  <2> QED
    BY <2>2
<1> HIDE DEF flat
<1>8. \A i \in 1 .. n : flat[i] = IF i = 1 THEN ss[i] ELSE flat[i - 1] \o ss[i]
  <2>1. \A i \in 1 .. n : flat[i] = Loop(flat)[i]
    BY <1>7
  <2> QED
    BY <2>1
<1> HIDE DEF Loop
<1> DEFINE U == {i \in 0 .. n : i > 0 => flat[i] = g[i]}
<1>9. 0 \in U
  BY <1>0
<1>10. ASSUME NEW k \in 0 .. n - 1, k \in U PROVE k + 1 \in U
  <2>1. k + 1 \in 1 .. n /\ (k + 1) - 1 = k
    BY <1>0
  <2>2. g[k + 1] = g[k] \o ss[k + 1]
    BY <1>6, <2>1
  <2>3. CASE k = 0
    <3>1. g[k] = <<>> /\ ss[k + 1] \in Seq(D)
      BY <1>0, <1>6, <2>1, <2>3
    <3>2. flat[k + 1] = ss[k + 1]
      BY <1>8, <2>1, <2>3
    <3>3. g[k + 1] = ss[k + 1]
      BY <2>2, <3>1
    <3> QED
      BY <2>1, <3>2, <3>3, <1>0
  <2>4. CASE k # 0
    <3>1. k > 0 /\ k + 1 # 1
      BY <1>0, <2>4
    <3>2. flat[k] = g[k]
      BY <1>10, <3>1
    <3>3. flat[k + 1] = flat[k] \o ss[k + 1]
      BY <1>8, <2>1, <3>1
    <3>4. flat[k + 1] = g[k + 1]
      BY <2>2, <3>2, <3>3
    <3>5. k + 1 \in 0 .. n
      BY <1>0
    <3> QED
      BY <3>4, <3>5
  <2> QED
    BY <2>3, <2>4
<1>11. n > 0 => flat[n] = g[n]
  <2> HIDE DEF U
  <2>1. \A m \in 0 .. n : m \in U
    BY <1>0, <1>9, <1>10, Induction
  <2> QED
    BY <1>0, <2>1 DEF U
<1>12. FlattenSeq(ss) = g[n]
  BY <1>0, <1>1, <1>2, <1>6, <1>11
<1> QED
  BY <1>6, <1>12 DEF n

\* Pieces of w each are found again at multiples of w.
LEMMA FlatShape ==
  ASSUME NEW D, NEW ss \in Seq(Seq(D)), NEW w \in {2, 4}, \A i \in 1 .. Len(ss) : Len(ss[i]) = w
  PROVE  /\ FlattenSeq(ss) \in Seq(D) /\ Len(FlattenSeq(ss)) = w * Len(ss)
         /\ \A i \in 1 .. Len(ss), j \in 1 .. w : FlattenSeq(ss)[w * (i - 1) + j] = ss[i][j]
<1> DEFINE n == Len(ss)
           Laid(s, m) == /\ Len(s) = w * m
                         /\ \A i \in 1 .. m, j \in 1 .. w : s[w * (i - 1) + j] = ss[i][j]
<1>0. n \in Nat /\ \A i \in 1 .. n : ss[i] \in Seq(D) /\ Len(ss[i]) = w
  OBVIOUS
<1>1. PICK g \in [0 .. n -> Seq(D)] :
          /\ g[0] = <<>> /\ \A k \in 1 .. n : k - 1 \in 0 .. n /\ g[k] = g[k - 1] \o ss[k]
          /\ FlattenSeq(ss) = g[n]
  BY Flattens
<1> HIDE DEF n
<1> DEFINE U == {m \in 0 .. n : Laid(g[m], m)}
<1>2. 0 \in U
  <2>1. Len(g[0]) = w * 0 /\ \A i \in 1 .. 0 : FALSE
    BY <1>1
  <2> QED
    BY <1>0, <2>1
<1>3. ASSUME NEW m \in 0 .. n - 1, m \in U PROVE m + 1 \in U
  <2> DEFINE s == g[m]
             t == ss[m + 1]
  <2>1. m + 1 \in 1 .. n /\ (m + 1) - 1 = m /\ m \in Nat /\ m \in 0 .. n
    BY <1>0
  <2>2. g[m + 1] = s \o t /\ s \in Seq(D) /\ t \in Seq(D) /\ Len(t) = w /\ Laid(s, m)
    BY <1>0, <1>1, <1>3, <2>1
  <2> HIDE DEF s, t
  <2>3. /\ Len(g[m + 1]) = Len(s) + w
        /\ \A i \in 1 .. Len(s) : g[m + 1][i] = s[i]
        /\ \A i \in 1 .. w : g[m + 1][Len(s) + i] = t[i]
    <3>1. /\ Len(s \o t) = Len(s) + Len(t)
          /\ \A i \in 1 .. Len(s) : (s \o t)[i] = s[i]
          /\ \A i \in 1 .. Len(t) : (s \o t)[Len(s) + i] = t[i]
      <4>1. s \in Seq(D) /\ t \in Seq(D)
        BY <2>2
      <4> HIDE DEF Laid, U
      <4> QED
        BY <4>1, ConcatFacts
    <3>2. g[m + 1] = s \o t /\ Len(t) = w
      BY <2>2
    <3> QED
      BY <3>1, <3>2
  <2>4. Len(s) = w * m /\ \A i \in 1 .. m, j \in 1 .. w : s[w * (i - 1) + j] = ss[i][j]
    BY <2>2
  <2>5. Len(g[m + 1]) = w * (m + 1)
    BY <2>1, <2>3, <2>4
  <2>6. ASSUME NEW i \in 1 .. m + 1, NEW j \in 1 .. w PROVE g[m + 1][w * (i - 1) + j] = ss[i][j]
    <3>1. CASE i = m + 1
      BY <2>1, <2>3, <2>4, <3>1 DEF t
    <3>2. CASE i \in 1 .. m
      <4>1. w * (i - 1) + j \in 1 .. Len(s)
        BY SMTT(30), <2>1, <2>4, <3>2
      <4> QED
        BY <2>3, <2>4, <3>2, <4>1
    <3> QED
      BY <2>1, <3>1, <3>2
  <2> QED
    BY <2>1, <2>5, <2>6, <1>0
<1>4. Laid(g[n], n)
  <2> HIDE DEF U
  <2>1. \A m \in 0 .. n : m \in U
    BY <1>0, <1>2, <1>3, Induction
  <2>2. n \in U
    BY <1>0, <2>1
  <2> QED
    BY <2>2 DEF U
<1>5. n \in 0 .. n
  BY <1>0
<1> QED
  BY <1>0, <1>1, <1>4, <1>5 DEF n

-----------------------------------------------------------------------------
(* What is printed.                                                        *)

\* A text the lexer can read.
Legible(t) == Readable(t) /\ t.type \notin {"eol", "illegal"}
Text(s) == s \in Seq(ToSet(s)) /\ \A t \in ToSet(s) : Legible(t)

LEMMA TextConcat ==
  ASSUME NEW s, NEW t, Text(s), Text(t)
  PROVE  /\ Text(s \o t) /\ Len(s \o t) = Len(s) + Len(t) /\ Len(s) \in Nat /\ Len(t) \in Nat
         /\ \A i \in 1 .. Len(s) : (s \o t)[i] = s[i]
         /\ \A i \in 1 .. Len(t) : (s \o t)[Len(s) + i] = t[i]
<1> DEFINE D == ToSet(s) \cup ToSet(t)
<1>1. s \in Seq(D) /\ t \in Seq(D) /\ \A x \in D : Legible(x)
  <2>1. s \in Seq(ToSet(s)) /\ t \in Seq(ToSet(t))
    BY DEF Text
  <2>2. s \in Seq(ToSet(s) \cup ToSet(t)) /\ t \in Seq(ToSet(t) \cup ToSet(s))
    BY <2>1, SequenceGrows
  <2>3. ToSet(t) \cup ToSet(s) = D
    OBVIOUS
  <2> QED
    BY <2>2, <2>3 DEF Text
<1> HIDE DEF D
<1>2. /\ s \o t \in Seq(D) /\ Len(s \o t) = Len(s) + Len(t) /\ Len(s) \in Nat /\ Len(t) \in Nat
      /\ \A i \in 1 .. Len(s) : (s \o t)[i] = s[i]
      /\ \A i \in 1 .. Len(t) : (s \o t)[Len(s) + i] = t[i]
  BY <1>1, ConcatFacts
<1>3. s \o t \in Seq(ToSet(s \o t)) /\ ToSet(s \o t) \subseteq D
  BY <1>2, OwnElements, ElementsOf
<1> QED
  BY <1>1, <1>2, <1>3 DEF Text

LEMMA TextOne ==
  ASSUME NEW t, Legible(t)
  PROVE  Text(<<t>>) /\ Len(<<t>>) = 1 /\ <<t>>[1] = t
<1>1. ToSet(<<t>>) = {t} /\ <<t>> \in Seq({t})
  BY DEF ToSet
<1> QED
  BY <1>1 DEF Text

LEMMA TextNone == Text(<<>>)
<1>1. ToSet(<<>>) = {} /\ <<>> \in Seq({})
  BY DEF ToSet
<1> QED
  BY <1>1 DEF Text

Texts(ss) == ss \in [1 .. Len(ss) -> {ss[i] : i \in 1 .. Len(ss)}] /\ Len(ss) \in Nat
             /\ \A i \in 1 .. Len(ss) : Text(ss[i])

LEMMA TextsIn ==
  ASSUME NEW ss, Texts(ss)
  PROVE  \E D : ss \in Seq(Seq(D)) /\ \A t \in D : Legible(t)
<1> DEFINE D == UNION {ToSet(ss[i]) : i \in 1 .. Len(ss)}
<1>1. \A t \in D : Legible(t)
  BY DEF Texts, Text
<1>2. ASSUME NEW i \in 1 .. Len(ss) PROVE ss[i] \in Seq(D)
  <2>1. ss[i] \in Seq(ToSet(ss[i])) /\ ToSet(ss[i]) \subseteq D
    BY DEF Texts, Text
  <2> HIDE DEF D
  <2>2. ss[i] \in Seq(ToSet(ss[i]) \cup D) /\ ToSet(ss[i]) \cup D = D
    BY <2>1, SequenceGrows
  <2> QED
    BY <2>2
<1> HIDE DEF D
<1>3. ss \in [1 .. Len(ss) -> Seq(D)] /\ Len(ss) \in Nat
  BY <1>2 DEF Texts
<1>4. ss \in Seq(Seq(D))
  BY <1>3, SeqDef
<1> QED
  BY <1>1, <1>4

LEMMA TextFlat ==
  ASSUME NEW ss, Texts(ss)
  PROVE  /\ Text(FlattenSeq(ss))
         /\ Len(ss) > 0 /\ Len(ss[Len(ss)]) > 0 => Len(FlattenSeq(ss)) > 0
<1>1. PICK D : ss \in Seq(Seq(D)) /\ \A t \in D : Legible(t)
  BY TextsIn
<1>2. PICK g \in [0 .. Len(ss) -> Seq(D)] :
          /\ g[0] = <<>> /\ \A k \in 1 .. Len(ss) : k - 1 \in 0 .. Len(ss) /\ g[k] = g[k - 1] \o ss[k]
          /\ FlattenSeq(ss) = g[Len(ss)]
  BY <1>1, Flattens
<1>3. Len(ss) \in 0 .. Len(ss)
  BY <1>1
<1>4. FlattenSeq(ss) \in Seq(D)
  BY <1>2, <1>3
<1>5. Text(FlattenSeq(ss))
  BY <1>1, <1>4, OwnElements, ElementsOf DEF Text
<1>6. ASSUME Len(ss) > 0, Len(ss[Len(ss)]) > 0 PROVE Len(FlattenSeq(ss)) > 0
  <2> DEFINE n == Len(ss)
  <2>1. n \in 1 .. Len(ss) /\ n - 1 \in 0 .. Len(ss) /\ ss[n] \in Seq(D)
    BY <1>1, <1>3, <1>6
  <2>2. FlattenSeq(ss) = g[n - 1] \o ss[n] /\ g[n - 1] \in Seq(D)
    BY <1>2, <2>1
  <2> HIDE DEF n
  <2>3. Len(g[n - 1] \o ss[n]) = Len(g[n - 1]) + Len(ss[n]) /\ Len(g[n - 1]) \in Nat
    BY <2>1, <2>2, ConcatFacts
  <2>4. Len(ss[n]) > 0 /\ Len(ss[n]) \in Nat
    BY <1>6, <2>1 DEF n
  <2> DEFINE x == Len(g[n - 1] \o ss[n])
             y == Len(g[n - 1])
             z == Len(ss[n])
  <2>6. x = y + z /\ y \in Nat /\ z > 0 /\ z \in Nat
    BY <2>3, <2>4
  <2> HIDE DEF x, y, z
  <2>7. x > 0
    BY <2>6
  <2>5. Len(g[n - 1] \o ss[n]) > 0
    BY <2>7 DEF x
  <2> QED
    BY <2>2, <2>5
<1> QED
  BY <1>5, <1>6

LEMMA BareText == ASSUME NEW l PROVE Text(Bare(l))
<1>1. CASE l \in DOMAIN Split
  BY <1>1, LexemesAssumption DEF Bare, Text, Legible
<1>2. CASE l \notin DOMAIN Split
  <2> DEFINE t == [type |-> IF l \in Keywords THEN l ELSE "literal", literal |-> l]
  <2>1. l \in Keywords => l \notin Numeric /\ l \notin {"eol", "illegal"}
    BY LexemesAssumption DEF Keywords, Commands, PrefixWords, Anchors, Modifiers
  <2>2. Legible(t)
    BY <2>1 DEF Legible, Readable
  <2>3. Bare(l) = <<t>>
    BY <1>2 DEF Bare
  <2> HIDE DEF t
  <2> QED
    BY <2>2, <2>3, TextOne
<1> QED
  BY <1>1, <1>2

LEMMA SignText ==
  ASSUME NEW s \in {"whitespace", "at", "colon", "dollar"}
  PROVE  Legible(Sign(s)) /\ Sign(s).type = s
  BY LexemesAssumption DEF Legible, Readable, Sign

LEMMA ValueText == ASSUME NEW t, NEW text PROVE Text(PrintedValue(t, text))
<1> DEFINE u == [type |-> "phrase", literal |-> text]
<1>1. Legible(u)
  BY DEF Legible, Readable
<1> HIDE DEF u
<1>2. Text(<<u>>)
  BY <1>1, TextOne
<1> QED
  BY <1>2, BareText DEF PrintedValue, u

LEMMA FieldText ==
  ASSUME NEW k \in ClauseWords, NEW t, k = "vec" => Legible(t)
  PROVE  Text(PrintedField(k, t))
<1>1. k = "vec" => Text(PrintedVec(t))
  <2> SUFFICES ASSUME Legible(t) PROVE Text(PrintedVec(t))
    OBVIOUS
  <2>1. Legible(Sign("dollar"))
    BY SignText
  <2>2. Text(<<Sign("dollar")>>) /\ Text(<<t>>)
    BY <2>1, TextOne
  <2>3. PrintedVec(t) = <<Sign("dollar")>> \o <<t>>
    BY DEF PrintedVec
  <2> QED
    BY <2>2, <2>3, TextConcat
<1> QED
  BY <1>1, ValueText, BareText DEF PrintedField, PrintedAnchor, PrintedTime, PrintedNumber

LEMMA TextThree ==
  ASSUME NEW x, NEW y, NEW z, Legible(x), Legible(y), Legible(z)
  PROVE  Text(<<x, y, z>>) /\ Len(<<x, y, z>>) = 3
<1>1. ToSet(<<x, y, z>>) = {x, y, z} /\ <<x, y, z>> \in Seq({x, y, z})
  BY DEF ToSet
<1> QED
  BY <1>1 DEF Text

LEMMA ClauseText ==
  ASSUME NEW k \in ClauseWords, NEW t, k = "vec" => Legible(t)
  PROVE  /\ Text(PrintedClause(k, t)) /\ Len(PrintedClause(k, t)) = 3 + Len(PrintedField(k, t))
         /\ Len(PrintedField(k, t)) \in Nat
<1> DEFINE u == [type |-> k, literal |-> k]
           d == <<Sign("whitespace"), u, Sign("colon")>>
<1>1. Legible(u)
  BY LexemesAssumption DEF Legible, Readable, ClauseWords, Keywords, Anchors, Modifiers
<1>2. PrintedClause(k, t) = d \o PrintedField(k, t)
  BY DEF PrintedClause
<1> HIDE DEF u
<1>3. Text(d) /\ Len(d) = 3
  BY <1>1, SignText, TextThree
<1> HIDE DEF d
<1>4. Text(PrintedField(k, t))
  BY FieldText
<1> DEFINE f == PrintedField(k, t)
<1> HIDE DEF f
<1>5. Text(d) /\ Text(f)
  BY <1>3, <1>4 DEF f
<1>6. Text(d \o f) /\ Len(d \o f) = Len(d) + Len(f) /\ Len(f) \in Nat
  BY <1>5, TextConcat
<1>7. PrintedClause(k, t) = d \o f
  BY <1>2 DEF f
<1> QED
  BY <1>3, <1>6, <1>7 DEF f

LEMMA TermText ==
  ASSUME NEW n, NEW t
  PROVE  LET s == <<Sign("whitespace")>> \o PrintedTerm(n, t)
         IN  Text(s) /\ Len(s) = 1 + Len(PrintedTerm(n, t)) /\ Len(PrintedTerm(n, t)) \in Nat
<1>1. Text(<<Sign("whitespace")>>) /\ Len(<<Sign("whitespace")>>) = 1
  BY SignText, TextOne
<1>2. Text(PrintedTerm(n, t))
  BY ValueText DEF PrintedTerm
<1> QED
  BY <1>1, <1>2, TextConcat

\* The clauses of a node, in the order they are printed.
LEMMA UnderFacts ==
  ASSUME NEW n, NEW k, Len(n[k]) \in Nat, DOMAIN n[k] = 1 .. Len(n[k])
  PROVE  Under(n, k) \in Seq({k}) /\ Len(Under(n, k)) = Len(n[k])
         /\ \A i \in 1 .. Len(n[k]) : Under(n, k)[i] = k
<1>1. Under(n, k) \in [1 .. Len(n[k]) -> {k}]
  BY DEF Under
<1> QED
  BY <1>1, SeqDef

HoldsSeqs(n) ==
    \A k \in Anchors \cup Modifiers \cup {"terms", "vec"} : Len(n[k]) \in Nat /\ DOMAIN n[k] = 1 .. Len(n[k])

LEMMA SeqsHeld == ASSUME NEW n, Holds(n) PROVE HoldsSeqs(n)
<1>1. n["terms"] \in Seq({t \in Tokens : IsTerm(t)})
  BY DEF Holds
<1>2. \A k \in Anchors : n[k] \in Seq({t \in Tokens : t.type \in Words \cup {"phrase"} /\ t.literal # Blank})
  BY DEF Holds
<1>3. \A k \in Modifiers \cup {"vec"} : n[k] \in AtMostOne(Tokens)
  BY SMTT(30) DEF Holds, AtMostOne, Modifiers
<1>4. ASSUME NEW s \in AtMostOne(Tokens) PROVE s \in Seq(Tokens)
  <2>1. ASSUME NEW x \in Tokens PROVE <<x>> \in Seq(Tokens)
    OBVIOUS
  <2>2. <<>> \in Seq(Tokens)
    OBVIOUS
  <2> QED
    BY <2>1, <2>2 DEF AtMostOne
<1> QED
  BY <1>1, <1>2, <1>3, <1>4 DEF HoldsSeqs

LEMMA TimesConcat ==
  ASSUME NEW S, NEW s \in Seq(S), NEW t \in Seq(S), NEW k
  PROVE  Times(s \o t, Len(s \o t), k) = Times(s, Len(s), k) + Times(t, Len(t), k)
<1> DEFINE c == s \o t
           a == Len(s)
           b == Len(t)
           U == {m \in 0 .. b : Times(c, a + m, k) = Times(s, a, k) + Times(t, m, k)}
<1>1. /\ Len(c) = a + b /\ a \in Nat /\ b \in Nat
      /\ \A i \in 1 .. a : c[i] = s[i]
      /\ \A j \in 1 .. b : c[a + j] = t[j]
  BY ConcatFacts
<1> HIDE DEF c, a, b
<1>2. 0 \in U
  <2>1. Times(c, a, k) = Times(s, a, k)
    <3>1. \A i \in 1 .. a : c[i] = s[i]
      BY <1>1
    <3>2. a \in Nat
      BY <1>1
    <3> QED
      BY <3>1, <3>2, TimesSame
  <2>2. Times(t, 0, k) = 0 /\ Times(s, a, k) \in 0 .. a
    BY <1>1, TimesFacts
  <2>3. a + 0 = a /\ Times(s, a, k) + 0 = Times(s, a, k) /\ 0 \in 0 .. b
    BY <1>1, <2>2
  <2> QED
    BY <2>1, <2>2, <2>3
<1>3. ASSUME NEW m \in 0 .. b - 1, m \in U PROVE m + 1 \in U
  <2>0. m \in Nat /\ a + m \in Nat /\ m + 1 \in 1 .. b /\ a + (m + 1) = (a + m) + 1 /\ m + 1 \in 0 .. b
    BY <1>1
  <2>1. Times(c, (a + m) + 1, k) = Times(c, a + m, k) + IF c[(a + m) + 1] = k THEN 1 ELSE 0
    BY <2>0, TimesFacts
  <2>2. Times(t, m + 1, k) = Times(t, m, k) + IF t[m + 1] = k THEN 1 ELSE 0
    BY <2>0, TimesFacts
  <2>3. c[(a + m) + 1] = t[m + 1]
    <3>1. c[a + (m + 1)] = t[m + 1]
      BY <1>1, <2>0
    <3> QED
      BY <2>0, <3>1
  <2>4. Times(c, a + m, k) = Times(s, a, k) + Times(t, m, k)
    BY <1>3
  <2>5. Times(s, a, k) \in Nat /\ Times(t, m, k) \in Nat
    <3>1. Times(s, a, k) \in 0 .. a /\ Times(t, m, k) \in 0 .. m
      BY <1>1, <2>0, TimesFacts
    <3> QED
      BY <3>1
  <2>6. Times(c, a + (m + 1), k) = Times(s, a, k) + Times(t, m + 1, k)
    BY <2>0, <2>1, <2>2, <2>3, <2>4, <2>5
  <2> QED
    BY <2>0, <2>6
<1>4. Times(c, a + b, k) = Times(s, a, k) + Times(t, b, k)
  <2> HIDE DEF U
  <2>1. \A m \in 0 .. b : m \in U
    BY <1>1, <1>2, <1>3, Induction
  <2>2. b \in U
    BY <1>1, <2>1
  <2> QED
    BY <2>2 DEF U
<1> QED
  BY <1>1, <1>4 DEF a, b, c

\* A sequence of one thing holds it as often as it is long.
LEMMA TimesConstant ==
  ASSUME NEW c, NEW s \in Seq({c}), NEW k
  PROVE  Times(s, Len(s), k) = IF c = k THEN Len(s) ELSE 0
<1>1. Len(s) \in Nat /\ \A j \in 1 .. Len(s) : s[j] = c
  OBVIOUS
<1>2. CASE c = k
  <2>1. {j \in 1 .. Len(s) : s[j] = k} = 1 .. Len(s)
    BY <1>1, <1>2
  <2>2. Cardinality(1 .. Len(s)) = Len(s)
    BY <1>1, FS_Interval
  <2> QED
    BY <1>2, <2>1, <2>2 DEF Times
<1>3. CASE c # k
  <2>1. {j \in 1 .. Len(s) : s[j] = k} = {}
    BY <1>1, <1>3
  <2> QED
    BY <1>3, <2>1, FS_EmptySet DEF Times
<1> QED
  BY <1>2, <1>3

\* Two lists of clauses, one printed after the other.
Counted(s, n, K) ==
    /\ s \in Seq(Anchors \cup Modifiers)
    /\ \A k \in Anchors \cup Modifiers : Times(s, Len(s), k) = IF k \in K THEN Len(n[k]) ELSE 0

LEMMA CountedUnder ==
  ASSUME NEW n, HoldsSeqs(n), NEW c \in Anchors \cup Modifiers
  PROVE  Counted(Under(n, c), n, {c})
<1>1. Under(n, c) \in Seq({c}) /\ Len(Under(n, c)) = Len(n[c])
  BY UnderFacts DEF HoldsSeqs
<1>2. \A k : Times(Under(n, c), Len(Under(n, c)), k) = IF c = k THEN Len(n[c]) ELSE 0
  BY <1>1, TimesConstant
<1>3. Under(n, c) \in Seq(Anchors \cup Modifiers)
  <2> DEFINE K == Anchors \cup Modifiers
  <2>1. {c} \subseteq K
    OBVIOUS
  <2> HIDE DEF K
  <2>2. Under(n, c) \in [1 .. Len(n[c]) -> K] /\ Len(n[c]) \in Nat
    BY <1>1, <2>1
  <2>3. Under(n, c) \in Seq(K)
    BY <2>2, SeqDef
  <2> QED
    BY <2>3 DEF K
<1> QED
  BY <1>2, <1>3 DEF Counted

LEMMA CountedBoth ==
  ASSUME NEW s, NEW t, NEW n, HoldsSeqs(n), NEW K, NEW L, K \cap L = {}, Counted(s, n, K), Counted(t, n, L)
  PROVE  Counted(s \o t, n, K \cup L)
<1>1. s \in Seq(Anchors \cup Modifiers) /\ t \in Seq(Anchors \cup Modifiers)
  BY DEF Counted
<1>2. s \o t \in Seq(Anchors \cup Modifiers)
  BY <1>1, ConcatFacts
<1>3. ASSUME NEW k \in Anchors \cup Modifiers
      PROVE  Times(s \o t, Len(s \o t), k) = IF k \in K \cup L THEN Len(n[k]) ELSE 0
  <2>1. Times(s \o t, Len(s \o t), k) = Times(s, Len(s), k) + Times(t, Len(t), k)
    BY <1>1, TimesConcat
  <2>2. /\ Times(s, Len(s), k) = IF k \in K THEN Len(n[k]) ELSE 0
        /\ Times(t, Len(t), k) = IF k \in L THEN Len(n[k]) ELSE 0
        /\ Len(n[k]) \in Nat
    BY DEF Counted, HoldsSeqs
  <2>3. CASE k \in K
    <3>1. k \notin L /\ k \in K \cup L
      BY <2>3
    <3> QED
      BY <2>1, <2>2, <2>3, <3>1
  <2>4. CASE k \notin K
    BY <2>1, <2>2, <2>4
  <2> QED
    BY <2>3, <2>4
<1> QED
  BY <1>2, <1>3 DEF Counted

\* Every clause a node holds is printed once.
LEMMA OrderFacts ==
  ASSUME NEW n, Holds(n), n.kind = "remember" => \A k \in Modifiers : n[k] = <<>>
  PROVE  Counted(ClauseOrder(n), n, Anchors \cup Modifiers)
<1>0. HoldsSeqs(n)
  BY SeqsHeld
<1>1. CASE n.kind = "remember"
  <2>1. ClauseOrder(n) = n["anchors"] /\ n["anchors"] \in Seq(Anchors)
    BY <1>1 DEF ClauseOrder, Holds
  <2>2. \A k \in Anchors : Times(n["anchors"], Len(n["anchors"]), k) = Len(n[k])
    BY DEF Holds
  <2>3. ASSUME NEW k \in Modifiers PROVE Times(n["anchors"], Len(n["anchors"]), k) = 0 /\ Len(n[k]) = 0
    <3>1. {j \in 1 .. Len(n["anchors"]) : n["anchors"][j] = k} = {}
      BY <2>1 DEF Anchors, Modifiers
    <3>2. n[k] = <<>>
      BY <1>1
    <3> QED
      BY <3>1, <3>2, FS_EmptySet DEF Times
  <2>4. n["anchors"] \in Seq(Anchors \cup Modifiers)
    BY <2>1
  <2> QED
    BY <2>1, <2>2, <2>3, <2>4 DEF Counted
<1>2. CASE n.kind # "remember"
  <2> DEFINE a == Under(n, "entity")
             b == Under(n, "topic")
             c == Under(n, "top")
             d == Under(n, "depth")
             e == Under(n, "since")
             f == Under(n, "until")
  <2>1. ClauseOrder(n) = a \o b \o c \o d \o e \o f
    BY <1>2 DEF ClauseOrder
  <2>2. {"entity", "topic"} = Anchors /\ {"top", "depth", "since", "until"} = Modifiers
    BY DEF Anchors, Modifiers
  <2>3. /\ Counted(a, n, {"entity"}) /\ Counted(b, n, {"topic"}) /\ Counted(c, n, {"top"})
        /\ Counted(d, n, {"depth"}) /\ Counted(e, n, {"since"}) /\ Counted(f, n, {"until"})
    BY <1>0, <2>2, CountedUnder
  <2> HIDE DEF a, b, c, d, e, f
  <2>4. Counted(a \o b, n, {"entity", "topic"})
    <3>1. {"entity"} \cap {"topic"} = {} /\ {"entity"} \cup {"topic"} = {"entity", "topic"}
      OBVIOUS
    <3> QED
      BY <1>0, <2>3, <3>1, CountedBoth
  <2>5. Counted(a \o b \o c, n, {"entity", "topic", "top"})
    <3>1. /\ {"entity", "topic"} \cap {"top"} = {}
          /\ {"entity", "topic"} \cup {"top"} = {"entity", "topic", "top"}
      OBVIOUS
    <3> QED
      BY <1>0, <2>3, <2>4, <3>1, CountedBoth
  <2>6. Counted(a \o b \o c \o d, n, {"entity", "topic", "top", "depth"})
    <3>1. /\ {"entity", "topic", "top"} \cap {"depth"} = {}
          /\ {"entity", "topic", "top"} \cup {"depth"} = {"entity", "topic", "top", "depth"}
      OBVIOUS
    <3> QED
      BY <1>0, <2>3, <2>5, <3>1, CountedBoth
  <2>7. Counted(a \o b \o c \o d \o e, n, {"entity", "topic", "top", "depth", "since"})
    <3>1. /\ {"entity", "topic", "top", "depth"} \cap {"since"} = {}
          /\ {"entity", "topic", "top", "depth"} \cup {"since"} = {"entity", "topic", "top", "depth", "since"}
      OBVIOUS
    <3> QED
      BY <1>0, <2>3, <2>6, <3>1, CountedBoth
  <2>8. Counted(a \o b \o c \o d \o e \o f, n, {"entity", "topic", "top", "depth", "since", "until"})
    <3>1. /\ {"entity", "topic", "top", "depth", "since"} \cap {"until"} = {}
          /\ {"entity", "topic", "top", "depth", "since"} \cup {"until"}
               = {"entity", "topic", "top", "depth", "since", "until"}
      OBVIOUS
    <3> QED
      BY <1>0, <2>3, <2>7, <3>1, CountedBoth
  <2>9. {"entity", "topic", "top", "depth", "since", "until"} = Anchors \cup Modifiers
    BY <2>2
  <2> QED
    BY <2>1, <2>8, <2>9
<1> QED
  BY <1>1, <1>2

LEMMA TextsFrom ==
  ASSUME NEW m \in Nat, NEW ss, ss = [i \in 1 .. m |-> ss[i]], \A i \in 1 .. m : Text(ss[i])
  PROVE  Texts(ss) /\ Len(ss) = m
<1> DEFINE S == {ss[i] : i \in 1 .. m}
<1>1. ss \in [1 .. m -> S]
  OBVIOUS
<1> HIDE DEF S
<1>2. Len(ss) = m
  BY <1>1, SeqDef
<1> QED
  BY <1>1, <1>2 DEF Texts, S

TermPart(n) == FlattenSeq(PrintedTerms(n))
ClausePart(n) == FlattenSeq(PrintedClauses(n))
VecPart(n) == IF n.vec = <<>> THEN <<>> ELSE PrintedClause("vec", n.vec[1])
HeadPart(n) == <<[type |-> n.kind, literal |-> n.kind]>>

LEMMA PartTexts ==
  ASSUME NEW n, Whole(n)
  PROVE  /\ Text(HeadPart(n)) /\ Len(HeadPart(n)) = 1 /\ HeadPart(n)[1].type = n.kind
         /\ Text(PrintedSelector(n)) /\ Text(TermPart(n)) /\ Text(ClausePart(n)) /\ Text(VecPart(n))
         /\ Texts(PrintedTerms(n)) /\ Len(PrintedTerms(n)) = Len(n.terms)
         /\ Texts(PrintedClauses(n)) /\ Len(PrintedClauses(n)) = Len(ClauseOrder(n))
<1>0. /\ Holds(n) /\ HoldsSeqs(n) /\ n.kind \in {"recall", "remember"}
      /\ n.kind = "remember" => \A k \in Modifiers : n[k] = <<>>
  BY SeqsHeld DEF Whole
<1>1. Text(HeadPart(n)) /\ Len(HeadPart(n)) = 1 /\ HeadPart(n)[1].type = n.kind
  <2> DEFINE u == [type |-> n.kind, literal |-> n.kind]
  <2>1. Legible(u) /\ u.type = n.kind
    BY <1>0, LexemesAssumption DEF Legible, Readable, Keywords, Commands
  <2> HIDE DEF u
  <2> QED
    BY <2>1, TextOne DEF HeadPart, u
<1>2. Text(PrintedSelector(n))
  <2> DEFINE b == Bare(ToString(n.selector[1]))
  <2>1. Text(<<Sign("at")>>) /\ Text(b)
    BY SignText, TextOne, BareText
  <2>2. PrintedSelector(n) = IF n.selector = <<>> THEN <<>> ELSE <<Sign("at")>> \o b
    BY DEF PrintedSelector
  <2> HIDE DEF b
  <2> QED
    BY <2>1, <2>2, TextConcat, TextNone
<1>3. Texts(PrintedTerms(n)) /\ Len(PrintedTerms(n)) = Len(n.terms)
  <2> DEFINE ss == PrintedTerms(n)
             m == Len(n.terms)
  <2>1. m \in Nat /\ DOMAIN n.terms = 1 .. m
    BY <1>0 DEF HoldsSeqs
  <2>2. ss = [i \in 1 .. m |-> <<Sign("whitespace")>> \o PrintedTerm(n, n.terms[i])]
    BY <2>1 DEF PrintedTerms
  <2> HIDE DEF ss, m
  <2>3. ss = [i \in 1 .. m |-> ss[i]] /\ \A i \in 1 .. m : Text(ss[i])
    BY <2>2, TermText
  <2>4. Texts(ss) /\ Len(ss) = m
    BY <2>1, <2>3, TextsFrom
  <2> QED
    BY <2>4 DEF ss, m
<1>4. Texts(PrintedClauses(n)) /\ Len(PrintedClauses(n)) = Len(ClauseOrder(n))
  <2> DEFINE ss == PrintedClauses(n)
             ks == ClauseOrder(n)
             m == Len(ks)
  <2>1. ks \in Seq(Anchors \cup Modifiers)
    BY <1>0, OrderFacts DEF Counted
  <2>2. ss = [i \in DOMAIN ks |-> PrintedClause(ks[i], n[ks[i]][Times(ks, i, ks[i])])]
    BY DEF PrintedClauses
  <2> HIDE DEF ss, ks
  <2>3. m \in Nat /\ DOMAIN ks = 1 .. m /\ \A i \in 1 .. m : ks[i] \in ClauseWords /\ ks[i] # "vec"
    <3>1. m \in Nat /\ DOMAIN ks = 1 .. m /\ \A i \in 1 .. m : ks[i] \in Anchors \cup Modifiers
      BY <2>1
    <3> QED
      BY <3>1 DEF ClauseWords, Anchors, Modifiers
  <2> HIDE DEF m
  <2>4. ss = [i \in 1 .. m |-> ss[i]] /\ \A i \in 1 .. m : Text(ss[i])
    BY <2>2, <2>3, ClauseText
  <2>5. Texts(ss) /\ Len(ss) = m
    BY <2>3, <2>4, TextsFrom
  <2> QED
    BY <2>5 DEF ss, m, ks
<1>5. Text(VecPart(n))
  <2>1. n.vec # <<>> => Legible(n.vec[1])
    BY <1>0, LexemesAssumption DEF Holds, AtMostOne, Legible
  <2> QED
    BY <2>1, ClauseText, TextNone DEF VecPart, ClauseWords
<1> QED
  BY <1>1, <1>2, <1>3, <1>4, <1>5, TextFlat DEF TermPart, ClausePart

\* Where each part of a printed command is.
LEMMA PartsAt ==
  ASSUME NEW n, Whole(n)
  PROVE  LET text == Printed(n)
             s == 1 + Len(PrintedSelector(n))
             t == s + Len(TermPart(n))
             c == t + Len(ClausePart(n))
         IN /\ Text(text) /\ Len(text) = c + Len(VecPart(n)) /\ text[1] = HeadPart(n)[1]
            /\ {Len(PrintedSelector(n)), Len(TermPart(n)), Len(ClausePart(n)), Len(VecPart(n))} \subseteq Nat
            /\ \A i \in 1 .. Len(PrintedSelector(n)) : text[1 + i] = PrintedSelector(n)[i]
            /\ \A i \in 1 .. Len(TermPart(n)) : text[s + i] = TermPart(n)[i]
            /\ \A i \in 1 .. Len(ClausePart(n)) : text[t + i] = ClausePart(n)[i]
            /\ \A i \in 1 .. Len(VecPart(n)) : text[c + i] = VecPart(n)[i]
<1> DEFINE h == HeadPart(n)
           a == PrintedSelector(n)
           b == TermPart(n)
           d == ClausePart(n)
           e == VecPart(n)
<1>1. Text(h) /\ Len(h) = 1 /\ Text(a) /\ Text(b) /\ Text(d) /\ Text(e)
  BY PartTexts
<1>2. Printed(n) = h \o a \o b \o d \o e
  BY DEF Printed, HeadPart, TermPart, ClausePart, VecPart
<1> HIDE DEF h, a, b, d, e
<1> DEFINE x == h \o a
           y == x \o b
           z == y \o d
           w == z \o e
<1>3. /\ Text(x) /\ Len(x) = 1 + Len(a) /\ Len(a) \in Nat /\ x[1] = h[1]
      /\ \A i \in 1 .. Len(a) : x[1 + i] = a[i]
  <2>1. 1 \in 1 .. Len(h) /\ Text(h) /\ Text(a)
    BY <1>1
  <2>2. /\ Text(x) /\ Len(x) = Len(h) + Len(a) /\ Len(a) \in Nat
        /\ \A i \in 1 .. Len(h) : x[i] = h[i]
        /\ \A i \in 1 .. Len(a) : x[Len(h) + i] = a[i]
    BY <2>1, TextConcat
  <2> HIDE DEF x
  <2> QED
    BY <1>1, <2>1, <2>2
<1> HIDE DEF x
<1>4. /\ Text(y) /\ Len(y) = Len(x) + Len(b) /\ Len(b) \in Nat
      /\ \A i \in 1 .. Len(x) : y[i] = x[i]
      /\ \A i \in 1 .. Len(b) : y[Len(x) + i] = b[i]
  <2>1. Text(x) /\ Text(b)
    BY <1>1, <1>3
  <2> QED
    BY <2>1, TextConcat
<1> HIDE DEF y
<1>5. /\ Text(z) /\ Len(z) = Len(y) + Len(d) /\ Len(d) \in Nat
      /\ \A i \in 1 .. Len(y) : z[i] = y[i]
      /\ \A i \in 1 .. Len(d) : z[Len(y) + i] = d[i]
  <2>1. Text(y) /\ Text(d)
    BY <1>1, <1>4
  <2> QED
    BY <2>1, TextConcat
<1> HIDE DEF z
<1>6. /\ Text(w) /\ Len(w) = Len(z) + Len(e) /\ Len(e) \in Nat
      /\ \A i \in 1 .. Len(z) : w[i] = z[i]
      /\ \A i \in 1 .. Len(e) : w[Len(z) + i] = e[i]
  <2>1. Text(z) /\ Text(e)
    BY <1>1, <1>5
  <2> QED
    BY <2>1, TextConcat
<1>7. Printed(n) = w
  BY <1>2 DEF x, y, z
<1> HIDE DEF w
<1>8. w[1] = h[1] /\ \A i \in 1 .. Len(a) : w[1 + i] = a[i]
  <2>1. \A i \in 1 .. Len(x) : i \in 1 .. Len(y) /\ i \in 1 .. Len(z)
    BY <1>3, <1>4, <1>5, <1>6
  <2>2. \A i \in 1 .. Len(x) : w[i] = x[i]
    BY <1>4, <1>5, <1>6, <2>1
  <2>3. 1 \in 1 .. Len(x) /\ \A i \in 1 .. Len(a) : 1 + i \in 1 .. Len(x)
    BY <1>3
  <2> QED
    BY <1>3, <2>2, <2>3
<1>9. \A i \in 1 .. Len(b) : w[(1 + Len(a)) + i] = b[i]
  <2>1. \A i \in 1 .. Len(b) : Len(x) + i \in 1 .. Len(y) /\ Len(x) + i \in 1 .. Len(z)
    BY <1>3, <1>4, <1>5, <1>6
  <2> QED
    BY <1>3, <1>4, <1>5, <1>6, <2>1
<1>10. \A i \in 1 .. Len(d) : w[Len(y) + i] = d[i]
  <2>1. \A i \in 1 .. Len(d) : Len(y) + i \in 1 .. Len(z)
    BY <1>3, <1>4, <1>5, <1>6
  <2> QED
    BY <1>5, <1>6, <2>1
<1>11. Len(y) = (1 + Len(a)) + Len(b) /\ Len(z) = ((1 + Len(a)) + Len(b)) + Len(d)
  BY <1>3, <1>4, <1>5
<1> QED
  BY <1>3, <1>4, <1>5, <1>6, <1>7, <1>8, <1>9, <1>10, <1>11 DEF h, a, b, d, e

\* Every command has something to print behind its keyword.
LEMMA PrintedIsLong ==
  ASSUME NEW n, Whole(n)
  PROVE  Text(Printed(n)) /\ Len(Printed(n)) \in Nat /\ Len(Printed(n)) >= 2
         /\ Printed(n)[1].type \in {"recall", "remember"}
<1>0. /\ Holds(n) /\ HoldsSeqs(n) /\ n.kind \in {"recall", "remember"}
      /\ n.kind = "remember" => \A k \in Modifiers : n[k] = <<>>
  BY SeqsHeld DEF Whole
<1>1. /\ Texts(PrintedTerms(n)) /\ Len(PrintedTerms(n)) = Len(n.terms)
      /\ Texts(PrintedClauses(n)) /\ Len(PrintedClauses(n)) = Len(ClauseOrder(n))
      /\ HeadPart(n)[1].type = n.kind
  BY PartTexts
<1>2. n.terms # <<>> => Len(TermPart(n)) > 0
  <2> SUFFICES ASSUME n.terms # <<>> PROVE Len(TermPart(n)) > 0
    OBVIOUS
  <2> DEFINE m == Len(n.terms)
             s == <<Sign("whitespace")>> \o PrintedTerm(n, n.terms[m])
  <2>1. m \in Nat /\ DOMAIN n.terms = 1 .. m /\ m > 0
    BY <1>0 DEF HoldsSeqs, Holds
  <2>2. PrintedTerms(n)[m] = s
    BY <2>1 DEF PrintedTerms
  <2>3. Len(s) > 0
    <3>1. Len(s) = 1 + Len(PrintedTerm(n, n.terms[m])) /\ Len(PrintedTerm(n, n.terms[m])) \in Nat
      BY TermText
    <3> QED
      BY <3>1
  <2> HIDE DEF s
  <2> QED
    BY <1>1, <2>1, <2>2, <2>3, TextFlat DEF TermPart
<1>3. NamesAnchors(n) => Len(ClausePart(n)) > 0
  <2> SUFFICES ASSUME NEW k \in Anchors, n[k] # <<>> PROVE Len(ClausePart(n)) > 0
    BY DEF NamesAnchors, Anchors
  <2> DEFINE ks == ClauseOrder(n)
             m == Len(ks)
             s == PrintedClause(ks[m], n[ks[m]][Times(ks, m, ks[m])])
  <2>1. ks \in Seq(Anchors \cup Modifiers) /\ Times(ks, m, k) = Len(n[k])
    BY <1>0, OrderFacts DEF Counted
  <2>2. Len(n[k]) \in Nat /\ DOMAIN n[k] = 1 .. Len(n[k])
    BY <1>0 DEF HoldsSeqs
  <2>3. Len(n[k]) > 0
    <3>1. n[k] \in Seq({t \in Tokens : t.type \in Words \cup {"phrase"} /\ t.literal # Blank})
      BY <1>0 DEF Holds
    <3> QED
      BY <3>1
  <2>4. m \in Nat /\ DOMAIN ks = 1 .. m
    BY <2>1
  <2>5. PrintedClauses(n) = [i \in DOMAIN ks |-> PrintedClause(ks[i], n[ks[i]][Times(ks, i, ks[i])])]
    BY DEF PrintedClauses
  <2> HIDE DEF ks, m
  <2>6. Times(ks, m, k) \in 0 .. m
    BY <2>4, TimesFacts
  <2>7. m > 0 /\ m \in DOMAIN ks
    BY <2>1, <2>3, <2>4, <2>6
  <2>8. PrintedClauses(n)[m] = s /\ ks[m] \in ClauseWords /\ ks[m] # "vec"
    <3>1. ks[m] \in Anchors \cup Modifiers
      BY <2>1, <2>4, <2>7
    <3> QED
      BY <2>5, <2>7, <3>1 DEF ClauseWords, Anchors, Modifiers
  <2>9. Len(s) > 0
    <3> DEFINE t == n[ks[m]][Times(ks, m, ks[m])]
    <3> HIDE DEF t
    <3>1. /\ Len(PrintedClause(ks[m], t)) = 3 + Len(PrintedField(ks[m], t))
          /\ Len(PrintedField(ks[m], t)) \in Nat
      BY <2>8, ClauseText
    <3> QED
      BY <3>1 DEF t
  <2> HIDE DEF s
  <2>10. Len(PrintedClauses(n)) = m
    BY <1>1 DEF m, ks
  <2> QED
    BY <1>1, <2>7, <2>8, <2>9, <2>10, TextFlat DEF ClausePart
<1>4. n.vec # <<>> => Len(VecPart(n)) > 0
  <2> SUFFICES ASSUME n.vec # <<>> PROVE Len(VecPart(n)) > 0
    OBVIOUS
  <2> DEFINE v == n.vec[1]
  <2>1. Legible(v)
    BY <1>0, LexemesAssumption DEF Holds, AtMostOne, Legible
  <2>2. VecPart(n) = PrintedClause("vec", v)
    BY DEF VecPart
  <2> HIDE DEF v
  <2>3. Len(PrintedClause("vec", v)) = 3 + Len(PrintedField("vec", v)) /\ Len(PrintedField("vec", v)) \in Nat
    BY <2>1, ClauseText DEF ClauseWords
  <2> QED
    BY <2>2, <2>3
<1>5. n.terms # <<>> \/ NamesAnchors(n) \/ n.vec # <<>>
  <2>1. CASE n.kind = "recall"
    BY <2>1 DEF Whole, Seeded
  <2>2. CASE n.kind # "recall"
    <3>1. Len(n.terms) = 1
      BY <2>2 DEF Whole, Remembers
    <3>2. 1 \in DOMAIN n.terms
      BY <1>0, <3>1 DEF HoldsSeqs
    <3>3. DOMAIN <<>> = {}
      OBVIOUS
    <3>4. n.terms # <<>>
      BY <3>2, <3>3
    <3> QED
      BY <3>4
  <2> QED
    BY <2>1, <2>2
<1>6. /\ Text(Printed(n)) /\ Printed(n)[1] = HeadPart(n)[1]
      /\ Len(Printed(n)) = 1 + Len(PrintedSelector(n)) + Len(TermPart(n)) + Len(ClausePart(n)) + Len(VecPart(n))
      /\ Len(PrintedSelector(n)) \in Nat /\ Len(TermPart(n)) \in Nat
      /\ Len(ClausePart(n)) \in Nat /\ Len(VecPart(n)) \in Nat
  BY PartsAt
<1>7. Len(TermPart(n)) > 0 \/ Len(ClausePart(n)) > 0 \/ Len(VecPart(n)) > 0
  BY <1>2, <1>3, <1>4, <1>5
<1> QED
  BY <1>0, <1>1, <1>6, <1>7

\* A printed command is read from its start.
LEMMA ReadsPrinted ==
  ASSUME TokensInv, NodeInv, QueryInv, Reparse
  PROVE  TokensInv' /\ ReadingAt(1)' /\ mode' # "rejected"
<1> DEFINE text == Printed(node)
<1>1. /\ mode = "parsed" /\ origin = NoNode /\ origin' = node /\ mode' = "command" /\ node' = EmptyNode
      /\ cur' = text[1] /\ peek' = text[2] /\ tape' = SubSeq(text, 3, Len(text))
      /\ input' = <<text[1], text[2]>>
  BY DEF Reparse, Goes
<1>2. Whole(node)
  BY <1>1 DEF NodeInv, QueryInv, Checked, Whole, Openings
<1>3. Text(text) /\ Len(text) \in Nat /\ Len(text) >= 2 /\ text[1].type \in {"recall", "remember"}
  BY <1>2, PrintedIsLong
<1> HIDE DEF text
<1>4. /\ text \in Seq(ToSet(text)) /\ \A t \in ToSet(text) : Legible(t)
      /\ text[1] \in ToSet(text) /\ text[2] \in ToSet(text)
  <2>1. text \in Seq(ToSet(text)) /\ \A t \in ToSet(text) : Legible(t)
    BY <1>3 DEF Text
  <2>2. 1 \in 1 .. Len(text) /\ 2 \in 1 .. Len(text)
    BY <1>3
  <2> QED
    BY <2>1, <2>2, ElementsOf
<1>5. Legible(text[1]) /\ Legible(text[2])
  BY <1>4
<1>6. tape' \in Seq(ToSet(tape')) /\ ToSet(tape') \subseteq ToSet(text)
  <2> DEFINE D == ToSet(text)
  <2>1. text \in Seq(D)
    BY <1>4
  <2> HIDE DEF D
  <2>2. \A i \in 3 .. Len(text) : text[i] \in D
    BY <2>1
  <2>3. SubSeq(text, 3, Len(text)) \in Seq(D)
    BY <1>3, <2>2, SubSeqProperties
  <2> QED
    BY <1>1, <2>3, OwnElements, ElementsOf DEF D
<1>7. input' \in Seq(ToSet(input')) /\ Len(input') = 2 /\ DOMAIN input' = 1 .. 2
      /\ input'[1] = text[1] /\ input'[2] = text[2]
  <2>1. input' \in Seq({text[1], text[2]}) /\ Len(input') = 2
    BY <1>1
  <2>2. input' \in Seq(ToSet(input'))
    BY <2>1, OwnElements
  <2>3. DOMAIN input' = 1 .. 2
    BY <2>1
  <2> QED
    BY <1>1, <2>1, <2>2, <2>3
<1>8. TokensInv'
  <2>1. origin' # NoNode
    BY <1>1, <1>2 DEF Whole, NoNode
  <2>2. /\ Readable(cur') /\ Readable(peek')
        /\ cur'.type \notin {"eol", "illegal"} /\ peek'.type \notin {"eol", "illegal"}
    BY <1>1, <1>5 DEF Legible
  <2>3. \A t \in ToSet(tape') : Readable(t) /\ t.type \notin {"eol", "illegal"}
    BY <1>4, <1>6 DEF Legible
  <2> QED
    BY <1>6, <1>7, <2>1, <2>2, <2>3 DEF TokensInv, Readable
<1>9. WindowAt(1)'
  BY <1>1, <1>3, <1>7 DEF WindowAt, TypeOf
<1>10. SelectorAt(1)' /\ ClauseAt(1)' /\ Done(1)' = 0
  BY <1>1, FieldNames DEF SelectorAt, ClauseAt, Done
<1>11. ReadTo(node', input', 0)
  BY <1>1, FieldNames, NothingRead DEF ClauseWords, Anchors, Modifiers
<1>12. \A i \in 1 .. 1 - 1 : FALSE
  OBVIOUS
<1> QED
  BY <1>1, <1>8, <1>9, <1>10, <1>11, <1>12 DEF ReadingAt

-----------------------------------------------------------------------------
(* A query that runs is the query that was written.                        *)

LEMMA ReadingInvInit == Init => ReadingInv
<1> SUFFICES ASSUME Init PROVE ReadingInv
  OBVIOUS
<1>1. /\ cur \in Tokens \cup {EOL} /\ peek \in Tokens \cup {EOL} /\ Follows(cur, peek)
      /\ input = <<cur, peek>> /\ mode = "command" /\ node = EmptyNode /\ tape = <<>> /\ origin = NoNode
  BY DEF Init
<1>2. input \in Seq(ToSet(input)) /\ Len(input) = 2 /\ DOMAIN input = 1 .. 2
      /\ input[1] = cur /\ input[2] = peek
  <2>1. input \in Seq({cur, peek}) /\ Len(input) = 2
    BY <1>1
  <2>2. input \in Seq(ToSet(input))
    BY <2>1, OwnElements
  <2> QED
    BY <1>1, <2>1, <2>2
<1>3. TokensInv
  <2>1. Readable(cur) /\ Readable(peek)
    BY <1>1, LexemesAssumption
  <2>2. cur.type \in {"eol", "illegal"} => peek.type = "eol"
    BY <1>1, EOLIs DEF Follows
  <2>3. tape \in Seq(ToSet(tape)) /\ ToSet(tape) = {}
    BY <1>1, TextNone DEF Text, ToSet
  <2> QED
    BY <1>1, <1>2, <2>1, <2>2, <2>3 DEF TokensInv
<1>4. WindowAt(1)
  BY <1>1, <1>2 DEF WindowAt, TypeOf
<1>5. SelectorAt(1) /\ ClauseAt(1) /\ Done(1) = 0
  BY <1>1, FieldNames DEF SelectorAt, ClauseAt, Done
<1>6. ReadTo(node, input, 0)
  BY <1>1, FieldNames, NothingRead DEF ClauseWords, Anchors, Modifiers
<1>7. \A i \in 1 .. 1 - 1 : FALSE
  OBVIOUS
<1>8. ReadingAt(1)
  BY <1>1, <1>4, <1>5, <1>6, <1>7 DEF ReadingAt
<1>9. 1 \in DOMAIN input
  BY <1>2
<1> QED
  BY <1>3, <1>8, <1>9, NodeInvInit DEF ReadingInv

LEMMA ReadingInvStep == ReadingInv /\ QueryInv /\ [Next]_vars => ReadingInv'
<1> SUFFICES ASSUME ReadingInv, QueryInv, [Next]_vars PROVE ReadingInv'
  OBVIOUS
<1>1. NodeInv'
  BY NodeInvStep DEF ReadingInv
<1>2. CASE UNCHANGED vars
  <2>1. TokensInv' = TokensInv
    BY <1>2 DEF vars, window, TokensInv, Readable
  <2>2. \A p : ReadingAt(p)' = ReadingAt(p)
    BY <1>2 DEF vars, window, ReadingAt, WindowAt, ClauseAt, SelectorAt, SelectorSaid, Done, ReadTo,
       TypeOf, Stray, Listed, Nth, TermsTo, ClausesTo
  <2> QED
    BY <1>1, <1>2, <2>1, <2>2 DEF ReadingInv, vars, window
<1>3. CASE Reject
  <2>1. TokensInv' = TokensInv /\ mode' = "rejected"
    BY <1>3 DEF Reject, Goes, window, TokensInv, Readable
  <2> QED
    BY <1>1, <2>1 DEF ReadingInv
<1>4. ASSUME Next, ~Reject PROVE ReadingInv'
  <2>1. mode # "rejected"
    BY <1>4 DEF Next, ParseQuery, ParseGraphSelector, ParseSelector, ParsePhrase, ParseTerms, ParseClause,
       ParseSeparator, ParseValue, ParseVec, Finish, ParseTail, Bind, Reparse
  <2>2. PICK p \in DOMAIN input : ReadingAt(p)
    BY <2>1 DEF ReadingInv
  <2>3. TokensInv /\ NodeInv /\ p \in Nat
    BY <2>2 DEF ReadingInv, TokensInv
  <2>4. TokensInv' /\ (ReadingAt(p)' \/ ReadingAt(p + 1)' \/ ReadingAt(1)')
    <3>1. CASE ParseQuery
      BY <1>4, <2>2, <2>3, <3>1, ReadsQuery
    <3>2. CASE ParseGraphSelector
      BY <1>4, <2>2, <2>3, <3>2, ReadsGraph
    <3>3. CASE ParseSelector
      BY <1>4, <2>2, <2>3, <3>3, ReadsSelector
    <3>4. CASE ParsePhrase \/ ParseTerms
      BY <1>4, <2>2, <2>3, <3>4, ReadsTerms
    <3>5. CASE ParseClause
      BY <1>4, <2>2, <2>3, <3>5, ReadsClause
    <3>6. CASE ParseSeparator
      BY <1>4, <2>2, <2>3, <3>6, ReadsSeparator
    <3>7. CASE ParseValue
      BY <1>4, <2>2, <2>3, <3>7, ReadsValue
    <3>8. CASE ParseVec
      BY <1>4, <2>2, <2>3, <3>8, ReadsVec
    <3>9. CASE Finish \/ ParseTail \/ Bind
      BY <1>4, <2>2, <2>3, <3>9, ReadsEnd
    <3>10. CASE Reparse
      BY <2>3, <3>10, ReadsPrinted
    <3> QED
      BY <1>4, <3>1, <3>2, <3>3, <3>4, <3>5, <3>6, <3>7, <3>8, <3>9, <3>10 DEF Next
  <2>5. \E q \in DOMAIN input' : ReadingAt(q)'
    <3>1. ASSUME NEW q, ReadingAt(q)' PROVE q \in DOMAIN input'
      BY <2>4, <3>1 DEF ReadingAt, WindowAt, TokensInv
    <3> QED
      BY <2>4, <3>1
  <2> QED
    BY <1>1, <2>4, <2>5 DEF ReadingInv
<1>5. Next \/ UNCHANGED vars
  OBVIOUS
<1>6. CASE Next /\ ~Reject
  BY <1>4, <1>6
<1> QED
  BY <1>2, <1>3, <1>5, <1>6

\* Behind the end nothing more is said.
LEMMA ReadToTheEnd == ReadingInv => ReadsEveryToken
<1> SUFFICES ASSUME ReadingInv, mode \in {"parsed", "bound"}
    PROVE  /\ node.terms = SaidTerms
           /\ \A k \in ClauseWords : node[k] = Said(k)
           /\ \A i \in DOMAIN input : ~Stray(input, i)
           /\ node.selector = SelectorSaid
  BY DEF ReadsEveryToken
<1>1. PICK p \in DOMAIN input : ReadingAt(p)
  BY DEF ReadingInv
<1>2. /\ TokensInv /\ p \in Nat /\ WindowAt(p) /\ cur.type = "eol" /\ peek.type = "eol"
      /\ DOMAIN input = 1 .. Len(input) /\ Len(input) \in {p, p + 1}
      /\ \A i \in 1 .. p - 1 : ~Stray(input, i)
  BY <1>1 DEF ReadingInv, TokensInv, ReadingAt, WindowAt
<1>3. /\ p - 1 \in Nat /\ (p - 1) + 1 = p /\ TypeOf(input, p) = "eol" /\ TypeOf(input, p + 1) = "eol"
      /\ (p + 1) + 1 = p + 2
  BY <1>2, WindowSays
<1>4. \A i \in {p, p + 1} : Quiet(input, i) /\ ~Stray(input, i)
  BY <1>3 DEF Quiet, TermAtPlace, ClauseAtPlace, ClauseWords, Words, Keywords, Commands, PrefixWords,
     Anchors, Modifiers, Stray
<1>5. ReadTo(node, input, p - 1)
  BY <1>1 DEF ReadingAt, Done
<1>6. ReadTo(node, input, p)
  <2>1. Quiet(input, (p - 1) + 1)
    BY <1>3, <1>4
  <2>2. ReadTo(node, input, (p - 1) + 1)
    BY <1>3, <1>5, <2>1, ReadQuiet
  <2> QED
    BY <1>3, <2>2
<1>7. ReadTo(node, input, p + 1)
  BY <1>2, <1>4, <1>6, ReadQuiet
<1>8. ReadTo(node, input, Len(input))
  BY <1>2, <1>6, <1>7
<1>9. \A i \in DOMAIN input : ~Stray(input, i)
  <2>1. \A i \in DOMAIN input : i \in 1 .. p - 1 \/ i \in {p, p + 1}
    BY <1>2
  <2> QED
    BY <1>2, <1>4, <2>1
<1>10. node.selector = SelectorSaid
  BY <1>1 DEF ReadingAt, SelectorAt
<1> QED
  BY <1>8, <1>9, <1>10 DEF ReadTo, SaidTerms, Said

\* A text that parses means what its tokens say: the parser holds every clause
\* with the values glued to it, every other word as a term, the whole number of
\* the selector, and nothing it did not check, whatever the tokens and the text.
THEOREM ReadsAsWritten == Spec => []ReadsEveryToken
<1>1. Init => QueryInv /\ ReadingInv
  BY QueryInvInit, ReadingInvInit
<1>2. QueryInv /\ ReadingInv /\ [Next]_vars => (QueryInv /\ ReadingInv)'
  BY QueryInvStep, ReadingInvStep
<1>3. QueryInv /\ ReadingInv => ReadsEveryToken
  BY ReadToTheEnd
<1> QED
  BY <1>1, <1>2, <1>3, PTL DEF Spec

-----------------------------------------------------------------------------
(* Which token is printed for what a node holds.                           *)

LEMMA ValuePrints ==
  ASSUME NEW t, NEW text, t.type = "phrase" \/ text \notin DOMAIN Split
  PROVE  /\ Len(PrintedValue(t, text)) = 1
         /\ PrintedValue(t, text)[1].literal = text
         /\ PrintedValue(t, text)[1].type =
              IF t.type = "phrase" THEN "phrase" ELSE IF text \in Keywords THEN text ELSE "literal"
<1> DEFINE b == [type |-> IF text \in Keywords THEN text ELSE "literal", literal |-> text]
           q == [type |-> "phrase", literal |-> text]
<1>1. /\ b.literal = text /\ b.type = IF text \in Keywords THEN text ELSE "literal"
      /\ q.literal = text /\ q.type = "phrase"
  OBVIOUS
<1>2. PrintedValue(t, text) = IF t.type = "phrase" THEN <<q>> ELSE <<b>>
  BY DEF PrintedValue, Bare
<1> HIDE DEF b, q
<1>3. \A x : Len(<<x>>) = 1 /\ <<x>>[1] = x
  OBVIOUS
<1>4. CASE t.type = "phrase"
  BY <1>1, <1>2, <1>3, <1>4
<1>5. CASE t.type # "phrase"
  BY <1>1, <1>2, <1>3, <1>5
<1> QED
  BY <1>4, <1>5

\* The digits of a number that was read.
LEMMA DigitsPrint ==
  ASSUME NEW l \in DOMAIN IntOf, IntOf[l] >= 0
  PROVE  LET s == Bare(ToString(IntOf[l]))
         IN /\ Len(s) = 1 /\ s[1].type = "literal"
            /\ s[1].literal \in DOMAIN IntOf /\ IntOf[s[1].literal] = IntOf[l]
<1> DEFINE d == ToString(IntOf[l])
           b == [type |-> "literal", literal |-> d]
<1>1. d \in DOMAIN IntOf /\ IntOf[d] = IntOf[l] /\ d \notin DOMAIN Split \cup Keywords
  BY LexemesAssumption
<1> HIDE DEF d
<1>2. Bare(d) = <<b>>
  BY <1>1 DEF Bare
<1>3. Len(<<b>>) = 1 /\ <<b>>[1].type = "literal" /\ <<b>>[1].literal = d
  OBVIOUS
<1> QED
  BY <1>1, <1>2, <1>3 DEF d

LEMMA FoldFacts ==
  ASSUME NEW t \in Tokens
  PROVE  LET l == t.literal
         IN /\ Fold(Fold(l)) = Fold(l) /\ (l # Blank => Fold(l) # Blank)
            /\ Fold(l) \in StopWords => l \in StopWords
            /\ t.type \in Words => l \notin DOMAIN Split /\ Fold(l) \notin DOMAIN Split /\ Fold(l) \notin MisCased
            /\ t.type = "literal" => l \notin Keywords /\ (Fold(l) \in Keywords => l \in MisCased)
            /\ l \in Numeric => t.type \in {"literal", "phrase", "illegal"}
  BY LexemesAssumption DEF Readable

TermToken(n, j) == PrintedTerm(n, n.terms[j])[1]

LEMMA TermPrints ==
  ASSUME NEW n, Whole(n), NEW j \in 1 .. Len(n.terms)
  PROVE  LET t == n.terms[j]
             u == TermToken(n, j)
         IN /\ t \in Tokens /\ IsTerm(t) /\ Len(PrintedTerm(n, t)) = 1
            /\ IsTerm(u) /\ u.type = t.type
            /\ u.literal = IF n.kind = "recall" THEN Fold(t.literal) ELSE t.literal
            /\ n.kind = "remember" => u.type = "phrase"
<1> DEFINE t == n.terms[j]
           l == IF n.kind = "recall" THEN Fold(t.literal) ELSE t.literal
<1>1. t \in Tokens /\ IsTerm(t)
  BY DEF Whole, Holds
<1>2. n.kind \in {"recall", "remember"} /\ (n.kind = "remember" => t.type = "phrase")
  BY DEF Whole, Remembers
<1>3. PrintedTerm(n, t) = PrintedValue(t, l) /\ TermToken(n, j) = PrintedTerm(n, t)[1]
  BY DEF PrintedTerm, TermToken
<1>4. t.type \in {"literal", "phrase"} /\ ~IsMisCasedKeyword(t) /\ t.literal # Blank
  BY <1>1 DEF IsTerm
<1> HIDE DEF t
<1>5. /\ t.type = "literal" => l \notin DOMAIN Split /\ l \notin Keywords /\ l \notin MisCased
      /\ l # Blank
  BY <1>1, <1>2, <1>4, FoldFacts DEF IsMisCasedKeyword, Words
<1> HIDE DEF l
<1> DEFINE u == PrintedValue(t, l)[1]
<1>6. Len(PrintedValue(t, l)) = 1 /\ u.literal = l /\ u.type = t.type
  BY <1>4, <1>5, ValuePrints
<1> HIDE DEF u
<1>7. IsTerm(u)
  BY <1>4, <1>5, <1>6 DEF IsTerm, IsMisCasedKeyword
<1> QED
  BY <1>1, <1>2, <1>3, <1>6, <1>7 DEF u, t, l

\* What is printed for a value says what it said.
SaysAs(k, u, t) ==
    /\ k \in Anchors => u.type \in Words \cup {"phrase"} /\ u.literal # Blank /\ u.literal = Fold(t.literal)
    /\ k \in {"since", "until"} => IsTime(u) /\ u.literal = t.literal
    /\ k \in {"since", "until"} \cup Anchors => (u.type = "phrase" <=> t.type = "phrase")
    /\ k \in {"top", "depth"} => IsNumber(u) /\ IntOf[u.literal] = IntOf[t.literal]
    /\ u.type \in Words \cup {"phrase"}

LEMMA FieldPrints ==
  ASSUME NEW n, Whole(n), NonNegative(n), NEW k \in Anchors \cup Modifiers, NEW j \in 1 .. Len(n[k])
  PROVE  /\ n[k][j] \in Tokens /\ Len(PrintedField(k, n[k][j])) = 1
         /\ SaysAs(k, PrintedField(k, n[k][j])[1], n[k][j])
<1> DEFINE t == n[k][j]
           u == PrintedField(k, t)[1]
<1>1. CASE k \in Anchors
  <2>1. t \in Tokens /\ t.type \in Words \cup {"phrase"} /\ t.literal # Blank
    <3>1. n[k] \in Seq({x \in Tokens : x.type \in Words \cup {"phrase"} /\ x.literal # Blank})
      BY <1>1 DEF Whole, Holds
    <3> QED
      BY <3>1
  <2>2. PrintedField(k, t) = PrintedValue(t, Fold(t.literal))
    BY <1>1 DEF PrintedField, PrintedAnchor, Anchors
  <2> HIDE DEF t
  <2>3. /\ t.type \in Words => Fold(t.literal) \notin DOMAIN Split
        /\ Fold(t.literal) # Blank
    BY <2>1, FoldFacts
  <2>4. /\ Len(PrintedField(k, t)) = 1 /\ u.literal = Fold(t.literal)
        /\ u.type = IF t.type = "phrase" THEN "phrase"
                    ELSE IF Fold(t.literal) \in Keywords THEN Fold(t.literal) ELSE "literal"
    BY <2>1, <2>2, <2>3, ValuePrints
  <2>5. u.type \in Words \cup {"phrase"} /\ (u.type = "phrase" <=> t.type = "phrase")
    BY <2>4 DEF Words, Keywords, Commands, PrefixWords, Anchors, Modifiers
  <2>6. k \notin {"since", "until", "top", "depth"}
    BY <1>1 DEF Anchors
  <2> HIDE DEF u
  <2>7. SaysAs(k, u, t)
    BY <2>3, <2>4, <2>5, <2>6 DEF SaysAs
  <2> QED
    BY <2>1, <2>4, <2>7 DEF t, u
<1>2. CASE k \in {"since", "until"}
  <2>1. t \in Tokens /\ IsTime(t)
    BY <1>2 DEF Whole, Holds, AtMostOne
  <2>2. PrintedField(k, t) = PrintedValue(t, t.literal)
    BY <1>2 DEF PrintedField, PrintedTime, Anchors
  <2> HIDE DEF t
  <2>3. t.type \in {"literal", "phrase"}
    BY <2>1, FoldFacts DEF IsTime, Numeric
  <2>4. t.type = "literal" => t.literal \notin DOMAIN Split /\ t.literal \notin Keywords
    BY <2>1, FoldFacts DEF Words
  <2>5. Len(PrintedField(k, t)) = 1 /\ u.literal = t.literal /\ u.type = t.type
    BY <2>2, <2>3, <2>4, ValuePrints
  <2> HIDE DEF u
  <2>6. IsTime(u)
    BY <2>1, <2>5 DEF IsTime
  <2>7. SaysAs(k, u, t)
    BY <1>2, <2>3, <2>5, <2>6 DEF SaysAs, Words, Anchors
  <2> QED
    BY <2>1, <2>5, <2>7 DEF t, u
<1>3. CASE k \in {"top", "depth"}
  <2>1. t \in Tokens /\ IsNumber(t) /\ n[k] = <<t>>
    BY <1>3 DEF Whole, Holds, AtMostOne
  <2>2. IntOf[t.literal] >= 0
    BY <1>3, <2>1 DEF NonNegative, Written
  <2>3. PrintedField(k, t) = Bare(ToString(IntOf[t.literal]))
    BY <1>3 DEF PrintedField, PrintedNumber, Anchors
  <2> HIDE DEF t
  <2>4. /\ Len(PrintedField(k, t)) = 1 /\ u.type = "literal"
        /\ u.literal \in DOMAIN IntOf /\ IntOf[u.literal] = IntOf[t.literal]
    BY <2>1, <2>2, <2>3, DigitsPrint DEF IsNumber
  <2> HIDE DEF u
  <2>5. SaysAs(k, u, t)
    BY <1>3, <2>4 DEF SaysAs, IsNumber, Words, Anchors
  <2> QED
    BY <2>1, <2>4, <2>5 DEF t, u
<1> QED
  BY <1>1, <1>2, <1>3 DEF Anchors, Modifiers

LEMMA SelectorPrints ==
  ASSUME NEW n, Whole(n)
  PROVE  LET s == PrintedSelector(n)
         IN /\ n.selector = <<>> => Len(s) = 0
            /\ n.selector # <<>> => /\ Len(s) = 2 /\ s[1].type = "at"
                                    /\ s[2].literal \in DOMAIN IntOf /\ IntOf[s[2].literal] \in 0 .. 255
                                    /\ n.selector = <<IntOf[s[2].literal]>>
<1>1. CASE n.selector = <<>>
  BY <1>1 DEF PrintedSelector
<1>2. CASE n.selector # <<>>
  <2>1. PICK l \in DOMAIN IntOf : IntOf[l] \in 0 .. 255 /\ n.selector = <<IntOf[l]>>
    BY SMTT(30), <1>2 DEF Whole, Holds, AtMostOne
  <2> DEFINE d == Bare(ToString(IntOf[l]))
  <2>2. /\ Len(d) = 1 /\ d[1].literal \in DOMAIN IntOf /\ IntOf[d[1].literal] = IntOf[l]
    BY <2>1, DigitsPrint
  <2>3. n.selector[1] = IntOf[l]
    BY <2>1
  <2>4. PrintedSelector(n) = <<Sign("at")>> \o d
    BY <1>2, <2>3 DEF PrintedSelector
  <2>5. Text(d) /\ Text(<<Sign("at")>>) /\ Len(<<Sign("at")>>) = 1 /\ <<Sign("at")>>[1].type = "at"
    BY BareText, SignText, TextOne
  <2> HIDE DEF d
  <2> DEFINE a == <<Sign("at")>>
  <2> HIDE DEF a
  <2>6. Text(a) /\ Len(a) = 1 /\ a[1].type = "at" /\ PrintedSelector(n) = a \o d
    BY <2>4, <2>5 DEF a
  <2>7. /\ Len(a \o d) = Len(a) + Len(d)
        /\ \A i \in 1 .. Len(a) : (a \o d)[i] = a[i]
        /\ \A i \in 1 .. Len(d) : (a \o d)[Len(a) + i] = d[i]
    <3>1. Text(a) /\ Text(d)
      BY <2>5, <2>6
    <3> QED
      BY <3>1, TextConcat
  <2>8. Len(a \o d) = 2 /\ (a \o d)[1] = a[1] /\ (a \o d)[2] = d[1]
    BY <2>2, <2>6, <2>7
  <2> QED
    BY <1>2, <2>1, <2>2, <2>6, <2>8
<1> QED
  BY <1>1, <1>2

LEMMA TermPiece ==
  ASSUME NEW n, Whole(n), NEW j \in 1 .. Len(n.terms)
  PROVE  LET s == PrintedTerms(n)[j]
         IN Len(s) = 2 /\ s[1] = Sign("whitespace") /\ s[2] = TermToken(n, j)
<1> DEFINE a == <<Sign("whitespace")>>
           d == PrintedTerm(n, n.terms[j])
<1>1. PrintedTerms(n)[j] = a \o d
  <2>1. j \in DOMAIN n.terms
    BY SeqsHeld DEF Whole, HoldsSeqs
  <2> QED
    BY <2>1 DEF PrintedTerms
<1>2. Text(a) /\ Len(a) = 1 /\ a[1] = Sign("whitespace")
  BY SignText, TextOne
<1>3. Text(d) /\ Len(d) = 1 /\ d[1] = TermToken(n, j)
  BY TermPrints, ValueText DEF PrintedTerm, TermToken
<1> HIDE DEF a, d
<1>4. /\ Len(a \o d) = Len(a) + Len(d)
      /\ \A i \in 1 .. Len(a) : (a \o d)[i] = a[i]
      /\ \A i \in 1 .. Len(d) : (a \o d)[Len(a) + i] = d[i]
  <2>1. Text(a) /\ Text(d)
    BY <1>2, <1>3
  <2> QED
    BY <2>1, TextConcat
<1> QED
  BY <1>1, <1>2, <1>3, <1>4

\* A clause whose field is printed as d.
LEMMA ClausePiece ==
  ASSUME NEW k, NEW t, NEW d, Text(d), PrintedField(k, t) = d, k \in ClauseWords
  PROVE  LET s == PrintedClause(k, t)
         IN /\ Len(s) = 3 + Len(d) /\ Len(d) \in Nat
            /\ s[1] = Sign("whitespace") /\ s[2] = [type |-> k, literal |-> k] /\ s[3] = Sign("colon")
            /\ \A i \in 1 .. Len(d) : s[3 + i] = d[i]
<1> DEFINE u == [type |-> k, literal |-> k]
           a == <<Sign("whitespace"), u, Sign("colon")>>
<1>1. PrintedClause(k, t) = a \o d
  BY DEF PrintedClause
<1>2. Legible(u)
  BY LexemesAssumption DEF Legible, Readable, ClauseWords, Keywords, Anchors, Modifiers
<1> HIDE DEF u
<1>3. Text(a) /\ Len(a) = 3
  BY <1>2, SignText, TextThree
<1>4. a[1] = Sign("whitespace") /\ a[2] = u /\ a[3] = Sign("colon")
  OBVIOUS
<1> HIDE DEF a
<1>5. /\ Len(a \o d) = Len(a) + Len(d) /\ Len(d) \in Nat
      /\ \A i \in 1 .. Len(a) : (a \o d)[i] = a[i]
      /\ \A i \in 1 .. Len(d) : (a \o d)[Len(a) + i] = d[i]
  <2>1. Text(a) /\ Text(d)
    BY <1>3
  <2> QED
    BY <2>1, TextConcat
<1>6. 1 \in 1 .. Len(a) /\ 2 \in 1 .. Len(a) /\ 3 \in 1 .. Len(a)
  BY <1>3
<1> QED
  BY <1>1, <1>3, <1>4, <1>5, <1>6 DEF u

\* The clause that comes i-th, and what is printed for it.
Nr(n, i) == Times(ClauseOrder(n), i, ClauseOrder(n)[i])
FieldToken(n, i) == PrintedField(ClauseOrder(n)[i], n[ClauseOrder(n)[i]][Nr(n, i)])[1]

\* Later clauses are counted on top of the earlier ones.
LEMMA TimesUpTo ==
  ASSUME NEW ks, NEW k, NEW m \in Nat, NEW i \in 0 .. m
  PROVE  Times(ks, i, k) \in Nat /\ Times(ks, m, k) \in Nat /\ Times(ks, i, k) <= Times(ks, m, k)
<1> DEFINE S(j) == {q \in 1 .. j : ks[q] = k}
<1>1. S(i) \subseteq S(m) /\ S(m) \subseteq 1 .. m
  OBVIOUS
<1>2. IsFiniteSet(1 .. m)
  BY FS_Interval
<1>3. \A j : Times(ks, j, k) = Cardinality(S(j))
  BY DEF Times
<1> HIDE DEF S
<1>4. IsFiniteSet(S(m)) /\ Cardinality(S(m)) \in Nat /\ Cardinality(S(i)) \in Nat
      /\ Cardinality(S(i)) <= Cardinality(S(m))
  BY <1>1, <1>2, FS_Subset, FS_CardinalityType
<1> QED
  BY <1>3, <1>4

LEMMA OrderPlaces ==
  ASSUME NEW n, Whole(n), NEW i \in 1 .. Len(ClauseOrder(n))
  PROVE  LET ks == ClauseOrder(n)
             k == ks[i]
         IN /\ ks \in Seq(Anchors \cup Modifiers) /\ k \in Anchors \cup Modifiers
            /\ Nr(n, i) = Times(ks, i - 1, k) + 1 /\ Times(ks, i - 1, k) \in Nat
            /\ Nr(n, i) \in 1 .. Len(n[k])
            /\ \A c \in Anchors \cup Modifiers : c # k => Times(ks, i, c) = Times(ks, i - 1, c)
            /\ n.kind = "remember" => k \in Anchors
<1> DEFINE ks == ClauseOrder(n)
           k == ks[i]
           m == Len(ks)
<1>1. Counted(ks, n, Anchors \cup Modifiers)
  BY OrderFacts DEF Whole
<1>2. ks \in Seq(Anchors \cup Modifiers) /\ m \in Nat /\ i \in 1 .. m
  BY <1>1 DEF Counted
<1>3. k \in Anchors \cup Modifiers
  BY <1>2
<1>4. Times(ks, m, k) = Len(n[k])
  BY <1>1, <1>3 DEF Counted
<1>5. n.kind = "remember" => k \in Anchors
  BY <1>2 DEF Whole, Holds, ClauseOrder
<1> HIDE DEF ks, k, m
<1>6. i - 1 \in Nat /\ (i - 1) + 1 = i /\ i \in 0 .. m
  BY <1>2
<1>7. /\ Times(ks, i - 1, k) \in 0 .. i - 1
      /\ \A c : Times(ks, i, c) = Times(ks, i - 1, c) + IF ks[i] = c THEN 1 ELSE 0
      /\ \A c : Times(ks, i - 1, c) \in 0 .. i - 1
  <2> DEFINE j == i - 1
  <2>1. j \in Nat /\ j + 1 = i
    BY <1>6
  <2> HIDE DEF j
  <2>2. \A c : /\ Times(ks, j, c) \in 0 .. j
                /\ Times(ks, j + 1, c) = Times(ks, j, c) + IF ks[j + 1] = c THEN 1 ELSE 0
    BY <2>1, TimesFacts
  <2> QED
    BY <2>1, <2>2 DEF j
<1>8. Times(ks, i, k) <= Times(ks, m, k) /\ Times(ks, m, k) \in Nat
  BY <1>2, <1>6, TimesUpTo
<1>9. Times(ks, i, k) = Times(ks, i - 1, k) + 1
  BY <1>7 DEF k
<1>10. \A c : c # k => Times(ks, i, c) = Times(ks, i - 1, c)
  BY <1>7 DEF k
<1>11. Times(ks, i, k) \in 1 .. Len(n[k])
  BY <1>4, <1>6, <1>7, <1>8, <1>9
<1> QED
  BY <1>2, <1>3, <1>5, <1>7, <1>9, <1>10, <1>11 DEF Nr, ks, k

LEMMA FieldPiece ==
  ASSUME NEW n, Whole(n), NonNegative(n), NEW i \in 1 .. Len(ClauseOrder(n))
  PROVE  LET s == PrintedClauses(n)[i]
             k == ClauseOrder(n)[i]
         IN /\ Len(s) = 4 /\ s[1] = Sign("whitespace") /\ s[2] = [type |-> k, literal |-> k]
            /\ s[3] = Sign("colon") /\ s[4] = FieldToken(n, i)
            /\ SaysAs(k, FieldToken(n, i), n[k][Nr(n, i)])
<1> DEFINE ks == ClauseOrder(n)
           k == ks[i]
           t == n[k][Nr(n, i)]
           d == PrintedField(k, t)
<1>1. ks \in Seq(Anchors \cup Modifiers) /\ k \in Anchors \cup Modifiers /\ Nr(n, i) \in 1 .. Len(n[k])
  BY OrderPlaces
<1>2. i \in DOMAIN ks
  BY <1>1
<1>3. PrintedClauses(n) = [j \in DOMAIN ks |-> PrintedClause(ks[j], n[ks[j]][Times(ks, j, ks[j])])]
  BY DEF PrintedClauses
<1>4. PrintedClauses(n)[i] = PrintedClause(k, t)
  BY <1>2, <1>3 DEF Nr
<1>5. Len(d) = 1 /\ SaysAs(k, d[1], t) /\ d[1] = FieldToken(n, i)
  BY <1>1, FieldPrints DEF FieldToken
<1>6. k \in ClauseWords /\ k # "vec"
  BY <1>1 DEF ClauseWords, Anchors, Modifiers
<1> HIDE DEF t, k, ks
<1>7. Text(d)
  BY <1>6, FieldText
<1> HIDE DEF d
<1>8. PrintedField(k, t) = d
  BY DEF d
<1> DEFINE s == PrintedClause(k, t)
<1>9. /\ Len(s) = 3 + Len(d) /\ Len(d) \in Nat
      /\ s[1] = Sign("whitespace") /\ s[2] = [type |-> k, literal |-> k] /\ s[3] = Sign("colon")
      /\ \A j \in 1 .. Len(d) : s[3 + j] = d[j]
  BY <1>6, <1>7, <1>8, ClausePiece
<1> HIDE DEF s
<1>10. Len(s) = 4 /\ s[4] = d[1]
  BY <1>5, <1>9
<1> QED
  BY <1>4, <1>5, <1>9, <1>10 DEF s, k, ks, t

LEMMA VecPiece ==
  ASSUME NEW n, Whole(n)
  PROVE  LET s == VecPart(n)
         IN /\ Len(n.vec) \in {0, 1} /\ Len(s) = 5 * Len(n.vec)
            /\ Len(n.vec) = 1 =>
                  /\ s[1] = Sign("whitespace") /\ s[2] = [type |-> "vec", literal |-> "vec"]
                  /\ s[3] = Sign("colon") /\ s[4] = Sign("dollar") /\ s[5] = n.vec[1]
<1>1. CASE n.vec = <<>>
  BY <1>1 DEF VecPart
<1>2. CASE n.vec # <<>>
  <2>1. PICK t \in Tokens : t.type = "literal" /\ n.vec = <<t>>
    BY <1>2 DEF Whole, Holds, AtMostOne
  <2>2. n.vec[1] = t /\ Len(n.vec) = 1
    BY <2>1
  <2> DEFINE d == PrintedVec(t)
             s == PrintedClause("vec", t)
  <2>3. Text(d) /\ PrintedField("vec", t) = d
    <3>1. Legible(t)
      BY <2>1, LexemesAssumption DEF Legible
    <3>2. PrintedField("vec", t) = d
      BY DEF PrintedField, Anchors
    <3> QED
      BY <3>1, <3>2, FieldText DEF ClauseWords
  <2>4. d = <<Sign("dollar"), t>>
    BY DEF PrintedVec
  <2>5. Len(d) = 2 /\ d[1] = Sign("dollar") /\ d[2] = t
    BY <2>4
  <2> HIDE DEF d
  <2>6. /\ Len(s) = 3 + Len(d) /\ Len(d) \in Nat
        /\ s[1] = Sign("whitespace") /\ s[2] = [type |-> "vec", literal |-> "vec"] /\ s[3] = Sign("colon")
        /\ \A i \in 1 .. Len(d) : s[3 + i] = d[i]
    BY <2>3, ClausePiece DEF ClauseWords
  <2>7. VecPart(n) = s
    BY <1>2, <2>2 DEF VecPart
  <2> HIDE DEF s
  <2>8. Len(s) = 5 /\ s[4] = d[1] /\ s[5] = d[2]
    BY <2>5, <2>6
  <2> QED
    BY <2>2, <2>5, <2>6, <2>7, <2>8
<1> QED
  BY <1>1, <1>2

\* Where every token of a printed command stands.
Layout(n) ==
    LET text == Printed(n)
        h == HeadLen(n)
        t == Len(n.terms)
        c == Len(ClauseOrder(n))
        v == Len(n.vec)
    IN /\ Text(text) /\ t \in Nat /\ c \in Nat /\ v \in {0, 1} /\ Len(text) = Here(n, c, v)
       /\ text[1].type = n.kind /\ h \in {1, 3}
       /\ n.selector = <<>> <=> h = 1
       /\ h = 3 => /\ text[2].type = "at" /\ text[3].literal \in DOMAIN IntOf
                   /\ IntOf[text[3].literal] \in 0 .. 255 /\ n.selector = <<IntOf[text[3].literal]>>
       /\ \A j \in 1 .. t : text[h + 2 * j - 1] = Sign("whitespace") /\ text[h + 2 * j] = TermToken(n, j)
       /\ \A i \in 1 .. c :
             LET q == Here(n, i - 1, 0)
                 k == ClauseOrder(n)[i]
             IN /\ text[q + 1] = Sign("whitespace") /\ text[q + 2] = [type |-> k, literal |-> k]
                /\ text[q + 3] = Sign("colon") /\ text[q + 4] = FieldToken(n, i)
       /\ v = 1 =>
             LET q == Here(n, c, 0)
             IN /\ text[q + 1] = Sign("whitespace") /\ text[q + 2] = [type |-> "vec", literal |-> "vec"]
                /\ text[q + 3] = Sign("colon") /\ text[q + 4] = Sign("dollar") /\ text[q + 5] = n.vec[1]

LEMMA LaidOutText ==
  ASSUME NEW n, Whole(n), NonNegative(n)
  PROVE  Layout(n)
<1> DEFINE text == Printed(n)
           h == HeadLen(n)
           t == Len(n.terms)
           ks == ClauseOrder(n)
           c == Len(ks)
           v == Len(n.vec)
           T == TermPart(n)
           C == ClausePart(n)
           V == VecPart(n)
           S == PrintedSelector(n)
<1>1. /\ Text(text) /\ Len(text) = h + Len(T) + Len(C) + Len(V)
      /\ text[1] = HeadPart(n)[1]
      /\ Len(S) \in Nat /\ Len(T) \in Nat /\ Len(C) \in Nat /\ Len(V) \in Nat
      /\ \A i \in 1 .. Len(S) : text[1 + i] = S[i]
      /\ \A i \in 1 .. Len(T) : text[h + i] = T[i]
      /\ \A i \in 1 .. Len(C) : text[h + Len(T) + i] = C[i]
      /\ \A i \in 1 .. Len(V) : text[h + Len(T) + Len(C) + i] = V[i]
  BY PartsAt DEF HeadLen
<1>2. h = 1 + Len(S)
  BY DEF HeadLen
<1>3. /\ HeadPart(n)[1].type = n.kind
      /\ Texts(PrintedTerms(n)) /\ Len(PrintedTerms(n)) = t
      /\ Texts(PrintedClauses(n)) /\ Len(PrintedClauses(n)) = c
  BY PartTexts
<1>4. t \in Nat /\ c \in Nat
  BY <1>3 DEF Texts
<1>5. /\ Len(T) = 2 * t /\ \A j \in 1 .. t, i \in 1 .. 2 : T[2 * (j - 1) + i] = PrintedTerms(n)[j][i]
  <2>1. PICK D : PrintedTerms(n) \in Seq(Seq(D))
    BY <1>3, TextsIn
  <2>2. \A j \in 1 .. Len(PrintedTerms(n)) : Len(PrintedTerms(n)[j]) = 2
    BY <1>3, TermPiece
  <2>3. 2 \in {2, 4}
    OBVIOUS
  <2>4. /\ Len(FlattenSeq(PrintedTerms(n))) = 2 * Len(PrintedTerms(n))
        /\ \A i \in 1 .. Len(PrintedTerms(n)), j \in 1 .. 2 :
              FlattenSeq(PrintedTerms(n))[2 * (i - 1) + j] = PrintedTerms(n)[i][j]
    BY <2>1, <2>2, <2>3, FlatShape
  <2> QED
    BY <1>3, <2>4 DEF TermPart
<1>6. /\ Len(C) = 4 * c /\ \A j \in 1 .. c, i \in 1 .. 4 : C[4 * (j - 1) + i] = PrintedClauses(n)[j][i]
  <2>1. PICK D : PrintedClauses(n) \in Seq(Seq(D))
    BY <1>3, TextsIn
  <2>2. \A j \in 1 .. Len(PrintedClauses(n)) : Len(PrintedClauses(n)[j]) = 4
    BY <1>3, FieldPiece
  <2>3. 4 \in {2, 4}
    OBVIOUS
  <2>4. /\ Len(FlattenSeq(PrintedClauses(n))) = 4 * Len(PrintedClauses(n))
        /\ \A i \in 1 .. Len(PrintedClauses(n)), j \in 1 .. 4 :
              FlattenSeq(PrintedClauses(n))[4 * (i - 1) + j] = PrintedClauses(n)[i][j]
    BY SMTT(30), <2>1, <2>2, <2>3, FlatShape
  <2> QED
    BY <1>3, <2>4 DEF ClausePart
<1>7. /\ v \in {0, 1} /\ Len(V) = 5 * v
      /\ v = 1 => /\ V[1] = Sign("whitespace") /\ V[2] = [type |-> "vec", literal |-> "vec"]
                  /\ V[3] = Sign("colon") /\ V[4] = Sign("dollar") /\ V[5] = n.vec[1]
  BY VecPiece
<1>8. \A j \in 1 .. t : PrintedTerms(n)[j][1] = Sign("whitespace") /\ PrintedTerms(n)[j][2] = TermToken(n, j)
  BY TermPiece
<1>9. \A i \in 1 .. c :
         LET s == PrintedClauses(n)[i]
         IN /\ s[1] = Sign("whitespace") /\ s[2] = [type |-> ks[i], literal |-> ks[i]]
            /\ s[3] = Sign("colon") /\ s[4] = FieldToken(n, i)
  BY FieldPiece
<1>10. \A i, j : Here(n, i, j) = h + 2 * t + 4 * i + 5 * j
  BY DEF Here
<1>11. /\ n.selector = <<>> => Len(S) = 0
       /\ n.selector # <<>> => /\ Len(S) = 2 /\ S[1].type = "at" /\ S[2].literal \in DOMAIN IntOf
                               /\ IntOf[S[2].literal] \in 0 .. 255 /\ n.selector = <<IntOf[S[2].literal]>>
  BY SelectorPrints
<1> HIDE DEF text, h, t, ks, c, v, T, C, V, S
<1>12. /\ h \in {1, 3} /\ (n.selector = <<>> <=> h = 1)
       /\ h = 3 => /\ text[2].type = "at" /\ text[3].literal \in DOMAIN IntOf
                   /\ IntOf[text[3].literal] \in 0 .. 255 /\ n.selector = <<IntOf[text[3].literal]>>
  <2>1. CASE n.selector = <<>>
    BY <1>2, <1>11, <2>1
  <2>2. CASE n.selector # <<>>
    <3>1. Len(S) = 2 /\ h = 3
      <4>1. Len(S) = 2
        BY <1>11, <2>2, Zenon
      <4> QED
        BY <1>2, <4>1
    <3>2. text[1 + 1] = S[1] /\ text[1 + 2] = S[2]
      BY <1>1, <3>1
    <3>3. text[2] = S[1] /\ text[3] = S[2]
      <4>1. 1 + 1 = 2 /\ 1 + 2 = 3
        OBVIOUS
      <4> QED
        BY <3>2, <4>1
    <3>4. /\ S[1].type = "at" /\ S[2].literal \in DOMAIN IntOf
          /\ IntOf[S[2].literal] \in 0 .. 255 /\ n.selector = <<IntOf[S[2].literal]>>
      BY <1>11, <2>2, Zenon
    <3>5. h \in {1, 3} /\ h # 1
      BY <3>1
    <3> QED
      BY <2>2, <3>3, <3>4, <3>5
  <2> QED
    BY <2>1, <2>2
<1>13. ASSUME NEW j \in 1 .. t
       PROVE  text[h + 2 * j - 1] = Sign("whitespace") /\ text[h + 2 * j] = TermToken(n, j)
  <2>1. T[2 * (j - 1) + 1] = Sign("whitespace") /\ T[2 * (j - 1) + 2] = TermToken(n, j)
    BY <1>5, <1>8
  <2>2. 2 * (j - 1) + 1 \in 1 .. Len(T) /\ 2 * (j - 1) + 2 \in 1 .. Len(T)
    BY <1>4, <1>5
  <2>3. text[h + (2 * (j - 1) + 1)] = Sign("whitespace") /\ text[h + (2 * (j - 1) + 2)] = TermToken(n, j)
    BY <1>1, <2>1, <2>2
  <2>4. h + (2 * (j - 1) + 1) = h + 2 * j - 1 /\ h + (2 * (j - 1) + 2) = h + 2 * j
    BY <1>4, <1>12
  <2> QED
    BY <2>3, <2>4
<1>14. ASSUME NEW i \in 1 .. c
       PROVE  LET q == Here(n, i - 1, 0)
              IN /\ text[q + 1] = Sign("whitespace") /\ text[q + 2] = [type |-> ks[i], literal |-> ks[i]]
                 /\ text[q + 3] = Sign("colon") /\ text[q + 4] = FieldToken(n, i)
  <2> DEFINE q == Here(n, i - 1, 0)
             g == h + Len(T)
  <2>1. q = h + 2 * t + 4 * (i - 1)
    BY <1>4, <1>10, <1>12
  <2>2. ASSUME NEW j \in 1 .. 4 PROVE text[q + j] = PrintedClauses(n)[i][j]
    <3>1. 4 * (i - 1) + j \in 1 .. Len(C)
      BY <1>4, <1>6
    <3>2. text[g + (4 * (i - 1) + j)] = C[4 * (i - 1) + j]
      BY <1>1, <3>1
    <3>3. g + (4 * (i - 1) + j) = q + j
      BY <1>4, <1>5, <1>12, <2>1
    <3> QED
      BY <1>6, <3>2, <3>3
  <2> HIDE DEF q
  <2>3. 1 \in 1 .. 4 /\ 2 \in 1 .. 4 /\ 3 \in 1 .. 4 /\ 4 \in 1 .. 4
    OBVIOUS
  <2>4. /\ text[q + 1] = Sign("whitespace") /\ text[q + 2] = [type |-> ks[i], literal |-> ks[i]]
        /\ text[q + 3] = Sign("colon") /\ text[q + 4] = FieldToken(n, i)
    BY <1>9, <2>2, <2>3
  <2> QED
    BY <2>4 DEF q
<1>15. ASSUME v = 1
       PROVE  LET q == Here(n, c, 0)
              IN /\ text[q + 1] = Sign("whitespace") /\ text[q + 2] = [type |-> "vec", literal |-> "vec"]
                 /\ text[q + 3] = Sign("colon") /\ text[q + 4] = Sign("dollar") /\ text[q + 5] = n.vec[1]
  <2> DEFINE q == Here(n, c, 0)
  <2>1. q = h + Len(T) + Len(C)
    BY <1>4, <1>5, <1>6, <1>10, <1>12
  <2>2. Len(V) = 5
    BY <1>7, <1>15
  <2> HIDE DEF q
  <2>3. /\ text[q + 1] = V[1] /\ text[q + 2] = V[2] /\ text[q + 3] = V[3] /\ text[q + 4] = V[4]
        /\ text[q + 5] = V[5]
    BY <1>1, <2>1, <2>2
  <2> QED
    BY <1>7, <1>15, <2>3 DEF q
<1>16. Len(text) = Here(n, c, v)
  BY <1>1, <1>4, <1>5, <1>6, <1>7, <1>10, <1>12
<1>17. text[1].type = n.kind
  BY <1>1, <1>3
<1> QED
  BY <1>1, <1>4, <1>7, <1>12, <1>13, <1>14, <1>15, <1>16, <1>17 DEF Layout, text, h, t, ks, c, v

-----------------------------------------------------------------------------
(* Which token is read next.                                               *)

LEMMA TextAt ==
  ASSUME NEW n, Layout(n)
  PROVE  LET text == Printed(n)
             h == HeadLen(n)
             C == Len(ClauseOrder(n))
         IN /\ TokenAt(text, 1).type = n.kind
            /\ h = 3 => /\ TokenAt(text, 2).type = "at" /\ TokenAt(text, 3).literal \in DOMAIN IntOf
                        /\ IntOf[TokenAt(text, 3).literal] \in 0 .. 255
                        /\ n.selector = <<IntOf[TokenAt(text, 3).literal]>>
            /\ \A j \in 1 .. Len(n.terms) : /\ TokenAt(text, h + 2 * j - 1) = Sign("whitespace")
                                            /\ TokenAt(text, h + 2 * j) = TermToken(n, j)
            /\ \A i \in 1 .. C :
                  LET q == Here(n, i - 1, 0)
                      k == ClauseOrder(n)[i]
                  IN /\ TokenAt(text, q + 1) = Sign("whitespace")
                     /\ TokenAt(text, q + 2) = [type |-> k, literal |-> k]
                     /\ TokenAt(text, q + 3) = Sign("colon") /\ TokenAt(text, q + 4) = FieldToken(n, i)
            /\ Len(n.vec) = 1 =>
                  LET q == Here(n, C, 0)
                  IN /\ TokenAt(text, q + 1) = Sign("whitespace")
                     /\ TokenAt(text, q + 2) = [type |-> "vec", literal |-> "vec"]
                     /\ TokenAt(text, q + 3) = Sign("colon") /\ TokenAt(text, q + 4) = Sign("dollar")
                     /\ TokenAt(text, q + 5) = n.vec[1]
            /\ TokenAt(text, Len(text) + 1) = EOL
<1> DEFINE text == Printed(n)
           h == HeadLen(n)
           T == Len(n.terms)
           C == Len(ClauseOrder(n))
           V == Len(n.vec)
           L == Len(text)
<1>1. /\ text \in Seq(ToSet(text)) /\ T \in Nat /\ C \in Nat /\ V \in {0, 1} /\ h \in {1, 3}
      /\ L = Here(n, C, V) /\ text[1].type = n.kind
  BY DEF Layout, Text
<1>2. \A i, j : Here(n, i, j) = h + 2 * T + 4 * i + 5 * j
  BY DEF Here
<1>3. L \in Nat /\ DOMAIN text = 1 .. L
  BY <1>1
<1>4. \A q \in 1 .. L : TokenAt(text, q) = text[q]
  BY <1>3 DEF TokenAt
<1>5. TokenAt(text, L + 1) = EOL
  BY <1>3 DEF TokenAt
<1>6. h = 3 => /\ text[2].type = "at" /\ text[3].literal \in DOMAIN IntOf
               /\ IntOf[text[3].literal] \in 0 .. 255 /\ n.selector = <<IntOf[text[3].literal]>>
  BY DEF Layout
<1>7. \A j \in 1 .. T : text[h + 2 * j - 1] = Sign("whitespace") /\ text[h + 2 * j] = TermToken(n, j)
  BY DEF Layout
<1>8. \A i \in 1 .. C :
         LET q == Here(n, i - 1, 0)
             k == ClauseOrder(n)[i]
         IN /\ text[q + 1] = Sign("whitespace") /\ text[q + 2] = [type |-> k, literal |-> k]
            /\ text[q + 3] = Sign("colon") /\ text[q + 4] = FieldToken(n, i)
  BY DEF Layout
<1>9. V = 1 =>
         LET q == Here(n, C, 0)
         IN /\ text[q + 1] = Sign("whitespace") /\ text[q + 2] = [type |-> "vec", literal |-> "vec"]
            /\ text[q + 3] = Sign("colon") /\ text[q + 4] = Sign("dollar") /\ text[q + 5] = n.vec[1]
  BY DEF Layout
<1> HIDE DEF text, h, T, C, V, L
<1>10. L = h + 2 * T + 4 * C + 5 * V
  BY <1>1, <1>2
<1>11. 1 \in 1 .. L /\ (h = 3 => 2 \in 1 .. L /\ 3 \in 1 .. L)
  BY <1>1, <1>10
<1>12. ASSUME NEW j \in 1 .. T
       PROVE  TokenAt(text, h + 2 * j - 1) = Sign("whitespace") /\ TokenAt(text, h + 2 * j) = TermToken(n, j)
  <2>1. h + 2 * j - 1 \in 1 .. L /\ h + 2 * j \in 1 .. L
    BY <1>1, <1>10
  <2> QED
    BY <1>4, <1>7, <2>1
<1>13. ASSUME NEW i \in 1 .. C
       PROVE  LET q == Here(n, i - 1, 0)
                  k == ClauseOrder(n)[i]
              IN /\ TokenAt(text, q + 1) = Sign("whitespace")
                 /\ TokenAt(text, q + 2) = [type |-> k, literal |-> k]
                 /\ TokenAt(text, q + 3) = Sign("colon") /\ TokenAt(text, q + 4) = FieldToken(n, i)
  <2> DEFINE q == Here(n, i - 1, 0)
  <2>1. q = h + 2 * T + 4 * (i - 1)
    BY SMTT(30), <1>1, <1>2
  <2> HIDE DEF q
  <2>2. q + 1 \in 1 .. L /\ q + 2 \in 1 .. L /\ q + 3 \in 1 .. L /\ q + 4 \in 1 .. L
    BY <1>1, <1>10, <2>1
  <2>3. /\ text[q + 1] = Sign("whitespace")
        /\ text[q + 2] = [type |-> ClauseOrder(n)[i], literal |-> ClauseOrder(n)[i]]
        /\ text[q + 3] = Sign("colon") /\ text[q + 4] = FieldToken(n, i)
    BY <1>8 DEF q
  <2>4. /\ TokenAt(text, q + 1) = text[q + 1] /\ TokenAt(text, q + 2) = text[q + 2]
        /\ TokenAt(text, q + 3) = text[q + 3] /\ TokenAt(text, q + 4) = text[q + 4]
    BY <1>4, <2>2
  <2> QED
    BY <2>3, <2>4 DEF q
<1>14. ASSUME V = 1
       PROVE  LET q == Here(n, C, 0)
              IN /\ TokenAt(text, q + 1) = Sign("whitespace")
                 /\ TokenAt(text, q + 2) = [type |-> "vec", literal |-> "vec"]
                 /\ TokenAt(text, q + 3) = Sign("colon") /\ TokenAt(text, q + 4) = Sign("dollar")
                 /\ TokenAt(text, q + 5) = n.vec[1]
  <2> DEFINE q == Here(n, C, 0)
  <2>1. q = h + 2 * T + 4 * C
    BY <1>1, <1>2
  <2>2. /\ text[q + 1] = Sign("whitespace") /\ text[q + 2] = [type |-> "vec", literal |-> "vec"]
        /\ text[q + 3] = Sign("colon") /\ text[q + 4] = Sign("dollar") /\ text[q + 5] = n.vec[1]
    BY <1>9, <1>14
  <2> HIDE DEF q
  <2>3. q + 1 \in 1 .. L /\ q + 2 \in 1 .. L /\ q + 3 \in 1 .. L /\ q + 4 \in 1 .. L /\ q + 5 \in 1 .. L
    BY <1>1, <1>10, <1>14, <2>1
  <2>4. /\ TokenAt(text, q + 1) = text[q + 1] /\ TokenAt(text, q + 2) = text[q + 2]
        /\ TokenAt(text, q + 3) = text[q + 3] /\ TokenAt(text, q + 4) = text[q + 4]
        /\ TokenAt(text, q + 5) = text[q + 5]
    BY <1>4, <2>3
  <2> QED
    BY <2>2, <2>4 DEF q
<1>15. TokenAt(text, 1).type = n.kind
  BY <1>1, <1>4, <1>11
<1>16. h = 3 => TokenAt(text, 2) = text[2] /\ TokenAt(text, 3) = text[3]
  BY <1>4, <1>11
<1>17. h = 3 => /\ TokenAt(text, 2).type = "at" /\ TokenAt(text, 3).literal \in DOMAIN IntOf
                /\ IntOf[TokenAt(text, 3).literal] \in 0 .. 255
                /\ n.selector = <<IntOf[TokenAt(text, 3).literal]>>
  BY <1>6, <1>16
<1> QED
  BY <1>5, <1>12, <1>13, <1>14, <1>15, <1>17 DEF text, h, T, C, V, L

\* Where the printed command ends, and what its lengths are.
LEMMA LayoutLengths ==
  ASSUME NEW n, Layout(n)
  PROVE  LET T == Len(n.terms)
             C == Len(ClauseOrder(n))
             V == Len(n.vec)
             h == HeadLen(n)
         IN /\ T \in Nat /\ C \in Nat /\ V \in {0, 1} /\ h \in {1, 3} /\ (n.selector = <<>> <=> h = 1)
            /\ Len(Printed(n)) = h + 2 * T + 4 * C + 5 * V
            /\ \A i, j : Here(n, i, j) = h + 2 * T + 4 * i + 5 * j
  BY DEF Layout, Here

\* What follows i clauses and v vectors: a blank before the next, or the end.
LEMMA GapAt ==
  ASSUME NEW n, Layout(n), NEW i \in 0 .. Len(ClauseOrder(n)), NEW v \in 0 .. Len(n.vec),
         v = 0 \/ i = Len(ClauseOrder(n))
  PROVE  LET text == Printed(n)
             q == Here(n, i, v)
         IN \/ /\ i = Len(ClauseOrder(n)) /\ v = Len(n.vec) /\ q = Len(text)
               /\ TokenAt(text, q + 1) = EOL
            \/ /\ i < Len(ClauseOrder(n)) \/ (v = 0 /\ Len(n.vec) = 1)
               /\ v = 0 /\ q + 4 <= Len(text) /\ TokenAt(text, q + 1) = Sign("whitespace")
<1> DEFINE text == Printed(n)
           T == Len(n.terms)
           C == Len(ClauseOrder(n))
           V == Len(n.vec)
           h == HeadLen(n)
           q == Here(n, i, v)
           L == Len(text)
<1>1. /\ T \in Nat /\ C \in Nat /\ V \in {0, 1} /\ h \in {1, 3}
      /\ L = h + 2 * T + 4 * C + 5 * V
      /\ \A a, b : Here(n, a, b) = h + 2 * T + 4 * a + 5 * b
  BY LayoutLengths
<1>2. /\ \A a \in 1 .. C : TokenAt(text, Here(n, a - 1, 0) + 1) = Sign("whitespace")
      /\ V = 1 => TokenAt(text, Here(n, C, 0) + 1) = Sign("whitespace")
      /\ TokenAt(text, L + 1) = EOL
  BY TextAt
<1>3. i \in 0 .. C /\ v \in 0 .. V /\ (v = 0 \/ i = C)
  OBVIOUS
<1>4. q = h + 2 * T + 4 * i + 5 * v
  BY <1>1
<1>5. CASE i < C
  <2>1. i + 1 \in 1 .. C /\ (i + 1) - 1 = i /\ v = 0
    BY <1>1, <1>3, <1>5
  <2>2. TokenAt(text, q + 1) = Sign("whitespace")
    BY <1>2, <2>1
  <2> HIDE DEF q, L, C, V, h, T, text
  <2>3. q + 4 <= L
    BY <1>1, <1>3, <1>4, <1>5
  <2> QED
    BY <1>5, <2>1, <2>2, <2>3 DEF q, L, C, V, text
<1>6. CASE i = C /\ v < V
  <2>1. v = 0 /\ V = 1
    <3> HIDE DEF q, L, C, V, h, T, text
    <3> QED
      BY <1>1, <1>3, <1>6
  <2>2. TokenAt(text, q + 1) = Sign("whitespace")
    BY <1>2, <1>6, <2>1
  <2> HIDE DEF q, L, C, V, h, T, text
  <2>3. q + 4 <= L
    BY <1>1, <1>3, <1>4, <1>6, <2>1
  <2> QED
    BY <2>1, <2>2, <2>3 DEF q, L, V, text
<1>7. CASE i = C /\ v = V
  <2>1. q = L
    BY <1>1, <1>4, <1>7
  <2> QED
    BY <1>2, <1>7, <2>1
<1> QED
  BY <1>1, <1>3, <1>5, <1>6, <1>7

-----------------------------------------------------------------------------
(* The place in the printed command moves with the window.                 *)

\* Again, CountsAt and PlaceAt, of a node n and a mode m.
AgainOf(n, o, m, t, i, v) ==
    /\ n.terms = [j \in 1 .. t |-> TermToken(o, j)]
    /\ \A k \in Anchors \cup Modifiers :
          n[k] = [j \in 1 .. Times(ClauseOrder(o), i, k) |-> PrintedField(k, o[k][j])[1]]
    /\ n.vec = SubSeq(o.vec, 1, v)
    /\ o.kind = "remember" => n.anchors = SubSeq(o.anchors, 1, i)
    /\ m # "command" => n.kind = o.kind
    /\ n.selector = IF m \in {"command", "selector", "graph"} THEN <<>> ELSE o.selector

CountsOf(o, m, t, i, v) ==
    /\ t \in 0 .. Len(o.terms) /\ i \in 0 .. Len(ClauseOrder(o)) /\ v \in 0 .. Len(o.vec)
    /\ m \in Openings \cup {"phrase"} => t = 0
    /\ m \in Openings \cup {"phrase", "terms"} => i = 0
    /\ m \notin Openings \cup {"phrase", "terms"} => t = Len(o.terms)
    /\ v = 0 \/ (i = Len(ClauseOrder(o)) /\ m \in {"clauses", "finish", "tail", "parsed"})

PlaceOf(o, m, c, p, t, i, v) ==
    LET text == Printed(o)
        here == Here(o, i, v)
    IN CASE m = "command" -> p = 1
         [] m = "selector" -> p = 2
         [] m \in {"graph", "space"} -> p = (IF m = "graph" THEN 3 ELSE 4) /\ o.selector # <<>>
         [] m = "phrase" -> p = HeadLen(o) + 2
         [] m = "terms" -> \/ p = HeadLen(o) + 2 * t + 1 /\ t > 0
                           \/ p = HeadLen(o) + 2 * t + 2 /\ p <= Len(text) + 1
         [] m = "clauses" -> p = here + 1 \/ (p = here + 2 /\ p <= Len(text) + 1)
         [] m = "separator" -> p = here + 3 /\ p <= Len(text) /\ c = text[p - 1]
         [] m = "value" -> p = here + 4 /\ p <= Len(text) /\ c = text[p - 2]
         [] m = "param" -> p = here + 5 /\ p <= Len(text) /\ c = text[p - 3] /\ c.type = "vec"
         [] OTHER -> p = Len(text) + 1 /\ i = Len(ClauseOrder(o)) /\ v = Len(o.vec)

LEMMA BackAtIs ==
  ASSUME NEW p, NEW t, NEW i, NEW v
  PROVE  BackAt(p, t, i, v) <=>
           /\ PrintedAt(p) /\ CountsOf(origin, mode, t, i, v)
           /\ AgainOf(node, origin, mode, t, i, v) /\ PlaceOf(origin, mode, key, p, t, i, v)
<1>1. CountsAt(t, i, v) <=> CountsOf(origin, mode, t, i, v)
  BY DEF CountsAt, CountsOf
<1>2. Again(t, i, v) <=> AgainOf(node, origin, mode, t, i, v)
  BY DEF Again, AgainOf, TermToken
<1>3. PlaceAt(p, t, i, v) <=> PlaceOf(origin, mode, key, p, t, i, v)
  BY DEF PlaceAt, PlaceOf
<1> QED
  BY <1>1, <1>2, <1>3 DEF BackAt

LEMMA BackAtIsNext ==
  ASSUME NEW p, NEW t, NEW i, NEW v
  PROVE  BackAt(p, t, i, v)' <=>
           /\ PrintedAt(p)' /\ CountsOf(origin', mode', t, i, v)
           /\ AgainOf(node', origin', mode', t, i, v) /\ PlaceOf(origin', mode', key', p, t, i, v)
<1>1. CountsAt(t, i, v)' <=> CountsOf(origin', mode', t, i, v)
  BY DEF CountsAt, CountsOf
<1>2. Again(t, i, v)' <=> AgainOf(node', origin', mode', t, i, v)
  BY DEF Again, AgainOf, TermToken
<1>3. PlaceAt(p, t, i, v)' <=> PlaceOf(origin', mode', key', p, t, i, v)
  BY DEF PlaceAt, PlaceOf
<1> QED
  BY <1>1, <1>2, <1>3 DEF BackAt

\* What is left of a tape when its first token is read.
LEMMA TapeMoves ==
  ASSUME NEW S, NEW s \in Seq(S), NEW p \in Nat \ {0}
  PROVE  LET tape1 == SubSeq(s, p, Len(s))
         IN IF p <= Len(s) THEN /\ tape1 # <<>> /\ Head(tape1) = s[p]
                                /\ Tail(tape1) = SubSeq(s, p + 1, Len(s))
            ELSE tape1 = <<>> /\ SubSeq(s, p + 1, Len(s)) = <<>>
<1> DEFINE L == Len(s)
           a == SubSeq(s, p, L)
           b == SubSeq(s, p + 1, L)
<1>1. L \in Nat /\ \A i \in 1 .. L : s[i] \in S
  OBVIOUS
<1> HIDE DEF L
<1>2. CASE p <= L
  <2>1. /\ a \in Seq(S) /\ Len(a) = L - p + 1
        /\ \A i \in 1 .. L - p + 1 : a[i] = s[p + i - 1]
    <3>1. p \in Int /\ L \in Int /\ \A i \in p .. L : s[i] \in S
      BY <1>1
    <3> QED
      BY <1>2, <3>1, SubSeqProperties
  <2>2. /\ b \in Seq(S) /\ Len(b) = L - p
        /\ \A i \in 1 .. L - p : b[i] = s[p + i]
    <3>1. p + 1 \in Int /\ L \in Int /\ \A i \in p + 1 .. L : s[i] \in S
      BY <1>1
    <3>2. /\ b \in Seq(S) /\ Len(b) = IF p + 1 <= L THEN L - (p + 1) + 1 ELSE 0
          /\ \A i \in 1 .. L - (p + 1) + 1 : b[i] = s[p + 1 + i - 1]
      BY <3>1, SubSeqProperties
    <3> HIDE DEF b
    <3>3. Len(b) = L - p
      BY <1>1, <1>2, <3>2
    <3>4. \A i \in 1 .. L - p : p + 1 + i - 1 = p + i /\ i \in 1 .. L - (p + 1) + 1
      BY <1>1
    <3> QED
      BY <3>2, <3>3, <3>4
  <2> HIDE DEF a, b
  <2>3. a # <<>>
    BY <1>1, <1>2, <2>1
  <2>4. /\ Tail(a) \in Seq(S) /\ Len(Tail(a)) = Len(a) - 1
        /\ \A i \in 1 .. Len(Tail(a)) : Tail(a)[i] = a[i + 1]
    BY <2>1, <2>3, HeadTailProperties
  <2>5. Head(a) = a[1] /\ a[1] = s[p]
    <3>1. 1 \in 1 .. L - p + 1 /\ p + 1 - 1 = p
      BY <1>1, <1>2
    <3>2. a[1] = s[p]
      BY <2>1, <3>1
    <3> QED
      BY <2>1, <2>3, <3>2
  <2>6. Len(Tail(a)) = Len(b)
    BY <1>1, <2>1, <2>2, <2>4
  <2>7. \A i \in 1 .. Len(Tail(a)) : Tail(a)[i] = b[i]
    <3>1. TAKE i \in 1 .. Len(Tail(a))
    <3>2. i \in 1 .. L - p /\ i + 1 \in 1 .. L - p + 1 /\ p + (i + 1) - 1 = p + i
      BY <1>1, <2>2, <2>6
    <3> QED
      BY <2>1, <2>2, <2>4, <3>2
  <2>8. Tail(a) = b
    BY <2>2, <2>4, <2>6, <2>7, SeqEqual
  <2> QED
    BY <1>2, <2>3, <2>5, <2>8 DEF a, b, L
<1>3. CASE p > L
  <2>1. a = <<>> /\ b = <<>>
    BY <1>1, <1>3, SubSeqEmpty
  <2> QED
    BY <1>1, <1>3, <2>1 DEF a, b, L
<1> QED
  BY <1>1, <1>2, <1>3

\* The parser reads a printed command again.
Reread ==
    /\ QueryInv /\ NodeInv /\ origin # NoNode
    /\ NonNegative(origin) /\ Whole(origin) /\ Layout(origin)

LEMMA BackMoves ==
  ASSUME Reread, NEW p \in Nat \ {0}, PrintedAt(p), Shift, UNCHANGED origin
  PROVE  PrintedAt(p + 1)'
<1> DEFINE text == Printed(origin)
           L == Len(text)
           S == ToSet(text)
<1>1. text \in Seq(S)
  BY DEF Reread, Layout, Text
<1>2. /\ cur = TokenAt(text, p) /\ peek = TokenAt(text, p + 1) /\ tape = SubSeq(text, p + 2, L)
  BY DEF PrintedAt
<1>3. /\ cur' = peek /\ peek' = (IF tape = <<>> THEN EOL ELSE Head(tape))
      /\ tape' = IF tape = <<>> THEN tape ELSE Tail(tape)
  BY DEF Shift, Reread
<1>4. Printed(origin)' = text
  OBVIOUS
<1> HIDE DEF text, S
<1>5. L \in Nat /\ DOMAIN text = 1 .. L /\ p + 2 \in Nat \ {0} /\ (p + 2) + 1 = p + 3
  BY <1>1
<1>6. IF p + 2 <= L THEN tape # <<>> /\ Head(tape) = text[p + 2] /\ Tail(tape) = SubSeq(text, p + 3, L)
      ELSE tape = <<>> /\ SubSeq(text, p + 3, L) = <<>>
  <2> DEFINE q == p + 2
  <2>1. q \in Nat \ {0} /\ q + 1 = p + 3 /\ tape = SubSeq(text, q, Len(text))
    BY <1>2, <1>5
  <2> HIDE DEF q
  <2>2. IF q <= L THEN tape # <<>> /\ Head(tape) = text[q] /\ Tail(tape) = SubSeq(text, q + 1, L)
        ELSE tape = <<>> /\ SubSeq(text, q + 1, L) = <<>>
    BY <1>1, <2>1, TapeMoves
  <2> QED
    BY <2>1, <2>2 DEF q
<1>7. peek' = TokenAt(text, p + 2) /\ tape' = SubSeq(text, p + 3, L)
  <2>1. CASE p + 2 <= L
    <3>1. p + 2 \in DOMAIN text
      BY <1>5, <2>1
    <3> QED
      BY <1>3, <1>6, <2>1, <3>1 DEF TokenAt
  <2>2. CASE ~(p + 2 <= L)
    <3>1. p + 2 \notin DOMAIN text
      BY <1>5, <2>2
    <3> QED
      BY <1>3, <1>6, <2>2, <3>1 DEF TokenAt
  <2> QED
    BY <2>1, <2>2
<1>8. (p + 1) + 1 = p + 2 /\ (p + 1) + 2 = p + 3
  OBVIOUS
<1> QED
  BY <1>2, <1>3, <1>4, <1>7, <1>8 DEF PrintedAt, TokenAt, L

\* A place that was reached.
LEMMA BackThere ==
  ASSUME Reread, UNCHANGED origin, NEW p \in 1 .. Len(Printed(origin)) + 1, PrintedAt(p)',
         NEW t, NEW i, NEW v, mode' \notin {"rejected", "bound"}, CountsOf(origin, mode', t, i, v),
         AgainOf(node', origin, mode', t, i, v), PlaceOf(origin, mode', key', p, t, i, v)
  PROVE  BackInv'
<1>1. BackAt(p, t, i, v)'
  BY BackAtIsNext
<1>2. t \in 0 .. Len(origin.terms) /\ i \in 0 .. Len(ClauseOrder(origin)) /\ v \in 0 .. Len(origin.vec)
  BY DEF CountsOf
<1>3. /\ Printed(origin)' = Printed(origin) /\ ClauseOrder(origin)' = ClauseOrder(origin)
      /\ origin' = origin
  OBVIOUS
<1>4. /\ p \in 1 .. Len(Printed(origin')) + 1 /\ t \in 0 .. Len(origin'.terms)
      /\ i \in 0 .. Len(ClauseOrder(origin')) /\ v \in 0 .. Len(origin'.vec)
  BY <1>2, <1>3
<1> QED
  BY <1>1, <1>4 DEF BackInv

LEMMA BackOn ==
  ASSUME Reread, NEW p \in Nat \ {0}, PrintedAt(p), p <= Len(Printed(origin)), Shift, UNCHANGED origin,
         NEW t, NEW i, NEW v, mode' \notin {"rejected", "bound"}, CountsOf(origin, mode', t, i, v),
         AgainOf(node', origin, mode', t, i, v), PlaceOf(origin, mode', key', p + 1, t, i, v)
  PROVE  BackInv'
<1>1. PrintedAt(p + 1)'
  BY BackMoves
<1>2. Len(Printed(origin)) \in Nat
  BY DEF Reread, Layout, Text
<1>3. p + 1 \in 1 .. Len(Printed(origin)) + 1
  BY <1>2
<1> QED
  BY <1>1, <1>3, BackThere

LEMMA BackHere ==
  ASSUME Reread, NEW p \in 1 .. Len(Printed(origin)) + 1, PrintedAt(p), UNCHANGED <<window, origin>>,
         NEW t, NEW i, NEW v, mode' \notin {"rejected", "bound"}, CountsOf(origin, mode', t, i, v),
         AgainOf(node', origin, mode', t, i, v), PlaceOf(origin, mode', key', p, t, i, v)
  PROVE  BackInv'
<1>1. PrintedAt(p)'
  BY DEF PrintedAt, TokenAt, window
<1> QED
  BY <1>1, BackThere

-----------------------------------------------------------------------------
(* Every production accepts what was printed for it.                       *)

LEMMA AgainSame ==
  ASSUME NEW n, NEW o, NEW m, NEW l, NEW t, NEW i, NEW v, AgainOf(n, o, m, t, i, v),
         {m, l} \cap {"command", "selector", "graph"} = {}
  PROVE  AgainOf(n, o, l, t, i, v)
  BY DEF AgainOf

\* A node with the same clauses and terms.
LEMMA AgainFields ==
  ASSUME NEW n, NEW r, NEW o, NEW m, NEW l, NEW t, NEW i, NEW v, AgainOf(n, o, m, t, i, v),
         r.terms = n.terms, r.vec = n.vec, r.anchors = n.anchors,
         \A k \in Anchors \cup Modifiers : r[k] = n[k],
         r.kind = o.kind, r.selector = IF l \in {"command", "selector", "graph"} THEN <<>> ELSE o.selector
  PROVE  AgainOf(r, o, l, t, i, v)
  BY DEF AgainOf

\* What a command's node says of its own text.
LEMMA SomethingSaid ==
  ASSUME NEW n, Whole(n), Layout(n)
  PROVE  Len(n.terms) > 0 \/ Len(ClauseOrder(n)) > 0 \/ Len(n.vec) > 0
<1> DEFINE ks == ClauseOrder(n)
<1>1. CASE n.kind = "recall"
  <2>1. n.terms # <<>> \/ NamesAnchors(n) \/ n.vec # <<>>
    BY <1>1 DEF Whole, Seeded
  <2>2. Holds(n) /\ HoldsSeqs(n)
    BY SeqsHeld DEF Whole
  <2>3. n.terms # <<>> => Len(n.terms) > 0
    <3>1. n.terms \in Seq({t \in Tokens : IsTerm(t)})
      BY <2>2 DEF Holds
    <3> QED
      BY <3>1
  <2>4. n.vec # <<>> => Len(n.vec) > 0
    <3>1. n.vec \in AtMostOne({t \in Tokens : t.type = "literal"})
      BY <2>2 DEF Holds
    <3> QED
      BY <3>1 DEF AtMostOne
  <2>5. ASSUME NEW k \in Anchors, n[k] # <<>> PROVE Len(ks) > 0
    <3>1. n[k] \in Seq({t \in Tokens : t.type \in Words \cup {"phrase"} /\ t.literal # Blank})
      BY <2>2 DEF Holds
    <3>2. Len(n[k]) > 0
      BY <2>5, <3>1
    <3>3. Times(ks, Len(ks), k) = Len(n[k])
      BY <1>1, <2>2, OrderFacts DEF Counted
    <3>4. Len(ks) \in Nat
      BY DEF Layout
    <3>5. Times(ks, Len(ks), k) \in 0 .. Len(ks)
      BY <3>4, TimesFacts
    <3> HIDE DEF ks
    <3> QED
      BY <3>2, <3>3, <3>4, <3>5
  <2> QED
    BY <2>1, <2>3, <2>4, <2>5 DEF NamesAnchors, Anchors
<1>2. CASE n.kind = "remember"
  BY <1>2 DEF Whole, Remembers
<1> QED
  BY <1>1, <1>2 DEF Whole

\* The first token behind the selector is a blank, and no '@' stands behind it.
LEMMA FirstGap ==
  ASSUME NEW n, Whole(n), Layout(n)
  PROVE  LET text == Printed(n)
             h == HeadLen(n)
         IN h + 2 <= Len(text) /\ TokenAt(text, h + 1).type = "whitespace" /\ TokenAt(text, h + 2).type # "at"
<1> DEFINE text == Printed(n)
           h == HeadLen(n)
           T == Len(n.terms)
           C == Len(ClauseOrder(n))
           V == Len(n.vec)
           L == Len(text)
<1>1. /\ T \in Nat /\ C \in Nat /\ V \in {0, 1} /\ h \in {1, 3} /\ L = h + 2 * T + 4 * C + 5 * V
      /\ \A a, b : Here(n, a, b) = h + 2 * T + 4 * a + 5 * b
  BY LayoutLengths
<1>2. T > 0 \/ C > 0 \/ V > 0
  BY SomethingSaid
<1>3. Sign("whitespace").type = "whitespace"
  BY DEF Sign
<1>4. CASE T > 0
  <2>1. 1 \in 1 .. T /\ h + 2 * 1 - 1 = h + 1 /\ h + 2 * 1 = h + 2 /\ h + 2 <= L
    <3> HIDE DEF h, T, C, V, L
    <3> QED
      BY <1>1, <1>4
  <2>2. TokenAt(text, h + 1) = Sign("whitespace") /\ TokenAt(text, h + 2) = TermToken(n, 1)
    BY <2>1, TextAt
  <2>3. IsTerm(TermToken(n, 1))
    BY <2>1, TermPrints
  <2>4. TermToken(n, 1).type # "at"
    BY <2>3 DEF IsTerm
  <2> QED
    BY <1>3, <2>1, <2>2, <2>4
<1>5. CASE T = 0 /\ C > 0
  <2>1. 1 \in 1 .. C /\ 1 - 1 = 0 /\ Here(n, 0, 0) = h /\ h + 2 <= L
    <3> HIDE DEF h, T, C, V, L
    <3> QED
      BY <1>1, <1>5
  <2>2. /\ TokenAt(text, h + 1) = Sign("whitespace")
        /\ TokenAt(text, h + 2) = [type |-> ClauseOrder(n)[1], literal |-> ClauseOrder(n)[1]]
    BY <2>1, TextAt
  <2>3. ClauseOrder(n)[1] \in Anchors \cup Modifiers
    BY <2>1, OrderPlaces
  <2>4. TokenAt(text, h + 2).type # "at"
    BY <2>2, <2>3 DEF Anchors, Modifiers
  <2> QED
    BY <1>3, <2>1, <2>2, <2>4
<1>6. CASE T = 0 /\ C = 0 /\ V = 1
  <2>1. Here(n, C, 0) = h /\ h + 2 <= L
    <3> HIDE DEF h, T, C, V, L
    <3> QED
      BY <1>1, <1>6
  <2>2. /\ TokenAt(text, h + 1) = Sign("whitespace")
        /\ TokenAt(text, h + 2) = [type |-> "vec", literal |-> "vec"]
    BY <1>6, <2>1, TextAt
  <2>3. TokenAt(text, h + 2).type # "at"
    BY <2>2
  <2> QED
    BY <1>3, <2>1, <2>2, <2>3
<1> QED
  BY <1>1, <1>2, <1>4, <1>5, <1>6

LEMMA BacksQuery ==
  ASSUME Reread, NEW p \in Nat \ {0}, NEW t, NEW i, NEW v, BackAt(p, t, i, v), ParseQuery
  PROVE  BackInv'
<1>1. mode = "command"
  BY DEF ParseQuery
<1>2. /\ PrintedAt(p) /\ CountsOf(origin, mode, t, i, v)
      /\ AgainOf(node, origin, mode, t, i, v) /\ PlaceOf(origin, mode, key, p, t, i, v)
  BY BackAtIs
<1>3. p = 1 /\ t = 0 /\ i = 0 /\ v = 0
  BY <1>1, <1>2 DEF PlaceOf, CountsOf, Openings
<1>4. cur.type = origin.kind /\ origin.kind \in {"recall", "remember"}
  BY <1>2, <1>3, TextAt DEF PrintedAt, Reread, Whole
<1>5. /\ Shift /\ mode' = "selector" /\ origin' = origin /\ node' = [node EXCEPT !.kind = cur.type]
  BY <1>4 DEF ParseQuery, Accept, Goes, Reject
<1>6. AgainOf(node', origin, mode', t, i, v)
  <2>1. node = [f \in DOMAIN EmptyNode |-> node[f]]
    BY DEF Reread, QueryInv
  <2>2. node'["kind"] = cur.type /\ \A f \in DOMAIN EmptyNode : f # "kind" => node'[f] = node[f]
    BY <1>5, <2>1, FieldNames, FieldSet
  <2>3. /\ node'.terms = node.terms /\ node'.vec = node.vec /\ node'.anchors = node.anchors
        /\ node'.selector = node.selector /\ \A k \in Anchors \cup Modifiers : node'[k] = node[k]
    BY <2>2, FieldNames DEF Anchors, Modifiers
  <2>4. node.selector = <<>>
    BY <1>1, <1>2 DEF AgainOf
  <2>5. node'.kind = origin.kind /\ mode' = "selector"
    BY <1>4, <1>5, <2>2
  <2> QED
    BY <1>2, <2>3, <2>4, <2>5, AgainFields
<1>7. CountsOf(origin, mode', t, i, v)
  BY <1>1, <1>2, <1>3, <1>5 DEF CountsOf, Openings
<1>8. p + 1 = 2 /\ PlaceOf(origin, mode', key', p + 1, t, i, v)
  BY <1>3, <1>5 DEF PlaceOf
<1>9. p <= Len(Printed(origin))
  BY <1>3, FirstGap, LayoutLengths DEF Reread
<1>10. mode' \notin {"rejected", "bound"}
  BY <1>5
<1> QED
  BY <1>2, <1>5, <1>6, <1>7, <1>8, <1>9, <1>10, BackOn

LEMMA BacksGraph ==
  ASSUME Reread, NEW p \in Nat \ {0}, NEW t, NEW i, NEW v, BackAt(p, t, i, v), ParseGraphSelector
  PROVE  BackInv'
<1>1. mode = "graph"
  BY DEF ParseGraphSelector
<1>2. /\ PrintedAt(p) /\ CountsOf(origin, mode, t, i, v)
      /\ AgainOf(node, origin, mode, t, i, v) /\ PlaceOf(origin, mode, key, p, t, i, v)
  BY BackAtIs
<1>3. p = 3 /\ t = 0 /\ i = 0 /\ v = 0 /\ origin.selector # <<>>
  BY <1>1, <1>2 DEF PlaceOf, CountsOf, Openings
<1>4. HeadLen(origin) = 3
  BY <1>3, LayoutLengths DEF Reread
<1>5. /\ cur.literal \in DOMAIN IntOf /\ IntOf[cur.literal] \in 0 .. 255
      /\ origin.selector = <<IntOf[cur.literal]>>
  BY <1>2, <1>3, <1>4, TextAt DEF PrintedAt, Reread
<1>6. /\ Shift /\ mode' = "space" /\ origin' = origin /\ node' = [node EXCEPT !.selector = <<IntOf[cur.literal]>>]
  BY <1>5 DEF ParseGraphSelector, Accept, Goes, Reject
<1>7. AgainOf(node', origin, mode', t, i, v)
  <2>1. node = [f \in DOMAIN EmptyNode |-> node[f]]
    BY DEF Reread, QueryInv
  <2>2. node'["selector"] = <<IntOf[cur.literal]>>
        /\ \A f \in DOMAIN EmptyNode : f # "selector" => node'[f] = node[f]
    BY <1>6, <2>1, FieldNames, FieldSet
  <2>3. /\ node'.terms = node.terms /\ node'.vec = node.vec /\ node'.anchors = node.anchors
        /\ node'.kind = node.kind /\ \A k \in Anchors \cup Modifiers : node'[k] = node[k]
    BY <2>2, FieldNames DEF Anchors, Modifiers
  <2>4. node.kind = origin.kind
    BY <1>1, <1>2 DEF AgainOf
  <2>5. node'.selector = origin.selector /\ mode' = "space" /\ node'.kind = origin.kind
    BY <1>5, <1>6, <2>2, <2>3, <2>4
  <2> QED
    BY <1>2, <2>3, <2>5, AgainFields
<1>8. CountsOf(origin, mode', t, i, v)
  BY <1>1, <1>2, <1>3, <1>6 DEF CountsOf, Openings
<1>9. p + 1 = 4 /\ PlaceOf(origin, mode', key', p + 1, t, i, v)
  BY <1>3, <1>6 DEF PlaceOf
<1>10. p <= Len(Printed(origin))
  BY <1>3, <1>4, FirstGap, LayoutLengths DEF Reread
<1>11. mode' \notin {"rejected", "bound"}
  BY <1>6
<1> QED
  BY <1>2, <1>6, <1>7, <1>8, <1>9, <1>10, <1>11, BackOn

LEMMA BacksSelector ==
  ASSUME Reread, NEW p \in Nat \ {0}, NEW t, NEW i, NEW v, BackAt(p, t, i, v), ParseSelector
  PROVE  BackInv'
<1> DEFINE text == Printed(origin)
           h == HeadLen(origin)
<1>1. mode \in {"selector", "space"}
  BY DEF ParseSelector
<1>2. /\ PrintedAt(p) /\ CountsOf(origin, mode, t, i, v)
      /\ AgainOf(node, origin, mode, t, i, v) /\ PlaceOf(origin, mode, key, p, t, i, v)
  BY BackAtIs
<1>3. /\ t = 0 /\ i = 0 /\ v = 0 /\ (mode = "selector" => p = 2)
      /\ (mode = "space" => p = 4 /\ origin.selector # <<>>)
  BY <1>1, <1>2 DEF PlaceOf, CountsOf, Openings
<1>4. cur = TokenAt(text, p) /\ peek = TokenAt(text, p + 1)
  BY <1>2 DEF PrintedAt
<1>5. h \in {1, 3} /\ (origin.selector = <<>> <=> h = 1)
  BY LayoutLengths DEF Reread
<1>6. /\ h + 2 <= Len(text) /\ TokenAt(text, h + 1).type = "whitespace"
      /\ TokenAt(text, h + 2).type # "at" /\ (h = 3 => TokenAt(text, 2).type = "at")
  BY FirstGap, TextAt DEF Reread
<1>7. Len(text) \in Nat
  BY SMTT(30) DEF Reread, Layout, Text
<1>8. node.kind = origin.kind /\ origin.kind \in {"recall", "remember"}
  BY <1>1, <1>2 DEF AgainOf, Reread, Whole
<1> HIDE DEF text, h
<1>9. CASE mode = "selector" /\ h = 3
  <2>1. p = 2 /\ cur.type = "at"
    BY <1>3, <1>4, <1>6, <1>9
  <2>2. Shift /\ mode' = "graph" /\ origin' = origin /\ node' = node
    BY <1>9, <2>1 DEF ParseSelector, Accept, Goes
  <2>3. AgainOf(node', origin, mode', t, i, v)
    BY <1>2, <1>9, <2>2 DEF AgainOf
  <2>4. CountsOf(origin, mode', t, i, v)
    BY <1>2, <1>3, <2>2 DEF CountsOf, Openings
  <2>5. PlaceOf(origin, mode', key', p + 1, t, i, v)
    <3>1. p + 1 = 3 /\ origin.selector # <<>>
      BY <1>5, <1>9, <2>1
    <3> QED
      BY <2>2, <3>1 DEF PlaceOf
  <2>6. p <= Len(text) /\ mode' \notin {"rejected", "bound"}
    BY <1>6, <1>7, <1>9, <2>1, <2>2
  <2> QED
    BY <1>2, <2>2, <2>3, <2>4, <2>5, <2>6, BackOn DEF text
<1>10. CASE ~(mode = "selector" /\ h = 3)
  <2>1. p = h + 1 /\ h + 1 <= Len(text)
    BY <1>1, <1>3, <1>5, <1>6, <1>7, <1>10
  <2>2. cur.type = "whitespace" /\ peek.type # "at"
    <3>1. p + 1 = h + 2
      BY <1>5, <2>1
    <3> QED
      BY <1>4, <1>6, <2>1, <3>1
  <2>3. /\ Shift /\ mode' = (IF node.kind = "recall" THEN "terms" ELSE "phrase")
        /\ origin' = origin /\ node' = node
    BY <2>2 DEF ParseSelector, Accept, Goes, Reject
  <2>4. origin.selector = node.selector
    <3>1. CASE mode = "selector"
      BY <1>2, <1>5, <1>10, <3>1 DEF AgainOf
    <3>2. CASE mode = "space"
      BY <1>2, <3>2 DEF AgainOf
    <3> QED
      BY <1>1, <3>1, <3>2
  <2>5. mode' \in {"terms", "phrase"}
    BY <2>3
  <2>6. AgainOf(node', origin, mode', t, i, v)
    BY <1>2, <1>8, <2>3, <2>4, <2>5 DEF AgainOf
  <2>7. CountsOf(origin, mode', t, i, v)
    BY <1>2, <1>3, <2>5 DEF CountsOf, Openings
  <2>8. PlaceOf(origin, mode', key', p + 1, t, i, v)
    <3>1. p + 1 = h + 2 /\ p + 1 = h + 2 * 0 + 2 /\ p + 1 <= Len(text) + 1
      BY <1>5, <1>6, <1>7, <2>1
    <3> QED
      BY <1>3, <2>5, <3>1 DEF PlaceOf, h, text
  <2>9. p <= Len(text) /\ mode' \notin {"rejected", "bound"}
    BY <2>1, <2>5
  <2> QED
    BY <1>2, <2>3, <2>6, <2>7, <2>8, <2>9, BackOn DEF text
<1> QED
  BY <1>9, <1>10

\* A list that grows by its next element.
LEMMA Grown ==
  ASSUME NEW m \in Nat, NEW S, NEW s \in [1 .. m -> S], NEW w \in [1 .. m + 1 -> S],
         \A j \in 1 .. m : s[j] = w[j]
  PROVE  Append(s, w[m + 1]) = w
<1>1. s \in Seq(S) /\ Len(s) = m /\ w \in Seq(S) /\ Len(w) = m + 1
  BY SeqDef
<1> DEFINE e == w[m + 1]
<1>2. e \in S
  OBVIOUS
<1> HIDE DEF e
<1>3. Append(s, e) \in Seq(S) /\ Len(Append(s, e)) = m + 1 /\ Append(s, e)[m + 1] = e
      /\ \A j \in 1 .. m : Append(s, e)[j] = s[j]
  BY <1>1, <1>2, AppendProperties
<1>4. \A j \in 1 .. m : Append(s, e)[j] = w[j]
  BY <1>3
<1>5. \A j \in 1 .. m + 1 : j \in 1 .. m \/ j = m + 1
  OBVIOUS
<1>6. \A j \in 1 .. m + 1 : Append(s, e)[j] = w[j]
  BY <1>3, <1>4, <1>5 DEF e
<1>7. Append(s, e) = w
  BY <1>1, <1>3, <1>6, SeqEqual
<1> QED
  BY <1>7 DEF e

\* The terms are read again, one more of them.
LEMMA AgainTerm ==
  ASSUME NEW n, NEW r, NEW o, NEW m, NEW l, NEW t \in Nat, NEW i, NEW v, AgainOf(n, o, m, t, i, v),
         {m, l} \cap {"command", "selector", "graph"} = {},
         n = [f \in DOMAIN EmptyNode |-> n[f]],
         r = [n EXCEPT !.terms = Append(n.terms, TermToken(o, t + 1))]
  PROVE  AgainOf(r, o, l, t + 1, i, v)
<1>1. r["terms"] = Append(n.terms, TermToken(o, t + 1))
      /\ \A f \in DOMAIN EmptyNode : f # "terms" => r[f] = n[f]
  BY FieldNames, FieldSet
<1>2. /\ r.vec = n.vec /\ r.anchors = n.anchors /\ r.kind = n.kind /\ r.selector = n.selector
      /\ \A k \in Anchors \cup Modifiers : r[k] = n[k]
  BY <1>1, FieldNames DEF Anchors, Modifiers
<1>3. r.terms = [j \in 1 .. t + 1 |-> TermToken(o, j)]
  <2> DEFINE S == {TermToken(o, j) : j \in Nat}
             s == [j \in 1 .. t |-> TermToken(o, j)]
             w == [j \in 1 .. t + 1 |-> TermToken(o, j)]
  <2>1. s \in [1 .. t -> S] /\ w \in [1 .. t + 1 -> S] /\ \A j \in 1 .. t : s[j] = w[j]
    OBVIOUS
  <2>2. w[t + 1] = TermToken(o, t + 1)
    OBVIOUS
  <2> HIDE DEF s, w, S
  <2>3. Append(s, w[t + 1]) = w
    BY <2>1, Grown
  <2>4. n.terms = s
    BY DEF AgainOf, s
  <2> QED
    BY <1>1, <2>2, <2>3, <2>4 DEF w
<1> QED
  BY <1>2, <1>3 DEF AgainOf

LEMMA BacksPhrase ==
  ASSUME Reread, NEW p \in Nat \ {0}, NEW t, NEW i, NEW v, BackAt(p, t, i, v), ParsePhrase
  PROVE  BackInv'
<1> DEFINE text == Printed(origin)
           h == HeadLen(origin)
<1>1. mode = "phrase"
  BY DEF ParsePhrase
<1>2. /\ PrintedAt(p) /\ CountsOf(origin, mode, t, i, v)
      /\ AgainOf(node, origin, mode, t, i, v) /\ PlaceOf(origin, mode, key, p, t, i, v)
  BY BackAtIs
<1>3. p = h + 2 /\ t = 0 /\ i = 0 /\ v = 0
  BY <1>1, <1>2 DEF PlaceOf, CountsOf, Openings
<1>4. cur = TokenAt(text, p) /\ peek = TokenAt(text, p + 1)
  BY <1>2 DEF PrintedAt
<1>5. node.kind = origin.kind /\ node.kind = "remember"
  BY <1>1, <1>2 DEF AgainOf, Reread, NodeInv
<1>6. Len(origin.terms) = 1
  BY <1>5 DEF Reread, Whole, Remembers
<1>7. /\ h \in {1, 3} /\ Len(text) \in Nat /\ h + 2 <= Len(text) /\ Here(origin, 0, 0) = h + 2
  <2>1. Here(origin, 0, 0) = h + 2 * Len(origin.terms) + 4 * 0 + 5 * 0 /\ h \in {1, 3}
    BY LayoutLengths DEF Reread
  <2>2. h + 2 <= Len(text) /\ Len(text) \in Nat
    <3>1. h + 2 <= Len(text)
      BY FirstGap DEF Reread
    <3>2. text \in Seq(ToSet(text))
      BY DEF Reread, Layout, Text
    <3> QED
      BY <3>1, <3>2
  <2> HIDE DEF h, text
  <2> QED
    BY <1>6, <2>1, <2>2
<1>8. cur = TermToken(origin, 1) /\ IsTerm(cur) /\ cur.type = "phrase"
  <2>1. 1 \in 1 .. Len(origin.terms) /\ p = h + 2 * 1
    BY <1>3, <1>6, <1>7
  <2>2. cur = TermToken(origin, 1)
    BY <1>4, <2>1, TextAt DEF Reread
  <2> QED
    BY <1>5, <2>1, <2>2, TermPrints DEF Reread
<1>9. peek = Sign("whitespace") \/ peek = EOL
  <2>1. 0 \in 0 .. Len(ClauseOrder(origin)) /\ 0 \in 0 .. Len(origin.vec)
    BY <1>2, <1>3 DEF CountsOf
  <2>2. p + 1 = Here(origin, 0, 0) + 1
    BY <1>3, <1>7
  <2> QED
    BY <1>4, <2>1, <2>2, GapAt DEF Reread
<1>10. IsBlank(peek) \/ IsEndOfLine(peek)
  BY <1>9 DEF Sign, EOL, IsBlank, IsEndOfLine
<1>11. /\ Shift /\ mode' = "clauses" /\ origin' = origin /\ node' = [node EXCEPT !.terms = <<cur>>]
  BY <1>8, <1>10 DEF ParsePhrase, IsTerm, Accept, Goes, Reject
<1>12. AgainOf(node', origin, mode', 1, i, v)
  <2>1. node.terms = <<>>
    <3>1. node.terms = [j \in 1 .. 0 |-> TermToken(origin, j)]
      BY <1>2, <1>3 DEF AgainOf
    <3> QED
      BY <3>1
  <2>2. node' = [node EXCEPT !.terms = Append(node.terms, TermToken(origin, 0 + 1))]
    BY <1>8, <1>11, <2>1
  <2>3. node = [f \in DOMAIN EmptyNode |-> node[f]]
    BY DEF Reread, QueryInv
  <2>4. AgainOf(node', origin, mode', 0 + 1, i, v)
    BY <1>1, <1>2, <1>3, <1>11, <2>2, <2>3, AgainTerm
  <2> QED
    BY <2>4
<1>13. CountsOf(origin, mode', 1, i, v)
  BY <1>2, <1>3, <1>6, <1>11 DEF CountsOf, Openings
<1>14. PlaceOf(origin, mode', key', p + 1, 1, i, v)
  <2>1. p + 1 = Here(origin, i, v) + 1
    BY <1>3, <1>7
  <2> QED
    BY <1>11, <2>1 DEF PlaceOf
<1>15. p <= Len(text) /\ mode' \notin {"rejected", "bound"}
  BY <1>3, <1>7, <1>11
<1> QED
  BY <1>2, <1>11, <1>12, <1>13, <1>14, <1>15, BackOn

\* The tokens of the next clause.
LEMMA ClauseTokens ==
  ASSUME NEW n, Whole(n), NonNegative(n), Layout(n), NEW i \in Nat, i < Len(ClauseOrder(n))
  PROVE  LET text == Printed(n)
             q == Here(n, i, 0)
             k == ClauseOrder(n)[i + 1]
         IN /\ TokenAt(text, q + 2) = [type |-> k, literal |-> k]
            /\ TokenAt(text, q + 3) = Sign("colon") /\ TokenAt(text, q + 4) = FieldToken(n, i + 1)
            /\ q \in Nat /\ q + 4 <= Len(text) /\ k \in Anchors \cup Modifiers
            /\ Nr(n, i + 1) = Times(ClauseOrder(n), i, k) + 1 /\ Times(ClauseOrder(n), i, k) \in Nat
            /\ Nr(n, i + 1) <= Len(n[k]) /\ (n.kind = "remember" => k \in Anchors)
            /\ \A c \in Anchors \cup Modifiers :
                  c # k => Times(ClauseOrder(n), i + 1, c) = Times(ClauseOrder(n), i, c)
            /\ SaysAs(k, FieldToken(n, i + 1), n[k][Nr(n, i + 1)])
<1> DEFINE C == Len(ClauseOrder(n))
           e == i + 1
<1>1. /\ Len(n.terms) \in Nat /\ C \in Nat /\ Len(n.vec) \in {0, 1} /\ HeadLen(n) \in {1, 3}
      /\ Len(Printed(n)) = HeadLen(n) + 2 * Len(n.terms) + 4 * C + 5 * Len(n.vec)
      /\ Here(n, i, 0) = HeadLen(n) + 2 * Len(n.terms) + 4 * i + 5 * 0
  BY LayoutLengths
<1> HIDE DEF C
<1>2. e \in 1 .. C /\ e - 1 = i
  BY <1>1 DEF C
<1>3. Here(n, i, 0) \in Nat /\ Here(n, i, 0) + 4 <= Len(Printed(n))
  <2> DEFINE q == Here(n, i, 0)
             L == Len(Printed(n))
             T == Len(n.terms)
             h == HeadLen(n)
             V == Len(n.vec)
  <2> HIDE DEF q, L, T, h, V
  <2>1. T \in Nat /\ C \in Nat /\ V \in {0, 1} /\ h \in {1, 3} /\ L = h + 2 * T + 4 * C + 5 * V
        /\ q = h + 2 * T + 4 * i + 5 * 0
    BY <1>1 DEF q, L, T, h, V
  <2>2. i + 1 <= C
    BY <1>1, <1>2
  <2>3. q \in Nat /\ q + 4 <= L
    BY <2>1, <2>2
  <2> QED
    BY <2>3 DEF q, L
<1> HIDE DEF e
<1> USE DEF C
<1>4. LET k == ClauseOrder(n)[e]
      IN /\ TokenAt(Printed(n), Here(n, i, 0) + 2) = [type |-> k, literal |-> k]
         /\ TokenAt(Printed(n), Here(n, i, 0) + 3) = Sign("colon")
         /\ TokenAt(Printed(n), Here(n, i, 0) + 4) = FieldToken(n, e)
  BY <1>2, TextAt
<1>5. LET k == ClauseOrder(n)[e]
      IN /\ k \in Anchors \cup Modifiers
         /\ Nr(n, e) = Times(ClauseOrder(n), i, k) + 1 /\ Times(ClauseOrder(n), i, k) \in Nat
         /\ Nr(n, e) \in 1 .. Len(n[k])
         /\ \A c \in Anchors \cup Modifiers : c # k => Times(ClauseOrder(n), e, c) = Times(ClauseOrder(n), i, c)
         /\ n.kind = "remember" => k \in Anchors
  BY <1>2, OrderPlaces
<1>6. SaysAs(ClauseOrder(n)[e], FieldToken(n, e), n[ClauseOrder(n)[e]][Nr(n, e)])
  BY <1>2, FieldPiece
<1>7. Nr(n, e) <= Len(n[ClauseOrder(n)[e]])
  BY <1>5
<1> QED
  BY <1>3, <1>4, <1>5, <1>6, <1>7 DEF e

\* The tokens of the vector.
LEMMA VecTokens ==
  ASSUME NEW n, Whole(n), Layout(n), Len(n.vec) = 1
  PROVE  LET text == Printed(n)
             q == Here(n, Len(ClauseOrder(n)), 0)
         IN /\ TokenAt(text, q + 2) = [type |-> "vec", literal |-> "vec"]
            /\ TokenAt(text, q + 3) = Sign("colon") /\ TokenAt(text, q + 4) = Sign("dollar")
            /\ TokenAt(text, q + 5) = n.vec[1] /\ n.vec[1].type = "literal" /\ n.vec = <<n.vec[1]>>
            /\ q \in Nat /\ q + 5 = Len(text)
<1> DEFINE q == Here(n, Len(ClauseOrder(n)), 0)
           L == Len(Printed(n))
           T == Len(n.terms)
           C == Len(ClauseOrder(n))
           h == HeadLen(n)
           V == Len(n.vec)
<1>0. V = 1
  OBVIOUS
<1>1. /\ T \in Nat /\ C \in Nat /\ h \in {1, 3} /\ L = h + 2 * T + 4 * C + 5 * V
      /\ q = h + 2 * T + 4 * C + 5 * 0
  <2>1. \A i, j : Here(n, i, j) = h + 2 * T + 4 * i + 5 * j
    BY LayoutLengths
  <2>2. T \in Nat /\ C \in Nat /\ h \in {1, 3} /\ L = h + 2 * T + 4 * C + 5 * V
    BY LayoutLengths
  <2> QED
    BY <2>1, <2>2
<1>2. n.vec[1].type = "literal" /\ n.vec = <<n.vec[1]>>
  BY DEF Whole, Holds, AtMostOne
<1>3. /\ TokenAt(Printed(n), q + 2) = [type |-> "vec", literal |-> "vec"]
      /\ TokenAt(Printed(n), q + 3) = Sign("colon") /\ TokenAt(Printed(n), q + 4) = Sign("dollar")
      /\ TokenAt(Printed(n), q + 5) = n.vec[1]
  BY TextAt
<1>4. q \in Nat /\ q + 5 = L
  <2> HIDE DEF q, L, T, C, h, V
  <2> QED
    BY <1>0, <1>1
<1> QED
  BY <1>2, <1>3, <1>4

\* The keyword of the next clause or of the vector, behind a blank.
LEMMA KeywordNext ==
  ASSUME NEW n, Whole(n), NonNegative(n), Layout(n), NEW i \in 0 .. Len(ClauseOrder(n)),
         i < Len(ClauseOrder(n)) \/ Len(n.vec) = 1
  PROVE  LET text == Printed(n)
             q == Here(n, i, 0)
             k == IF i < Len(ClauseOrder(n)) THEN ClauseOrder(n)[i + 1] ELSE "vec"
         IN /\ TokenAt(text, q + 2) = [type |-> k, literal |-> k] /\ TokenAt(text, q + 3) = Sign("colon")
            /\ k \in ClauseWords /\ q \in Nat /\ q + 4 <= Len(text)
<1>0. Len(ClauseOrder(n)) \in Nat /\ i \in Nat /\ Len(Printed(n)) \in Nat
  BY DEF Layout, Text
<1>1. CASE i < Len(ClauseOrder(n))
  <2>1. LET q == Here(n, i, 0)
            k == ClauseOrder(n)[i + 1]
        IN /\ TokenAt(Printed(n), q + 2) = [type |-> k, literal |-> k]
           /\ TokenAt(Printed(n), q + 3) = Sign("colon") /\ k \in Anchors \cup Modifiers
           /\ q \in Nat /\ q + 4 <= Len(Printed(n))
    BY <1>0, <1>1, ClauseTokens
  <2> QED
    BY <1>1, <2>1 DEF ClauseWords
<1>2. CASE ~(i < Len(ClauseOrder(n)))
  <2>1. i = Len(ClauseOrder(n)) /\ Len(n.vec) = 1
    BY <1>0, <1>2
  <2>2. LET q == Here(n, i, 0)
        IN /\ TokenAt(Printed(n), q + 2) = [type |-> "vec", literal |-> "vec"]
           /\ TokenAt(Printed(n), q + 3) = Sign("colon") /\ q \in Nat /\ q + 5 = Len(Printed(n))
    BY <2>1, VecTokens
  <2>3. Here(n, i, 0) + 4 <= Len(Printed(n))
    BY <2>2
  <2> QED
    BY <1>2, <2>2, <2>3 DEF ClauseWords
<1> QED
  BY <1>1, <1>2

LEMMA KeywordToken ==
  ASSUME NEW k \in ClauseWords, NEW t, t = [type |-> k, literal |-> k], NEW u, u = Sign("colon")
  PROVE  /\ t.type = k /\ t.type \in Keywords /\ t.type \notin {"eol", "newline", "whitespace", "nul", "literal", "phrase"}
         /\ u.type = "colon"
<1>1. t.type = k /\ u.type = "colon"
  BY DEF Sign
<1> QED
  BY <1>1 DEF ClauseWords, Keywords, Anchors, Modifiers, Commands, PrefixWords

LEMMA BacksTerms ==
  ASSUME Reread, NEW p \in Nat \ {0}, NEW t, NEW i, NEW v, BackAt(p, t, i, v), ParseTerms
  PROVE  BackInv'
<1> DEFINE text == Printed(origin)
           h == HeadLen(origin)
           T == Len(origin.terms)
           L == Len(text)
           q == Here(origin, 0, 0)
<1>1. mode = "terms"
  BY DEF ParseTerms
<1>2. /\ PrintedAt(p) /\ CountsOf(origin, mode, t, i, v)
      /\ AgainOf(node, origin, mode, t, i, v) /\ PlaceOf(origin, mode, key, p, t, i, v)
  BY BackAtIs
<1>3. /\ t \in 0 .. T /\ i = 0 /\ v = 0
      /\ (p = h + 2 * t + 1 /\ t > 0) \/ (p = h + 2 * t + 2 /\ p <= L + 1)
  <2>1. t \in 0 .. T /\ i = 0 /\ v = 0
    BY <1>1, <1>2 DEF CountsOf, Openings
  <2>2. (p = h + 2 * t + 1 /\ t > 0) \/ (p = h + 2 * t + 2 /\ p <= L + 1)
    BY <1>1, <1>2 DEF PlaceOf
  <2> QED
    BY <2>1, <2>2
<1>4. cur = TokenAt(text, p) /\ peek = TokenAt(text, p + 1)
  BY <1>2 DEF PrintedAt
<1>5. /\ h \in {1, 3} /\ T \in Nat /\ q = h + 2 * T + 4 * 0 + 5 * 0
  BY LayoutLengths DEF Reread
<1>6. L \in Nat
  <2>1. text \in Seq(ToSet(text))
    BY DEF Reread, Layout, Text
  <2> QED
    BY <2>1
<1>7. \A j \in 1 .. T : /\ TokenAt(text, h + 2 * j - 1) = Sign("whitespace")
                        /\ TokenAt(text, h + 2 * j) = TermToken(origin, j) /\ h + 2 * j <= L
  <2>1. \A j \in 1 .. T : /\ TokenAt(text, h + 2 * j - 1) = Sign("whitespace")
                          /\ TokenAt(text, h + 2 * j) = TermToken(origin, j)
    BY TextAt DEF Reread
  <2>2. h + 2 * T <= L
    <3> DEFINE C == Len(ClauseOrder(origin))
               V == Len(origin.vec)
    <3>1. C \in Nat /\ V \in {0, 1} /\ L = h + 2 * T + 4 * C + 5 * V
      BY LayoutLengths DEF Reread
    <3> HIDE DEF text, h, T, L, q, C, V
    <3> QED
      BY <1>5, <3>1
  <2> HIDE DEF text, h, T, L, q
  <2> QED
    BY <1>5, <1>6, <2>1, <2>2
<1>8. 0 \in 0 .. Len(ClauseOrder(origin)) /\ 0 \in 0 .. Len(origin.vec)
  BY <1>2, <1>3 DEF CountsOf
<1>9. \/ q = L /\ TokenAt(text, q + 1) = EOL
      \/ /\ 0 < Len(ClauseOrder(origin)) \/ Len(origin.vec) = 1
         /\ q + 4 <= L /\ TokenAt(text, q + 1) = Sign("whitespace")
  BY <1>8, GapAt DEF Reread
<1>10. Sign("whitespace").type = "whitespace" /\ ~IsTerm(Sign("whitespace")) /\ EOL.type = "eol" /\ ~IsTerm(EOL)
       /\ ~IsEndOfLine(Sign("whitespace")) /\ IsEndOfLine(EOL)
  BY DEF Sign, EOL, IsTerm, IsEndOfLine
<1> HIDE DEF text, h, T, L, q
<1>11. CASE cur = Sign("whitespace") /\ p <= L /\ p = h + 2 * t + 1
  <2>1. Shift /\ mode' = "terms" /\ origin' = origin /\ node' = node
    BY <1>10, <1>11 DEF ParseTerms, Accept, Goes
  <2>2. AgainOf(node', origin, mode', t, i, v)
    BY <1>1, <1>2, <2>1
  <2>3. CountsOf(origin, mode', t, i, v)
    BY <1>1, <1>2, <2>1
  <2>4. PlaceOf(origin, mode', key', p + 1, t, i, v)
    <3>1. p + 1 = h + 2 * t + 2 /\ p + 1 <= L + 1
      BY <1>3, <1>5, <1>6, <1>11
    <3> QED
      BY <2>1, <3>1 DEF PlaceOf, h, L, text
  <2>5. mode' \notin {"rejected", "bound"}
    BY <2>1
  <2> QED
    BY <1>2, <1>11, <2>1, <2>2, <2>3, <2>4, <2>5, BackOn DEF L, text
<1>12. CASE p = h + 2 * t + 2 /\ t < T
  <2>1. t + 1 \in 1 .. T /\ p = h + 2 * (t + 1) /\ t \in Nat
    BY <1>3, <1>5, <1>12
  <2>2. cur = TermToken(origin, t + 1) /\ p <= L
    BY <1>4, <1>7, <2>1
  <2>3. IsTerm(cur)
    BY <2>1, <2>2, TermPrints DEF Reread, T
  <2>4. cur.type \in {"literal", "phrase"}
    BY <2>3 DEF IsTerm
  <2>5. /\ Shift /\ mode' = "terms" /\ origin' = origin
        /\ node' = [node EXCEPT !.terms = Append(node.terms, cur)]
    BY <2>3, <2>4 DEF ParseTerms, Accept, Goes, Reject, IsEndOfLine, IsValue
  <2>6. AgainOf(node', origin, mode', t + 1, i, v)
    <3>1. node = [f \in DOMAIN EmptyNode |-> node[f]]
      BY DEF Reread, QueryInv
    <3> QED
      BY <1>1, <1>2, <2>1, <2>2, <2>5, <3>1, AgainTerm
  <2>7. CountsOf(origin, mode', t + 1, i, v)
    <3>1. t + 1 \in 0 .. T
      BY <2>1
    <3> QED
      BY <1>1, <1>2, <1>3, <2>5, <3>1 DEF CountsOf, Openings, T
  <2>8. PlaceOf(origin, mode', key', p + 1, t + 1, i, v)
    <3>1. p + 1 = h + 2 * (t + 1) + 1 /\ t + 1 > 0
      BY <1>5, <2>1
    <3> QED
      BY <2>5, <3>1 DEF PlaceOf, h
  <2>9. mode' \notin {"rejected", "bound"}
    BY <2>5
  <2> QED
    BY <1>2, <2>2, <2>5, <2>6, <2>7, <2>8, <2>9, BackOn DEF L, text
<1>13. ASSUME t = T, p \in 1 .. L + 1, p = q + 1 \/ p = q + 2,
              IsEndOfLine(cur) \/ (cur.type # "whitespace" /\ ~IsValue(cur, peek)), ~IsTerm(cur),
              cur.type # "whitespace"
       PROVE  BackInv'
  <2>1. mode' = "clauses" /\ UNCHANGED <<window, origin>> /\ node' = node
    BY <1>13 DEF ParseTerms, Goes, Accept
  <2>2. AgainOf(node', origin, mode', t, i, v)
    <3>1. {mode, mode'} \cap {"command", "selector", "graph"} = {}
      BY <1>1, <2>1
    <3> QED
      BY <1>2, <2>1, <3>1, AgainSame
  <2>3. CountsOf(origin, mode', t, i, v)
    BY <1>2, <1>3, <1>13, <2>1 DEF CountsOf, Openings, T
  <2>4. PlaceOf(origin, mode', key', p, t, i, v)
    <3>1. Here(origin, i, v) = q
      BY <1>3 DEF q
    <3>2. p = q + 1 \/ (p = q + 2 /\ p <= L + 1)
      BY <1>13
    <3> QED
      BY <2>1, <3>1, <3>2 DEF PlaceOf, L, text
  <2>5. mode' \notin {"rejected", "bound"}
    BY <2>1
  <2> QED
    BY <1>2, <1>13, <2>1, <2>2, <2>3, <2>4, <2>5, BackHere DEF L, text
<1>14. CASE p = h + 2 * t + 1 /\ t < T
  <2>1. t + 1 \in 1 .. T /\ p = h + 2 * (t + 1) - 1 /\ p <= h + 2 * (t + 1)
    BY <1>3, <1>5, <1>14
  <2>2. cur = Sign("whitespace") /\ h + 2 * (t + 1) <= L
    BY <1>4, <1>7, <2>1
  <2>3. p <= L
    BY <1>3, <1>5, <1>6, <2>1, <2>2
  <2> QED
    BY <1>11, <1>14, <2>2, <2>3
<1>15. CASE p = h + 2 * t + 1 /\ t = T
  <2>1. p = q + 1
    BY <1>5, <1>15
  <2>2. CASE q = L /\ TokenAt(text, q + 1) = EOL
    <3>1. cur = EOL /\ p \in 1 .. L + 1
      BY <1>4, <1>6, <2>1, <2>2
    <3> QED
      BY <1>10, <1>13, <1>15, <2>1, <3>1
  <2>3. CASE q + 4 <= L /\ TokenAt(text, q + 1) = Sign("whitespace")
    <3>1. cur = Sign("whitespace")
      BY <1>4, <2>1, <2>3
    <3>2. p <= L
      BY <1>5, <1>6, <2>1, <2>3
    <3> QED
      BY <1>11, <1>15, <3>1, <3>2
  <2> QED
    BY <1>9, <2>2, <2>3
<1>16. CASE p = h + 2 * t + 2 /\ t = T
  <2>1. p = q + 2 /\ p <= L + 1
    BY <1>3, <1>5, <1>16
  <2>2. q + 4 <= L /\ (0 < Len(ClauseOrder(origin)) \/ Len(origin.vec) = 1)
    BY <1>5, <1>6, <1>9, <2>1
  <2>3. PICK k \in ClauseWords : cur = [type |-> k, literal |-> k] /\ peek = Sign("colon")
    <3>1. PICK k : /\ TokenAt(text, q + 2) = [type |-> k, literal |-> k]
                   /\ TokenAt(text, q + 3) = Sign("colon") /\ k \in ClauseWords
      BY <1>8, <2>2, KeywordNext DEF Reread, text, q
    <3>2. p + 1 = q + 3
      BY <1>5, <2>1
    <3> QED
      BY <1>4, <2>1, <3>1, <3>2
  <2>4. /\ cur.type \notin {"eol", "newline", "whitespace", "nul", "literal", "phrase"}
        /\ peek.type = "colon"
    BY <2>3, KeywordToken
  <2>5. ~IsValue(cur, peek) /\ ~IsTerm(cur)
    BY <2>4 DEF IsValue, IsTerm
  <2>6. p \in 1 .. L + 1
    BY <1>6, <2>1
  <2> QED
    BY <1>13, <1>16, <2>1, <2>4, <2>5, <2>6
<1>17. t = T \/ t < T
  BY <1>3, <1>5
<1> QED
  BY <1>3, <1>12, <1>14, <1>15, <1>16, <1>17

\* A clause that is printed may be given.
LEMMA TakesAgain ==
  ASSUME Reread, NEW t, NEW i \in 0 .. Len(ClauseOrder(origin)), NEW m, m # "command",
         AgainOf(node, origin, m, t, i, 0),
         i < Len(ClauseOrder(origin)) \/ Len(origin.vec) = 1
  PROVE  Takes(IF i < Len(ClauseOrder(origin)) THEN ClauseOrder(origin)[i + 1] ELSE "vec")
<1> DEFINE C == Len(ClauseOrder(origin))
<1>1. C \in Nat /\ i \in Nat
  BY DEF Reread, Layout
<1>2. CASE i < C
  <2> DEFINE k == ClauseOrder(origin)[i + 1]
             n == Times(ClauseOrder(origin), i, k)
  <2>1. /\ k \in Anchors \cup Modifiers /\ Nr(origin, i + 1) = n + 1 /\ n \in Nat
        /\ Nr(origin, i + 1) <= Len(origin[k]) /\ (origin.kind = "remember" => k \in Anchors)
    BY <1>1, <1>2, ClauseTokens DEF Reread
  <2>2. CASE k \in Anchors
    BY <1>2, <2>2 DEF Takes
  <2>3. CASE k \notin Anchors
    <3>1. k \in Modifiers /\ origin.kind = "recall"
      BY <2>1, <2>3 DEF Reread, Whole
    <3>2. Len(origin[k]) \in 0 .. 1
      <4>1. origin[k] \in AtMostOne(Tokens)
        <5>1. Holds(origin)
          BY DEF Reread, Whole
        <5>2. \A c \in Modifiers : origin[c] \in AtMostOne(Tokens)
          BY <5>1 DEF Holds, AtMostOne, Modifiers
        <5> HIDE DEF k
        <5> QED
          BY <3>1, <5>2
      <4>2. \A x \in Tokens : Len(<<x>>) = 1
        OBVIOUS
      <4> QED
        BY <4>1, <4>2 DEF AtMostOne
    <3>3. node.kind = "recall" /\ node[k] = [j \in 1 .. n |-> PrintedField(k, origin[k][j])[1]]
      BY <3>1 DEF AgainOf
    <3>4. n = 0
      <4> DEFINE r == Nr(origin, i + 1)
                 l == Len(origin[k])
      <4>1. r = n + 1 /\ n \in Nat /\ r <= l /\ l \in 0 .. 1
        BY <2>1, <3>2
      <4> HIDE DEF r, l, n
      <4> QED
        BY <4>1
    <3> HIDE DEF n, k
    <3>5. node[k] = <<>>
      BY <3>3, <3>4
    <3> QED
      BY <1>2, <3>1, <3>3, <3>5 DEF Takes, k
  <2> QED
    BY <2>2, <2>3
<1>3. CASE ~(i < C)
  <2>1. Len(origin.vec) = 1 /\ node.vec = SubSeq(origin.vec, 1, 0)
    BY <1>1, <1>3 DEF AgainOf
  <2>2. node.vec = <<>>
    BY <2>1, SubSeqEmpty
  <2> QED
    BY <1>3, <2>2 DEF Takes
<1> QED
  BY <1>2, <1>3

LEMMA BacksClause ==
  ASSUME Reread, NEW p \in Nat \ {0}, NEW t, NEW i, NEW v, BackAt(p, t, i, v), ParseClause
  PROVE  BackInv'
<1> DEFINE text == Printed(origin)
           L == Len(text)
           C == Len(ClauseOrder(origin))
           V == Len(origin.vec)
           q == Here(origin, i, v)
<1>1. mode = "clauses"
  BY DEF ParseClause
<1>2. /\ PrintedAt(p) /\ CountsOf(origin, mode, t, i, v)
      /\ AgainOf(node, origin, mode, t, i, v) /\ PlaceOf(origin, mode, key, p, t, i, v)
  BY BackAtIs
<1>3. /\ t = Len(origin.terms) /\ i \in 0 .. C /\ v \in 0 .. V /\ (v = 0 \/ i = C)
      /\ p = q + 1 \/ (p = q + 2 /\ p <= L + 1)
  <2>1. t = Len(origin.terms) /\ i \in 0 .. C /\ v \in 0 .. V /\ (v = 0 \/ i = C)
    BY <1>1, <1>2 DEF CountsOf, Openings
  <2>2. p = q + 1 \/ (p = q + 2 /\ p <= L + 1)
    BY <1>1, <1>2 DEF PlaceOf
  <2> QED
    BY <2>1, <2>2
<1>4. cur = TokenAt(text, p) /\ peek = TokenAt(text, p + 1)
  BY <1>2 DEF PrintedAt
<1>5. C \in Nat /\ V \in {0, 1} /\ q \in Nat /\ L \in Nat /\ DOMAIN text = 1 .. L
  <2>1. text \in Seq(ToSet(text))
    BY DEF Reread, Layout, Text
  <2>2. /\ Len(origin.terms) \in Nat /\ C \in Nat /\ V \in {0, 1} /\ HeadLen(origin) \in {1, 3}
        /\ q = HeadLen(origin) + 2 * Len(origin.terms) + 4 * i + 5 * v
    BY LayoutLengths DEF Reread
  <2>3. i \in Nat /\ v \in Nat
    BY <1>3, <2>2
  <2>4. q \in Nat
    <3> DEFINE T == Len(origin.terms)
    <3>1. T \in Nat /\ HeadLen(origin) \in {1, 3} /\ q = HeadLen(origin) + 2 * T + 4 * i + 5 * v
      BY <2>2
    <3> HIDE DEF T, q
    <3> QED
      BY <2>3, <3>1
  <2> QED
    BY <2>1, <2>2, <2>4
<1>6. \/ i = C /\ v = V /\ q = L /\ TokenAt(text, q + 1) = EOL
      \/ (i < C \/ V = 1) /\ v = 0 /\ q + 4 <= L /\ TokenAt(text, q + 1) = Sign("whitespace")
  <2>1. i \in 0 .. C /\ v \in 0 .. V /\ (v = 0 \/ i = C) /\ Layout(origin)
    BY <1>3 DEF Reread
  <2>2. \/ /\ i = C /\ v = V /\ q = L
           /\ TokenAt(text, q + 1) = EOL
        \/ /\ i < C \/ (v = 0 /\ V = 1)
           /\ v = 0 /\ q + 4 <= L /\ TokenAt(text, q + 1) = Sign("whitespace")
    BY <2>1, GapAt
  <2> HIDE DEF text, L, C, V, q
  <2> QED
    BY <2>2
<1>7. /\ Sign("whitespace").type = "whitespace" /\ EOL.type = "eol"
      /\ ~IsEndOfLine(Sign("whitespace")) /\ IsEndOfLine(EOL)
      /\ ~Takes("whitespace") /\ ~Takes("eol")
  BY TakesClauses DEF Sign, EOL, IsEndOfLine, ClauseWords, Anchors, Modifiers
<1> HIDE DEF text, L, C, V, q
<1>8. CASE p = q + 1 /\ i = C /\ v = V /\ q = L /\ TokenAt(text, q + 1) = EOL
  <2>1. cur = EOL /\ p \in 1 .. L + 1
    BY <1>4, <1>5, <1>8
  <2>2. mode' = "finish" /\ UNCHANGED <<window, origin>> /\ node' = node
    BY <1>7, <2>1 DEF ParseClause, Goes, Accept, Reject
  <2>3. AgainOf(node', origin, mode', t, i, v)
    BY <1>1, <1>2, <2>2, AgainSame
  <2>4. CountsOf(origin, mode', t, i, v)
    BY <1>2, <1>3, <1>8, <2>2 DEF CountsOf, Openings, C
  <2>5. PlaceOf(origin, mode', key', p, t, i, v)
    <3>1. p = L + 1
      BY <1>8
    <3> QED
      BY <1>8, <2>2, <3>1 DEF PlaceOf, L, text, C, V
  <2>6. mode' \notin {"rejected", "bound"}
    BY <2>2
  <2> QED
    BY <1>2, <2>1, <2>2, <2>3, <2>4, <2>5, <2>6, BackHere DEF L, text
<1>9. CASE p = q + 1 /\ v = 0 /\ q + 4 <= L /\ TokenAt(text, q + 1) = Sign("whitespace")
  <2>1. cur = Sign("whitespace") /\ p <= L
    BY <1>4, <1>5, <1>9
  <2>2. Shift /\ mode' = "clauses" /\ origin' = origin /\ node' = node
    BY <1>7, <2>1 DEF ParseClause, Goes, Accept, Reject
  <2>3. AgainOf(node', origin, mode', t, i, v) /\ CountsOf(origin, mode', t, i, v)
    BY <1>1, <1>2, <2>2
  <2>4. PlaceOf(origin, mode', key', p + 1, t, i, v)
    <3>1. p + 1 = q + 2 /\ p + 1 <= L + 1
      BY <1>5, <1>9
    <3> QED
      BY <2>2, <3>1 DEF PlaceOf, L, text, q
  <2>5. mode' \notin {"rejected", "bound"}
    BY <2>2
  <2> QED
    BY <1>2, <2>1, <2>2, <2>3, <2>4, <2>5, BackOn DEF L, text
<1>10. CASE p = q + 2 /\ (i < C \/ V = 1) /\ v = 0 /\ q + 4 <= L
  <2> DEFINE k == IF i < C THEN ClauseOrder(origin)[i + 1] ELSE "vec"
  <2>1. Takes(k)
    BY <1>1, <1>2, <1>3, <1>10, TakesAgain DEF C, V
  <2>2. /\ TokenAt(text, q + 2) = [type |-> k, literal |-> k]
        /\ TokenAt(text, q + 3) = Sign("colon") /\ k \in ClauseWords
    BY <1>3, <1>10, KeywordNext DEF Reread, C, V, text, q
  <2> HIDE DEF k
  <2>3. p + 1 = q + 3 /\ p \in 1 .. L
    BY <1>5, <1>10
  <2>4. cur = [type |-> k, literal |-> k] /\ peek = Sign("colon") /\ cur = text[p]
    BY <1>4, <1>5, <1>10, <2>2, <2>3 DEF TokenAt
  <2>5. /\ cur.type = k /\ cur.type \notin {"eol", "newline", "whitespace", "nul", "literal", "phrase"}
        /\ peek.type = "colon"
    BY <2>2, <2>4, KeywordToken
  <2>6. ~IsEndOfLine(peek) /\ ~IsEndOfLine(cur)
    BY <2>5 DEF IsEndOfLine
  <2>7. Shift /\ mode' = "separator" /\ key' = cur /\ origin' = origin /\ node' = node
    BY <2>1, <2>5, <2>6 DEF ParseClause, Goes, Accept, Reject
  <2>8. AgainOf(node', origin, mode', t, i, v)
    BY <1>1, <1>2, <2>7, AgainSame
  <2>9. CountsOf(origin, mode', t, i, v)
    BY <1>2, <1>3, <1>10, <2>7 DEF CountsOf, Openings, C
  <2>10. PlaceOf(origin, mode', key', p + 1, t, i, v)
    <3>1. p + 1 = q + 3 /\ p + 1 <= L /\ (p + 1) - 1 = p
      BY <1>5, <1>10
    <3> QED
      BY <2>4, <2>7, <3>1 DEF PlaceOf, L, text, q
  <2>11. mode' \notin {"rejected", "bound"} /\ p <= L
    BY <2>3, <2>7
  <2> QED
    BY <1>2, <2>7, <2>8, <2>9, <2>10, <2>11, BackOn DEF L, text
<1>11. p = q + 2 => ~(q = L)
  BY <1>3, <1>5
<1> QED
  BY <1>3, <1>6, <1>8, <1>9, <1>10, <1>11

LEMMA GrownPart ==
  ASSUME NEW S, NEW s \in Seq(S), NEW i \in Nat, i < Len(s)
  PROVE  Append(SubSeq(s, 1, i), s[i + 1]) = SubSeq(s, 1, i + 1)
<1>1. Len(s) \in Nat /\ \A j \in 1 .. Len(s) : s[j] \in S
  OBVIOUS
<1>2. i + 1 <= Len(s)
  BY <1>1
<1>3. SubSeq(s, 1, i) = [j \in 1 .. i |-> s[j]]
  BY <1>1, <1>2
<1>4. SubSeq(s, 1, i + 1) = [j \in 1 .. i + 1 |-> s[j]]
  BY <1>1, <1>2
<1> DEFINE a == [j \in 1 .. i |-> s[j]]
           b == [j \in 1 .. i + 1 |-> s[j]]
<1>5. a \in [1 .. i -> S] /\ b \in [1 .. i + 1 -> S] /\ \A j \in 1 .. i : a[j] = b[j]
  BY <1>1, <1>2
<1>6. b[i + 1] = s[i + 1]
  OBVIOUS
<1> HIDE DEF a, b
<1>7. Append(a, b[i + 1]) = b
  BY <1>5, Grown
<1> QED
  BY <1>3, <1>4, <1>6, <1>7 DEF a, b

\* The clauses are read again, one more of them.
LEMMA AgainField ==
  ASSUME NEW n, NEW r, NEW o, Whole(o), NonNegative(o), Layout(o), NEW m, NEW l, NEW t, NEW i \in Nat,
         AgainOf(n, o, m, t, i, 0), {m, l} \cap {"command", "selector", "graph"} = {},
         i < Len(ClauseOrder(o)), NEW k, k = ClauseOrder(o)[i + 1],
         r.terms = n.terms, r.vec = n.vec, r.kind = n.kind, r.selector = n.selector,
         \A c \in Anchors \cup Modifiers : c # k => r[c] = n[c],
         r[k] = IF k \in Anchors THEN Append(n[k], FieldToken(o, i + 1)) ELSE <<FieldToken(o, i + 1)>>,
         r.anchors = IF k \in Anchors THEN Append(n.anchors, k) ELSE n.anchors
  PROVE  AgainOf(r, o, l, t, i + 1, 0)
<1> DEFINE ks == ClauseOrder(o)
           d == Times(ks, i, k)
           F(c, j) == PrintedField(c, o[c][j])[1]
<1>1. /\ k \in Anchors \cup Modifiers /\ Nr(o, i + 1) = d + 1 /\ d \in Nat /\ Nr(o, i + 1) <= Len(o[k])
      /\ (o.kind = "remember" => k \in Anchors)
      /\ \A c \in Anchors \cup Modifiers : c # k => Times(ks, i + 1, c) = Times(ks, i, c)
  BY ClauseTokens
<1>2. FieldToken(o, i + 1) = F(k, d + 1)
  BY <1>1 DEF FieldToken
<1>3. Times(ks, i + 1, k) = d + 1
  BY <1>1 DEF Nr
<1>4. n[k] = [j \in 1 .. d |-> F(k, j)]
  BY <1>1 DEF AgainOf
<1>5. \A c \in Anchors \cup Modifiers : r[c] = [j \in 1 .. Times(ks, i + 1, c) |-> F(c, j)]
  <2>1. TAKE c \in Anchors \cup Modifiers
  <2>2. CASE c # k
    <3>1. r[c] = n[c] /\ n[c] = [j \in 1 .. Times(ks, i, c) |-> F(c, j)]
      BY <2>2 DEF AgainOf
    <3>2. Times(ks, i + 1, c) = Times(ks, i, c)
      BY <1>1, <2>2
    <3> HIDE DEF ks, F
    <3> QED
      BY <3>1, <3>2
  <2>3. CASE c = k
    <3> DEFINE a == [j \in 1 .. d |-> F(k, j)]
               b == [j \in 1 .. d + 1 |-> F(k, j)]
               S == {F(k, j) : j \in Nat}
    <3>1. a \in [1 .. d -> S] /\ b \in [1 .. d + 1 -> S] /\ \A j \in 1 .. d : a[j] = b[j]
      <4> HIDE DEF F, d
      <4>1. d \in Nat
        BY <1>1
      <4> QED
        BY <4>1
    <3>2. b[d + 1] = F(k, d + 1)
      <4> HIDE DEF F, d
      <4> QED
        BY <1>1
    <3> HIDE DEF a, b, F, d, S
    <3>3. Append(a, b[d + 1]) = b
      BY <1>1, <3>1, Grown
    <3>4. r[k] = b
      <4>1. CASE k \in Anchors
        BY <1>2, <1>4, <3>2, <3>3, <4>1 DEF a
      <4>2. CASE k \notin Anchors
        <5>1. d = 0
          <6>1. Len(o[k]) \in 0 .. 1
            <7>1. Holds(o) /\ k \in Modifiers
              BY <1>1, <4>2 DEF Whole
            <7>2. \A e \in Modifiers : o[e] \in AtMostOne(Tokens)
              BY SMTT(30), <7>1 DEF Holds, AtMostOne, Modifiers
            <7>3. o[k] \in AtMostOne(Tokens)
              BY <7>1, <7>2
            <7>4. \A x \in Tokens : Len(<<x>>) = 1
              OBVIOUS
            <7> QED
              BY <7>3, <7>4 DEF AtMostOne
          <6> DEFINE x == Nr(o, i + 1)
                     y == Len(o[k])
          <6>2. x = d + 1 /\ d \in Nat /\ x <= y /\ y \in 0 .. 1
            BY <1>1, <6>1
          <6> HIDE DEF x, y
          <6> QED
            BY <6>2
        <5>2. r[k] = <<F(k, 1)>>
          BY <1>2, <4>2, <5>1
        <5>3. b = [j \in 1 .. 1 |-> F(k, j)]
          BY <5>1 DEF b
        <5>4. <<F(k, 1)>> = [j \in 1 .. 1 |-> F(k, j)]
          OBVIOUS
        <5> QED
          BY <5>2, <5>3, <5>4
      <4> QED
        BY <4>1, <4>2
    <3> QED
      BY <1>3, <2>3, <3>4 DEF b
  <2> QED
    BY <2>2, <2>3
<1>6. ASSUME o.kind = "remember" PROVE r.anchors = SubSeq(o.anchors, 1, i + 1)
  <2>1. k \in Anchors /\ n.anchors = SubSeq(o.anchors, 1, i) /\ ks = o.anchors
    BY <1>1, <1>6 DEF AgainOf, ClauseOrder
  <2>2. o.anchors \in Seq(Anchors) /\ i < Len(o.anchors) /\ k = o.anchors[i + 1]
    BY <2>1 DEF Whole, Holds
  <2> QED
    BY <2>1, <2>2, GrownPart
<1>7. r.terms = [j \in 1 .. t |-> TermToken(o, j)] /\ r.vec = SubSeq(o.vec, 1, 0)
      /\ (l # "command" => r.kind = o.kind) /\ l \notin {"command", "selector", "graph"}
      /\ r.selector = o.selector
  BY DEF AgainOf
<1> QED
  BY <1>5, <1>6, <1>7 DEF AgainOf

\* Inside a clause the keyword says which one it is.
LEMMA InClause ==
  ASSUME Reread, NEW p \in Nat \ {0}, NEW t, NEW i, NEW v, BackAt(p, t, i, v),
         mode \in {"separator", "value", "param"}
  PROVE  LET text == Printed(origin)
             C == Len(ClauseOrder(origin))
             q == Here(origin, i, 0)
             k == IF i < C THEN ClauseOrder(origin)[i + 1] ELSE "vec"
         IN /\ v = 0 /\ t = Len(origin.terms) /\ i \in Nat /\ i <= C /\ C \in Nat
            /\ i < C \/ Len(origin.vec) = 1
            /\ q \in Nat /\ p <= Len(text) /\ Len(text) \in Nat
            /\ p = q + (IF mode = "separator" THEN 3 ELSE IF mode = "value" THEN 4 ELSE 5)
            /\ k \in ClauseWords /\ key = [type |-> k, literal |-> k] /\ key = text[q + 2]
            /\ mode = "param" => key.type = "vec"
            /\ AgainOf(node, origin, mode, t, i, 0)
<1> DEFINE text == Printed(origin)
           C == Len(ClauseOrder(origin))
           q == Here(origin, i, 0)
           k == IF i < C THEN ClauseOrder(origin)[i + 1] ELSE "vec"
           L == Len(text)
           V == Len(origin.vec)
           d == IF mode = "separator" THEN 3 ELSE IF mode = "value" THEN 4 ELSE 5
<1>1. /\ PrintedAt(p) /\ CountsOf(origin, mode, t, i, v)
      /\ AgainOf(node, origin, mode, t, i, v) /\ PlaceOf(origin, mode, key, p, t, i, v)
  BY BackAtIs
<1>2. v = 0 /\ t = Len(origin.terms) /\ i \in 0 .. C
  BY <1>1 DEF CountsOf, Openings
<1>3. p = q + d /\ p <= L /\ (mode = "param" => key.type = "vec")
  BY <1>1, <1>2 DEF PlaceOf
<1>4. key = text[p - (d - 2)]
  <2>1. CASE mode = "separator"
    BY <1>1, <2>1 DEF PlaceOf
  <2>2. CASE mode = "value"
    BY <1>1, <2>2 DEF PlaceOf
  <2>3. CASE mode = "param"
    BY <1>1, <2>3 DEF PlaceOf
  <2> QED
    BY <2>1, <2>2, <2>3
<1>5. C \in Nat /\ V \in {0, 1} /\ L \in Nat /\ DOMAIN text = 1 .. L /\ Layout(origin)
  <2>1. text \in Seq(ToSet(text))
    BY DEF Reread, Layout, Text
  <2> QED
    BY <2>1, LayoutLengths DEF Reread
<1>6. d \in {3, 4, 5} /\ i \in Nat /\ i <= C
  BY <1>2, <1>5
<1>7. \/ i = C /\ q = L
      \/ i < C \/ V = 1
  <2>1. 0 \in 0 .. V
    BY <1>5
  <2>2. \/ i = C /\ 0 = V /\ q = L
        \/ i < C \/ (0 = 0 /\ V = 1)
    BY <1>2, <1>5, <2>1, GapAt
  <2> QED
    BY <2>2
<1>8. q \in Nat
  <2> DEFINE T == Len(origin.terms)
             h == HeadLen(origin)
  <2>1. T \in Nat /\ h \in {1, 3} /\ q = h + 2 * T + 4 * i + 5 * 0
    BY LayoutLengths DEF Reread
  <2> HIDE DEF T, h, q
  <2> QED
    BY <1>6, <2>1
<1> HIDE DEF q, L, d
<1>9. i < C \/ V = 1
  BY <1>3, <1>5, <1>6, <1>7, <1>8
<1>10. TokenAt(text, q + 2) = [type |-> k, literal |-> k] /\ k \in ClauseWords /\ q + 4 <= L
  BY <1>2, <1>9, KeywordNext DEF Reread, q, L
<1>11. p - (d - 2) = q + 2 /\ q + 2 \in DOMAIN text
  <2> HIDE DEF text
  <2> QED
    BY <1>3, <1>5, <1>6, <1>8, <1>10
<1>12. key = text[q + 2] /\ key = TokenAt(text, q + 2)
  BY <1>4, <1>11 DEF TokenAt
<1> QED
  BY <1>1, <1>2, <1>3, <1>5, <1>6, <1>8, <1>9, <1>10, <1>12 DEF q, L, d

LEMMA BacksSeparator ==
  ASSUME Reread, NEW p \in Nat \ {0}, NEW t, NEW i, NEW v, BackAt(p, t, i, v), ParseSeparator
  PROVE  BackInv'
<1> DEFINE text == Printed(origin)
           C == Len(ClauseOrder(origin))
           q == Here(origin, i, 0)
           k == IF i < C THEN ClauseOrder(origin)[i + 1] ELSE "vec"
           L == Len(text)
<1>1. mode = "separator"
  BY DEF ParseSeparator
<1>2. /\ v = 0 /\ t = Len(origin.terms) /\ i \in Nat /\ i <= C /\ C \in Nat
      /\ i < C \/ Len(origin.vec) = 1
      /\ q \in Nat /\ p <= L /\ L \in Nat /\ p = q + 3
      /\ key = text[q + 2] /\ AgainOf(node, origin, mode, t, i, 0)
  BY <1>1, InClause
<1>3. PrintedAt(p) /\ CountsOf(origin, mode, t, i, v)
  BY BackAtIs
<1>4. cur = TokenAt(text, q + 3) /\ peek = TokenAt(text, q + 4) /\ q + 4 <= L
  <2>1. cur = TokenAt(text, p) /\ peek = TokenAt(text, p + 1)
    BY <1>3 DEF PrintedAt
  <2>2. q + 4 <= L
    <3>1. i \in 0 .. C
      BY <1>2
    <3> QED
      BY <1>2, <3>1, KeywordNext DEF Reread
  <2>3. p + 1 = q + 4
    BY <1>2
  <2> QED
    BY <1>2, <2>1, <2>2, <2>3
<1>5. cur.type = "colon" /\ peek.type # "whitespace"
  <2>1. CASE i < C
    <3>1. /\ TokenAt(text, q + 3) = Sign("colon") /\ TokenAt(text, q + 4) = FieldToken(origin, i + 1)
          /\ SaysAs(ClauseOrder(origin)[i + 1], FieldToken(origin, i + 1),
                    origin[ClauseOrder(origin)[i + 1]][Nr(origin, i + 1)])
      BY <1>2, <2>1, ClauseTokens DEF Reread
    <3>2. FieldToken(origin, i + 1).type \in Words \cup {"phrase"}
      BY <3>1 DEF SaysAs
    <3> QED
      BY <1>4, <3>1, <3>2 DEF Sign, Words, Keywords, Commands, PrefixWords, Anchors, Modifiers
  <2>2. CASE ~(i < C)
    <3>1. i = C /\ Len(origin.vec) = 1
      BY <1>2, <2>2
    <3>2. TokenAt(text, q + 3) = Sign("colon") /\ TokenAt(text, q + 4) = Sign("dollar")
      BY <3>1, VecTokens DEF Reread
    <3> QED
      BY <1>4, <3>2 DEF Sign
  <2> QED
    BY <2>1, <2>2
<1>6. Shift /\ mode' = "value" /\ key' = key /\ origin' = origin /\ node' = node
  BY <1>5 DEF ParseSeparator, Accept, Goes, Reject
<1>7. AgainOf(node', origin, mode', t, i, 0)
  BY <1>1, <1>2, <1>6, AgainSame
<1>8. CountsOf(origin, mode', t, i, 0)
  BY <1>1, <1>2, <1>3, <1>6 DEF CountsOf, Openings
<1>9. PlaceOf(origin, mode', key', p + 1, t, i, 0)
  <2>1. p + 1 = q + 4 /\ (p + 1) - 2 = q + 2 /\ p + 1 <= L
    BY <1>2, <1>4
  <2> QED
    BY <1>2, <1>6, <2>1 DEF PlaceOf
<1>10. mode' \notin {"rejected", "bound"}
  BY <1>6
<1> QED
  BY <1>2, <1>3, <1>6, <1>7, <1>8, <1>9, <1>10, BackOn

LEMMA BacksValue ==
  ASSUME Reread, NEW p \in Nat \ {0}, NEW t, NEW i, NEW v, BackAt(p, t, i, v), ParseValue
  PROVE  BackInv'
<1> DEFINE text == Printed(origin)
           C == Len(ClauseOrder(origin))
           q == Here(origin, i, 0)
           k == ClauseOrder(origin)[i + 1]
           L == Len(text)
           w == IF i < C THEN k ELSE "vec"
<1>1. mode = "value" /\ key.type # "vec"
  BY DEF ParseValue
<1>2. /\ v = 0 /\ t = Len(origin.terms) /\ i \in Nat /\ i <= C /\ C \in Nat
      /\ q \in Nat /\ p <= L /\ L \in Nat /\ p = q + 4
      /\ key = [type |-> w, literal |-> w] /\ AgainOf(node, origin, mode, t, i, 0)
  BY <1>1, InClause
<1>3. PrintedAt(p) /\ CountsOf(origin, mode, t, i, v)
  BY BackAtIs
<1>4. i < C /\ key.type = k
  <2> HIDE DEF k, C
  <2>1. key.type = w
    BY <1>2
  <2> QED
    BY <1>1, <2>1
<1>5. cur = TokenAt(text, q + 4) /\ peek = TokenAt(text, q + 5)
  <2>1. cur = TokenAt(text, p) /\ peek = TokenAt(text, p + 1)
    BY <1>3 DEF PrintedAt
  <2>2. p + 1 = q + 5
    BY <1>2
  <2> QED
    BY <1>2, <2>1, <2>2
<1>6. /\ cur = FieldToken(origin, i + 1) /\ k \in Anchors \cup Modifiers
      /\ SaysAs(k, cur, origin[k][Nr(origin, i + 1)])
  BY <1>2, <1>4, <1>5, ClauseTokens DEF Reread
<1>7. i + 1 \in 0 .. C /\ Here(origin, i + 1, 0) = q + 4 /\ 0 \in 0 .. Len(origin.vec)
  <2> DEFINE T == Len(origin.terms)
             h == HeadLen(origin)
             V == Len(origin.vec)
             r == Here(origin, i + 1, 0)
  <2>1. /\ T \in Nat /\ h \in {1, 3} /\ q = h + 2 * T + 4 * i + 5 * 0 /\ V \in {0, 1}
        /\ r = h + 2 * T + 4 * (i + 1) + 5 * 0
    BY LayoutLengths DEF Reread
  <2> HIDE DEF T, h, q, V, C, r
  <2> QED
    BY <1>2, <1>4, <2>1 DEF V, r
<1>8. peek.type # "colon"
  <2>1. TokenAt(text, Here(origin, i + 1, 0) + 1) \in {EOL, Sign("whitespace")}
    BY <1>7, GapAt DEF Reread
  <2>2. Here(origin, i + 1, 0) + 1 = q + 5
    BY <1>2, <1>7
  <2> QED
    BY <1>5, <2>1, <2>2 DEF EOL, Sign
<1> HIDE DEF k
<1>9. Reads(k)
  <2>1. CASE k \in Anchors
    <3>1. IsValue(cur, peek) /\ cur.literal # Blank
      BY <1>6, <1>8, <2>1 DEF SaysAs, IsValue, IsKeyword, Words
    <3> QED
      BY <2>1, <3>1 DEF Reads, Anchors
  <2>2. CASE k \in {"top", "depth"}
    BY <1>6, <2>2 DEF SaysAs, Reads, Anchors
  <2>3. CASE k \in {"since", "until"}
    BY <1>6, <2>3 DEF SaysAs, Reads, Anchors
  <2> QED
    BY <1>6, <2>1, <2>2, <2>3 DEF Modifiers
<1>10. /\ Shift /\ mode' = "clauses" /\ origin' = origin
       /\ node' = [node EXCEPT ![k] = IF k \in Anchors THEN Append(@, cur) ELSE <<cur>>,
                               !.anchors = IF k \in Anchors THEN Append(@, k) ELSE @]
  BY <1>4, <1>9 DEF ParseValue, Accept, Goes, Reject
<1>11. /\ node'.terms = node.terms /\ node'.vec = node.vec /\ node'.kind = node.kind
       /\ node'.selector = node.selector
       /\ \A c \in Anchors \cup Modifiers : c # k => node'[c] = node[c]
       /\ node'[k] = (IF k \in Anchors THEN Append(node[k], cur) ELSE <<cur>>)
       /\ node'.anchors = IF k \in Anchors THEN Append(node.anchors, k) ELSE node.anchors
  <2>1. node = [f \in DOMAIN EmptyNode |-> node[f]]
    BY DEF Reread, QueryInv
  <2>2. k \in DOMAIN EmptyNode /\ k \notin {"terms", "vec", "kind", "selector", "anchors"}
    BY <1>6, FieldNames DEF Anchors, Modifiers
  <2>3. /\ node'[k] = (IF k \in Anchors THEN Append(node[k], cur) ELSE <<cur>>)
        /\ node'["anchors"] = (IF k \in Anchors THEN Append(node["anchors"], k) ELSE node["anchors"])
        /\ \A f \in DOMAIN EmptyNode : f \notin {k, "anchors"} => node'[f] = node[f]
    BY <1>10, <2>1, <2>2, FieldNames
  <2>4. \A c \in Anchors \cup Modifiers : c \in DOMAIN EmptyNode /\ c # "anchors"
    BY FieldNames DEF Anchors, Modifiers
  <2> QED
    BY <2>2, <2>3, <2>4, FieldNames
<1>12. AgainOf(node', origin, mode', t, i + 1, 0)
  <2>1. {mode, mode'} \cap {"command", "selector", "graph"} = {}
    BY <1>1, <1>10
  <2> QED
    BY <1>2, <1>4, <1>6, <1>11, <2>1, AgainField DEF Reread, k
<1>13. CountsOf(origin, mode', t, i + 1, 0)
  BY <1>1, <1>2, <1>3, <1>7, <1>10 DEF CountsOf, Openings
<1>14. PlaceOf(origin, mode', key', p + 1, t, i + 1, 0)
  <2>1. p + 1 = Here(origin, i + 1, 0) + 1
    BY <1>2, <1>7
  <2> QED
    BY <1>10, <2>1 DEF PlaceOf
<1>15. mode' \notin {"rejected", "bound"}
  BY <1>10
<1> QED
  BY <1>2, <1>3, <1>10, <1>12, <1>13, <1>14, <1>15, BackOn

LEMMA WholePart ==
  /\ Len(<<>>) = 0 /\ SubSeq(<<>>, 1, 0) = <<>>
  /\ \A x : Len(<<x>>) = 1 /\ SubSeq(<<x>>, 1, 1) = <<x>>
<1>1. Len(<<>>) = 0 /\ SubSeq(<<>>, 1, 0) = <<>>
  BY SubSeqEmpty
<1>2. ASSUME NEW x PROVE Len(<<x>>) = 1 /\ SubSeq(<<x>>, 1, 1) = <<x>>
  <2> DEFINE s == <<x>>
             b == SubSeq(s, 1, 1)
  <2>1. s \in Seq({x}) /\ Len(s) = 1 /\ s[1] \in {x}
    OBVIOUS
  <2> HIDE DEF s
  <2>2. \A i \in 1 .. 1 : s[i] \in {x}
    BY <2>1
  <2>3. /\ b \in Seq({x}) /\ Len(b) = IF 1 <= 1 THEN 1 - 1 + 1 ELSE 0
        /\ \A i \in 1 .. 1 - 1 + 1 : b[i] = s[1 + i - 1]
    BY <2>2, SubSeqProperties
  <2> HIDE DEF b
  <2>4. Len(b) = 1 /\ b[1] = s[1]
    BY <2>3
  <2>5. b = s
    BY <2>1, <2>3, <2>4, SeqEqual
  <2> QED
    BY <2>1, <2>5 DEF s, b
<1> QED
  BY <1>1, <1>2

LEMMA BacksVec ==
  ASSUME Reread, NEW p \in Nat \ {0}, NEW t, NEW i, NEW v, BackAt(p, t, i, v), ParseVec
  PROVE  BackInv'
<1> DEFINE text == Printed(origin)
           C == Len(ClauseOrder(origin))
           q == Here(origin, i, 0)
           k == IF i < C THEN ClauseOrder(origin)[i + 1] ELSE "vec"
           L == Len(text)
<1>1. mode \in {"value", "param"} /\ key.type = "vec"
  BY DEF ParseVec
<1>2. /\ v = 0 /\ t = Len(origin.terms) /\ i \in Nat /\ i <= C /\ C \in Nat
      /\ i < C \/ Len(origin.vec) = 1
      /\ q \in Nat /\ p <= L /\ L \in Nat /\ p = q + (IF mode = "value" THEN 4 ELSE 5)
      /\ key = [type |-> k, literal |-> k] /\ key = text[q + 2] /\ AgainOf(node, origin, mode, t, i, 0)
  <2>1. p = q + (IF mode = "separator" THEN 3 ELSE IF mode = "value" THEN 4 ELSE 5)
    BY <1>1, InClause
  <2>2. p = q + (IF mode = "value" THEN 4 ELSE 5)
    BY <1>1, <2>1
  <2> QED
    BY <1>1, <2>2, InClause
<1>3. PrintedAt(p) /\ CountsOf(origin, mode, t, i, v)
  BY BackAtIs
<1>4. i = C /\ Len(origin.vec) = 1
  <2>1. k = "vec"
    BY <1>1, <1>2
  <2>2. ASSUME i < C PROVE FALSE
    <3>1. ClauseOrder(origin)[i + 1] \in Anchors \cup Modifiers
      BY <1>2, <2>2, ClauseTokens DEF Reread
    <3> QED
      BY <2>1, <2>2, <3>1 DEF Anchors, Modifiers
  <2> HIDE DEF C
  <2> QED
    BY <1>2, <2>2
<1>5. /\ TokenAt(text, q + 4) = Sign("dollar") /\ TokenAt(text, q + 5) = origin.vec[1]
      /\ origin.vec[1].type = "literal" /\ origin.vec = <<origin.vec[1]>> /\ q + 5 = L
  BY <1>4, VecTokens DEF Reread
<1>6. cur = TokenAt(text, p)
  BY <1>3 DEF PrintedAt
<1>7. CASE mode = "value"
  <2>1. cur.type = "dollar" /\ p = q + 4
    BY <1>2, <1>5, <1>6, <1>7 DEF Sign
  <2>2. Shift /\ mode' = "param" /\ key' = key /\ origin' = origin /\ node' = node
    BY <1>7, <2>1 DEF ParseVec, Accept, Goes, Reject
  <2>3. AgainOf(node', origin, mode', t, i, 0)
    BY <1>2, <1>7, <2>2, AgainSame
  <2>4. CountsOf(origin, mode', t, i, 0)
    BY <1>2, <1>3, <1>7, <2>2 DEF CountsOf, Openings
  <2>5. PlaceOf(origin, mode', key', p + 1, t, i, 0)
    <3>1. p + 1 = q + 5 /\ (p + 1) - 3 = q + 2 /\ p + 1 <= L
      BY SMTT(30), <1>2, <1>5, <2>1
    <3> QED
      BY <1>1, <1>2, <2>2, <3>1 DEF PlaceOf
  <2>6. mode' \notin {"rejected", "bound"}
    BY <2>2
  <2> QED
    BY <1>2, <1>3, <2>2, <2>3, <2>4, <2>5, <2>6, BackOn
<1>8. CASE mode = "param"
  <2>1. cur = origin.vec[1] /\ cur.type = "literal" /\ p = q + 5
    BY <1>2, <1>5, <1>6, <1>8
  <2>2. Shift /\ mode' = "clauses" /\ origin' = origin /\ node' = [node EXCEPT !.vec = <<cur>>]
    BY <1>8, <2>1 DEF ParseVec, Accept, Goes, Reject
  <2>3. AgainOf(node', origin, mode', t, i, 1)
    <3>1. node = [f \in DOMAIN EmptyNode |-> node[f]]
      BY DEF Reread, QueryInv
    <3>2. node'["vec"] = <<cur>> /\ \A f \in DOMAIN EmptyNode : f # "vec" => node'[f] = node[f]
      BY <2>2, <3>1, FieldNames, FieldSet
    <3>3. /\ node'.terms = node.terms /\ node'.anchors = node.anchors /\ node'.kind = node.kind
          /\ node'.selector = node.selector /\ \A c \in Anchors \cup Modifiers : node'[c] = node[c]
      BY <3>2, FieldNames DEF Anchors, Modifiers
    <3>4. node'.vec = SubSeq(origin.vec, 1, 1)
      <4>1. origin.vec = <<cur>>
        BY <1>5, <2>1
      <4>2. SubSeq(<<cur>>, 1, 1) = <<cur>>
        BY WholePart
      <4> QED
        BY <3>2, <4>1, <4>2
    <3> QED
      BY <1>2, <1>8, <2>2, <3>3, <3>4 DEF AgainOf
  <2>4. CountsOf(origin, mode', t, i, 1)
    <3>1. 1 \in 0 .. Len(origin.vec)
      BY <1>4
    <3> QED
      BY <1>2, <1>3, <1>4, <1>8, <2>2, <3>1 DEF CountsOf, Openings
  <2>5. PlaceOf(origin, mode', key', p + 1, t, i, 1)
    <3>1. Here(origin, i, 1) = q + 5
      <4> DEFINE T == Len(origin.terms)
                 h == HeadLen(origin)
                 r == Here(origin, i, 1)
      <4>1. T \in Nat /\ h \in {1, 3} /\ q = h + 2 * T + 4 * i + 5 * 0 /\ r = h + 2 * T + 4 * i + 5 * 1
        BY LayoutLengths DEF Reread
      <4> HIDE DEF T, h, q, r
      <4> QED
        BY <1>2, <4>1 DEF r
    <3>2. p + 1 = Here(origin, i, 1) + 1
      BY <2>1, <3>1
    <3> QED
      BY <2>2, <3>2 DEF PlaceOf
  <2>6. mode' \notin {"rejected", "bound"}
    BY <2>2
  <2> QED
    BY <1>2, <1>3, <2>2, <2>3, <2>4, <2>5, <2>6, BackOn
<1> QED
  BY <1>1, <1>7, <1>8

\* A recall that was read whole again has a seed again.
LEMMA SeededAgain ==
  ASSUME NEW n, NEW o, Whole(o), Layout(o), o.kind = "recall", NEW m, m # "command",
         AgainOf(n, o, m, Len(o.terms), Len(ClauseOrder(o)), Len(o.vec))
  PROVE  Seeded(n)
<1> DEFINE T == Len(o.terms)
           ks == ClauseOrder(o)
<1>1. T \in Nat /\ n.terms = [j \in 1 .. T |-> TermToken(o, j)] /\ DOMAIN o.terms = 1 .. T
  <2>1. DOMAIN o.terms = 1 .. T
    BY SeqsHeld DEF Whole, HoldsSeqs
  <2> QED
    BY <2>1 DEF AgainOf, Layout
<1>2. n.vec = o.vec
  <2>1. n.vec = SubSeq(o.vec, 1, Len(o.vec))
    BY DEF AgainOf
  <2>2. o.vec \in AtMostOne({t \in Tokens : t.type = "literal"})
    BY DEF Whole, Holds
  <2>3. SubSeq(<<>>, 1, Len(<<>>)) = <<>> /\ \A x : SubSeq(<<x>>, 1, Len(<<x>>)) = <<x>>
    BY WholePart
  <2> QED
    BY <2>1, <2>2, <2>3 DEF AtMostOne
<1>3. \A k \in Anchors : (n[k] = <<>>) => o[k] = <<>>
  <2>1. TAKE k \in Anchors
  <2>2. o[k] \in Seq({t \in Tokens : t.type \in Words \cup {"phrase"} /\ t.literal # Blank})
    BY DEF Whole, Holds
  <2>3. Times(ks, Len(ks), k) = Len(o[k])
    BY OrderFacts DEF Counted, Whole
  <2>4. n[k] = [j \in 1 .. Len(o[k]) |-> PrintedField(k, o[k][j])[1]]
    BY <2>3 DEF AgainOf
  <2>5. DOMAIN n[k] = 1 .. Len(o[k]) /\ Len(o[k]) \in Nat
    BY <2>2, <2>4
  <2>6. ASSUME n[k] = <<>> PROVE Len(o[k]) = 0
    <3>1. DOMAIN <<>> = {}
      OBVIOUS
    <3> DEFINE l == Len(o[k])
    <3>2. 1 .. l = {} /\ l \in Nat
      BY <2>5, <2>6, <3>1
    <3> HIDE DEF l
    <3>3. l = 0
      BY <3>2
    <3> QED
      BY <3>3 DEF l
  <2> QED
    BY <2>2, <2>6
<1>4. (n.terms = <<>>) => o.terms = <<>>
  <2>1. DOMAIN n.terms = 1 .. T
    BY <1>1
  <2>2. ASSUME n.terms = <<>> PROVE T = 0
    <3>1. DOMAIN <<>> = {}
      OBVIOUS
    <3>2. 1 .. T = {}
      BY <2>1, <2>2, <3>1
    <3> QED
      BY <1>1, <3>2
  <2>3. o.terms \in Seq({t \in Tokens : IsTerm(t)})
    BY DEF Whole, Holds
  <2> QED
    BY <2>2, <2>3
<1>5. \A j \in 1 .. T : n.terms[j] = TermToken(o, j)
  BY <1>1
<1>6. \A j \in 1 .. T : IsStop(n.terms[j]) => IsStop(o.terms[j])
  <2>1. TAKE j \in 1 .. T
  <2>2. LET t == o.terms[j]
            u == TermToken(o, j)
        IN t \in Tokens /\ u.type = t.type /\ u.literal = Fold(t.literal)
    BY TermPrints
  <2>3. Fold(o.terms[j].literal) \in StopWords => o.terms[j].literal \in StopWords
    BY <2>2, FoldFacts
  <2> QED
    BY <1>5, <2>2, <2>3 DEF IsStop
<1>7. Seeded(o)
  BY DEF Whole
<1>8. n.terms # <<>> \/ NamesAnchors(n) \/ n.vec # <<>>
  BY <1>2, <1>3, <1>4, <1>7 DEF Seeded, NamesAnchors, Anchors
<1>9. ASSUME NEW j \in DOMAIN n.terms, IsStop(n.terms[j])
      PROVE  n.vec # <<>> \/ \E e \in DOMAIN n.terms : ~IsStop(n.terms[e])
  <2>1. DOMAIN n.terms = 1 .. T
    BY <1>1
  <2>2. o.vec # <<>> \/ \E e \in DOMAIN o.terms : ~IsStop(o.terms[e])
    BY <1>1, <1>6, <1>7, <1>9, <2>1 DEF Seeded
  <2> QED
    BY <1>1, <1>2, <1>6, <2>1, <2>2
<1> QED
  BY <1>8, <1>9 DEF Seeded

LEMMA BacksEnd ==
  ASSUME Reread, NEW p \in Nat \ {0}, NEW t, NEW i, NEW v, BackAt(p, t, i, v), Finish \/ ParseTail
  PROVE  BackInv'
<1> DEFINE text == Printed(origin)
           L == Len(text)
<1>1. mode \in {"finish", "tail"}
  BY DEF Finish, ParseTail
<1>2. /\ PrintedAt(p) /\ CountsOf(origin, mode, t, i, v)
      /\ AgainOf(node, origin, mode, t, i, v) /\ PlaceOf(origin, mode, key, p, t, i, v)
  BY BackAtIs
<1>3. p = L + 1 /\ i = Len(ClauseOrder(origin)) /\ v = Len(origin.vec) /\ t = Len(origin.terms)
  BY <1>1, <1>2 DEF PlaceOf, CountsOf, Openings
<1>4. L \in Nat /\ p \in 1 .. L + 1
  <2>1. text \in Seq(ToSet(text))
    BY DEF Reread, Layout, Text
  <2>2. L \in Nat
    BY <2>1
  <2> HIDE DEF L
  <2> QED
    BY <1>3, <2>2
<1>5. cur = EOL
  BY <1>2, <1>3, TextAt DEF PrintedAt, Reread
<1>6. node.kind = origin.kind
  BY <1>1, <1>2 DEF AgainOf
<1>7. node.kind = "remember" \/ Seeded(node)
  <2>1. CASE origin.kind = "recall"
    BY <1>1, <1>2, <1>3, <2>1, SeededAgain DEF Reread
  <2> QED
    BY <1>6, <2>1 DEF Reread, Whole
<1>8. mode' \in {"tail", "parsed"} /\ UNCHANGED <<window, origin>> /\ node' = node
  <2>1. CASE Finish
    BY <1>7, <2>1 DEF Finish, Goes, Reject
  <2>2. CASE ParseTail
    BY <1>5, <2>2 DEF ParseTail, Goes, Reject, EOL
  <2> QED
    BY <2>1, <2>2
<1>9. AgainOf(node', origin, mode', t, i, v)
  BY <1>1, <1>2, <1>8, AgainSame
<1>10. CountsOf(origin, mode', t, i, v)
  BY <1>1, <1>2, <1>3, <1>8 DEF CountsOf, Openings
<1>11. PlaceOf(origin, mode', key', p, t, i, v)
  BY <1>3, <1>8 DEF PlaceOf
<1>12. mode' \notin {"rejected", "bound"}
  BY <1>8
<1> QED
  BY <1>2, <1>4, <1>8, <1>9, <1>10, <1>11, <1>12, BackHere

\* The printed text is read from its first token.
LEMMA BacksFirst ==
  ASSUME QueryInv, NodeInv, Reparse
  PROVE  BackInv'
<1> DEFINE text == Printed(node)
           L == Len(text)
<1>1. /\ mode = "parsed" /\ origin = NoNode /\ origin' = node /\ mode' = "command" /\ node' = EmptyNode
      /\ cur' = text[1] /\ peek' = text[2] /\ tape' = SubSeq(text, 3, Len(text))
  BY DEF Reparse, Goes
<1>2. Whole(node)
  BY <1>1 DEF NodeInv, QueryInv, Checked, Whole, Openings
<1> SUFFICES ASSUME NonNegative(node) PROVE BackInv'
  BY <1>1 DEF BackInv, NonNegative, Written
<1>3. Text(text) /\ L >= 2 /\ Layout(node)
  BY <1>2, PrintedIsLong, LaidOutText
<1>4. L \in Nat /\ DOMAIN text = 1 .. L
  <2>1. text \in Seq(ToSet(text))
    BY <1>3 DEF Text
  <2> QED
    BY <2>1
<1>5. PrintedAt(1)'
  <2>1. Printed(origin') = text
    BY <1>1
  <2> HIDE DEF text, L
  <2>2. 1 \in DOMAIN text /\ 2 \in DOMAIN text /\ 1 + 1 = 2 /\ 1 + 2 = 3
    BY <1>3, <1>4
  <2>3. cur' = TokenAt(text, 1) /\ peek' = TokenAt(text, 1 + 1)
    BY <1>1, <2>2 DEF TokenAt
  <2> QED
    BY <1>1, <2>1, <2>2, <2>3 DEF PrintedAt, TokenAt
<1>6. CountsOf(origin', mode', 0, 0, 0)
  <2>1. Len(node.terms) \in Nat /\ Len(ClauseOrder(node)) \in Nat /\ Len(node.vec) \in {0, 1}
    BY <1>3 DEF Layout
  <2>2. 0 \in 0 .. Len(node.terms) /\ 0 \in 0 .. Len(ClauseOrder(node)) /\ 0 \in 0 .. Len(node.vec)
    BY <2>1
  <2> QED
    BY <1>1, <2>2 DEF CountsOf, Openings
<1>7. AgainOf(node', origin', mode', 0, 0, 0)
  <2>1. \A f \in DOMAIN EmptyNode \ {"kind"} : node'[f] = <<>>
    BY <1>1, FieldNames
  <2>2. SubSeq(node.vec, 1, 0) = <<>> /\ SubSeq(node.anchors, 1, 0) = <<>>
    BY SubSeqEmpty
  <2>3. \A k : Times(ClauseOrder(node), 0, k) = 0
    BY TimesFacts
  <2>4. [j \in 1 .. 0 |-> TermToken(node, j)] = <<>>
    OBVIOUS
  <2>5. ASSUME NEW k \in Anchors \cup Modifiers
        PROVE  node'[k] = [j \in 1 .. Times(ClauseOrder(node), 0, k) |-> PrintedField(k, node[k][j])[1]]
    <3>1. k \in DOMAIN EmptyNode \ {"kind"}
      BY FieldNames DEF Anchors, Modifiers
    <3>2. [j \in 1 .. 0 |-> PrintedField(k, node[k][j])[1]] = <<>>
      OBVIOUS
    <3> QED
      BY <2>1, <2>3, <3>1, <3>2
  <2>6. node'.terms = <<>> /\ node'.vec = <<>> /\ node'.anchors = <<>> /\ node'.selector = <<>>
    BY <2>1, FieldNames
  <2>7. AgainOf(node', node, "command", 0, 0, 0)
    BY <2>2, <2>4, <2>5, <2>6 DEF AgainOf
  <2> QED
    BY <1>1, <2>7
<1>8. PlaceOf(origin', mode', key', 1, 0, 0, 0)
  BY <1>1 DEF PlaceOf
<1>9. BackAt(1, 0, 0, 0)'
  BY <1>5, <1>6, <1>7, <1>8, BackAtIsNext
<1>10. /\ 0 \in 0 .. Len(origin'.terms) /\ 0 \in 0 .. Len(ClauseOrder(origin')) /\ 0 \in 0 .. Len(origin'.vec)
  BY <1>6 DEF CountsOf
<1>11. 1 \in 1 .. Len(Printed(origin')) + 1
  BY <1>1, <1>4
<1>12. mode' \notin {"rejected", "bound"}
  BY <1>1
<1> QED
  BY <1>9, <1>10, <1>11, <1>12 DEF BackInv

-----------------------------------------------------------------------------
(* A printed command is read back.                                         *)

LEMMA BackInvInit == Init => BackInv
  BY DEF Init, BackInv

LEMMA BackInvStep == BackInv /\ NodeInv /\ QueryInv /\ [Next]_vars => BackInv'
<1> SUFFICES ASSUME BackInv, NodeInv, QueryInv, [Next]_vars PROVE BackInv'
  OBVIOUS
<1>1. CASE UNCHANGED vars
  <2>1. \A p, t, i, v : BackAt(p, t, i, v)' <=> BackAt(p, t, i, v)
    <3>1. \A p : PrintedAt(p)' <=> PrintedAt(p)
      BY <1>1 DEF vars, window, PrintedAt
    <3>2. TAKE p, t, i, v
    <3> QED
      BY <1>1, <3>1, BackAtIs, BackAtIsNext DEF vars
  <2>2. /\ origin' = origin /\ mode' = mode
    BY <1>1 DEF vars
  <2> QED
    BY <2>1, <2>2 DEF BackInv
<1>2. CASE Reparse
  BY <1>2, BacksFirst
<1>3. CASE Next /\ ~Reparse
  <2>1. origin' = origin
    BY <1>3 DEF Next, ParseQuery, ParseGraphSelector, ParseSelector, ParsePhrase, ParseTerms, ParseClause,
       ParseSeparator, ParseValue, ParseVec, Finish, ParseTail, Bind, Accept, Reject
  <2> SUFFICES ASSUME origin # NoNode, NonNegative(origin) PROVE BackInv'
    BY <2>1 DEF BackInv, NonNegative, Written
  <2>2. PICK p \in 1 .. Len(Printed(origin)) + 1, t \in 0 .. Len(origin.terms),
             i \in 0 .. Len(ClauseOrder(origin)), v \in 0 .. Len(origin.vec) : BackAt(p, t, i, v)
    BY DEF BackInv
  <2>3. p \in Nat \ {0}
    BY <2>2
  <2>4. Reread
    <3>1. Whole(origin)
      BY DEF NodeInv
    <3> QED
      BY <3>1, LaidOutText DEF Reread
  <2>5. ~Bind
    BY DEF Bind
  <2>6. CASE ParseQuery
    BY <2>2, <2>3, <2>4, <2>6, BacksQuery
  <2>7. CASE ParseGraphSelector
    BY <2>2, <2>3, <2>4, <2>7, BacksGraph
  <2>8. CASE ParseSelector
    BY <2>2, <2>3, <2>4, <2>8, BacksSelector
  <2>9. CASE ParsePhrase
    BY <2>2, <2>3, <2>4, <2>9, BacksPhrase
  <2>10. CASE ParseTerms
    BY <2>2, <2>3, <2>4, <2>10, BacksTerms
  <2>11. CASE ParseClause
    BY <2>2, <2>3, <2>4, <2>11, BacksClause
  <2>12. CASE ParseSeparator
    BY <2>2, <2>3, <2>4, <2>12, BacksSeparator
  <2>13. CASE ParseValue
    BY <2>2, <2>3, <2>4, <2>13, BacksValue
  <2>14. CASE ParseVec
    BY <2>2, <2>3, <2>4, <2>14, BacksVec
  <2>15. CASE Finish \/ ParseTail
    BY <2>2, <2>3, <2>4, <2>15, BacksEnd
  <2> QED
    BY <1>3, <2>5, <2>6, <2>7, <2>8, <2>9, <2>10, <2>11, <2>12, <2>13, <2>14, <2>15 DEF Next
<1> QED
  BY <1>1, <1>2, <1>3

\* What one token of a node says.
SaysOne(kind, k, t) ==
    CASE k \in {"top", "depth"} -> <<IntOf[t.literal]>>
      [] k = "terms" /\ kind = "remember" -> <<t.type, t.literal>>
      [] k = "vec" -> <<t.literal>>
      [] OTHER -> <<t.type = "phrase", Fold(t.literal)>>

LEMMA SaysSame ==
  ASSUME NEW n, NEW o, NEW k, NEW l \in Nat, DOMAIN n[k] = 1 .. l, DOMAIN o[k] = 1 .. l,
         \A j \in 1 .. l : SaysOne(n.kind, k, n[k][j]) = SaysOne(o.kind, k, o[k][j])
  PROVE  Says(n, k) = Says(o, k)
<1>1. Says(n, k) = [i \in 1 .. l |-> SaysOne(n.kind, k, n[k][i])]
  BY DEF Says, SaysOne
<1>2. Says(o, k) = [i \in 1 .. l |-> SaysOne(o.kind, k, o[k][i])]
  BY DEF Says, SaysOne
<1> QED
  BY <1>1, <1>2

LEMMA WholeSubSeq == ASSUME NEW S, NEW s \in Seq(S) PROVE SubSeq(s, 1, Len(s)) = s
<1> DEFINE l == Len(s)
           b == SubSeq(s, 1, l)
<1>1. l \in Nat /\ \A i \in 1 .. l : s[i] \in S
  OBVIOUS
<1> HIDE DEF l
<1>2. /\ b \in Seq(S) /\ Len(b) = (IF 1 <= l THEN l - 1 + 1 ELSE 0)
      /\ \A i \in 1 .. l - 1 + 1 : b[i] = s[1 + i - 1]
  BY <1>1, SubSeqProperties
<1> HIDE DEF b
<1>3. Len(b) = l /\ \A i \in 1 .. l : 1 + i - 1 = i /\ i \in 1 .. l - 1 + 1
  BY <1>1, <1>2
<1>4. \A i \in 1 .. l : b[i] = s[i]
  BY <1>2, <1>3
<1>5. b = s
  BY <1>2, <1>3, <1>4, SeqEqual DEF l
<1> QED
  BY <1>5 DEF b, l

LEMMA PrintedBack == BackInv /\ NodeInv => PrintsBack
<1> SUFFICES ASSUME BackInv, NodeInv, origin # NoNode, NonNegative(origin) PROVE ParsesBack
  BY DEF PrintsBack
<1>1. mode # "rejected"
  BY DEF BackInv
<1> SUFFICES ASSUME mode = "parsed"
    PROVE  /\ node.kind = origin.kind /\ node.selector = origin.selector
           /\ node.kind = "remember" => node.anchors = origin.anchors
           /\ \A k \in {"terms", "vec"} \cup Anchors \cup Modifiers : Says(node, k) = Says(origin, k)
  BY <1>1 DEF ParsesBack
<1> DEFINE ks == ClauseOrder(origin)
           C == Len(ks)
           T == Len(origin.terms)
           V == Len(origin.vec)
<1>2. PICK p, t, i, v : BackAt(p, t, i, v)
  BY DEF BackInv
<1>3. /\ CountsOf(origin, mode, t, i, v) /\ AgainOf(node, origin, mode, t, i, v)
      /\ PlaceOf(origin, mode, key, p, t, i, v)
  BY <1>2, BackAtIs
<1>4. t = T /\ i = C /\ v = V
  BY <1>3 DEF CountsOf, PlaceOf, Openings
<1>5. Whole(origin) /\ Holds(origin) /\ HoldsSeqs(origin)
  BY SeqsHeld DEF NodeInv, Whole
<1>6. /\ node.terms = [j \in 1 .. T |-> TermToken(origin, j)]
      /\ \A k \in Anchors \cup Modifiers :
            node[k] = [j \in 1 .. Times(ks, C, k) |-> PrintedField(k, origin[k][j])[1]]
      /\ node.vec = SubSeq(origin.vec, 1, V)
      /\ origin.kind = "remember" => node.anchors = SubSeq(origin.anchors, 1, C)
      /\ node.kind = origin.kind /\ node.selector = origin.selector
  BY <1>3, <1>4 DEF AgainOf
<1>7. node.kind = "remember" => node.anchors = origin.anchors
  <2>1. origin.anchors \in Seq(Anchors)
    BY <1>5 DEF Holds
  <2> QED
    BY <1>6, <2>1, WholeSubSeq DEF ClauseOrder
<1>8. Says(node, "terms") = Says(origin, "terms")
  <2>1. T \in Nat /\ DOMAIN origin["terms"] = 1 .. T
    BY <1>5 DEF HoldsSeqs
  <2>2. DOMAIN node["terms"] = 1 .. T /\ \A j \in 1 .. T : node["terms"][j] = TermToken(origin, j)
    BY <1>6
  <2>3. ASSUME NEW j \in 1 .. T
        PROVE  SaysOne(node.kind, "terms", TermToken(origin, j)) = SaysOne(origin.kind, "terms", origin["terms"][j])
    <3> DEFINE a == origin.terms[j]
               u == TermToken(origin, j)
    <3>1. /\ a \in Tokens /\ u.type = a.type
          /\ u.literal = IF origin.kind = "recall" THEN Fold(a.literal) ELSE a.literal
      BY <1>5, TermPrints
    <3>2. Fold(Fold(a.literal)) = Fold(a.literal)
      BY <3>1, FoldFacts
    <3>3. origin.kind \in {"recall", "remember"}
      BY <1>5 DEF Whole
    <3> HIDE DEF u, a
    <3>4. SaysOne(origin.kind, "terms", u) = SaysOne(origin.kind, "terms", a)
      BY <3>1, <3>2, <3>3 DEF SaysOne
    <3> QED
      BY <1>6, <3>4 DEF u, a
  <2>4. \A j \in 1 .. T : SaysOne(node.kind, "terms", node["terms"][j]) = SaysOne(origin.kind, "terms", origin["terms"][j])
    BY <2>2, <2>3
  <2> QED
    BY <2>1, <2>2, <2>4, SaysSame
<1>9. Says(node, "vec") = Says(origin, "vec")
  <2>1. node.vec = origin.vec
    <3>1. origin.vec \in AtMostOne({x \in Tokens : x.type = "literal"})
      BY <1>5 DEF Holds
    <3> QED
      BY <1>6, <3>1, WholePart DEF AtMostOne
  <2>2. V \in Nat /\ DOMAIN origin["vec"] = 1 .. V /\ node["vec"] = origin["vec"]
    BY <1>5, <2>1 DEF HoldsSeqs
  <2>3. \A j \in 1 .. V : SaysOne(node.kind, "vec", node["vec"][j]) = SaysOne(origin.kind, "vec", origin["vec"][j])
    BY <1>6, <2>2
  <2> QED
    BY <2>2, <2>3, SaysSame
<1>10. ASSUME NEW k \in Anchors \cup Modifiers PROVE Says(node, k) = Says(origin, k)
  <2> DEFINE l == Len(origin[k])
  <2>1. l \in Nat /\ DOMAIN origin[k] = 1 .. l
    BY <1>5 DEF HoldsSeqs
  <2>2. Times(ks, C, k) = l
    BY <1>5, OrderFacts DEF Counted, Whole
  <2>3. node[k] = [j \in 1 .. l |-> PrintedField(k, origin[k][j])[1]]
    BY <1>6, <2>2
  <2>4. DOMAIN node[k] = 1 .. l /\ \A j \in 1 .. l : node[k][j] = PrintedField(k, origin[k][j])[1]
    BY <2>3
  <2>5. ASSUME NEW j \in 1 .. l
        PROVE  SaysOne(node.kind, k, node[k][j]) = SaysOne(origin.kind, k, origin[k][j])
    <3> DEFINE a == origin[k][j]
               u == PrintedField(k, a)[1]
    <3>1. a \in Tokens /\ SaysAs(k, u, a)
      BY <1>5, FieldPrints
    <3>2. Fold(Fold(a.literal)) = Fold(a.literal)
      BY <3>1, FoldFacts
    <3>3. node[k][j] = u
      BY <2>4
    <3> HIDE DEF u, a
    <3>4. SaysOne(origin.kind, k, u) = SaysOne(origin.kind, k, a)
      <4>1. CASE k \in Anchors
        <5>1. u.literal = Fold(a.literal) /\ (u.type = "phrase" <=> a.type = "phrase")
          BY <3>1, <4>1 DEF SaysAs
        <5> QED
          BY <3>2, <4>1, <5>1 DEF SaysOne, Anchors
      <4>2. CASE k \in {"since", "until"}
        BY <3>1, <4>2 DEF SaysAs, SaysOne
      <4>3. CASE k \in {"top", "depth"}
        BY <3>1, <4>3 DEF SaysAs, SaysOne
      <4> QED
        BY <4>1, <4>2, <4>3 DEF Modifiers
    <3> QED
      BY <1>6, <3>3, <3>4 DEF a
  <2> QED
    BY <2>1, <2>4, <2>5, SaysSame
<1> QED
  BY <1>6, <1>7, <1>8, <1>9, <1>10

\* A command's String is a query that parses back to the same node, if its
\* numbers are not negative (PrintsBack): what a client logs is what it ran.
THEOREM PrintsAsRead == Spec => []PrintsBack
<1>1. Init => QueryInv /\ ReadingInv /\ BackInv
  BY QueryInvInit, ReadingInvInit, BackInvInit
<1>2. QueryInv /\ ReadingInv /\ BackInv /\ [Next]_vars => (QueryInv /\ ReadingInv /\ BackInv)'
  BY QueryInvStep, ReadingInvStep, BackInvStep DEF ReadingInv
<1>3. QueryInv /\ ReadingInv /\ BackInv => PrintsBack
  BY PrintedBack DEF ReadingInv
<1> QED
  BY <1>1, <1>2, <1>3, PTL DEF Spec
=============================================================================
