------------------------- MODULE ServerConfigProofs --------------------------
(***************************************************************************)
(* ServerConfig for every set of options, command lines, PRU programs and  *)
(* initial files.                                                          *)
(***************************************************************************)
EXTENDS ServerConfig, TLAPS

-----------------------------------------------------------------------------
\* Four digits behind the point do not take a number out of its range.
LEMMA RoundingStays ==
  ASSUME NEW high \in Nat, high % 10 = 0, NEW x, x # NaN,
         AssertDoubleRangeInclusive(0, high, x)
  PROVE  AssertDoubleRangeInclusive(0, high, Round4(x))
<1> DEFINE q == (x + 5) \div 10
           h == high \div 10
<1>1. x \in Int /\ 0 <= x /\ x <= high
  BY DEF AssertDoubleRangeInclusive, AssertIntRangeInclusive
<1>2. q \in Int /\ 10 * q <= x + 5 /\ x + 5 < 10 * q + 10 BY <1>1
<1>3. h \in Int /\ high = 10 * h BY <1>1
<1>4. q >= 0 /\ q <= h
  <2> HIDE DEF q, h
  <2> QED BY <1>1, <1>2, <1>3
<1>5. Round4(x) = q * 10 BY <1>1, ConfigAssumption DEF Round4
<1> QED
  <2> HIDE DEF q, h
  <2> QED BY <1>2, <1>3, <1>4, <1>5
          DEF AssertDoubleRangeInclusive, AssertIntRangeInclusive
-----------------------------------------------------------------------------
\* A text that is cut short has keys of the file only.
LEMMA CutKeys ==
  ASSUME NEW doc, NEW n \in 0 .. Len(PrintedKeys)
  PROVE  /\ DOMAIN CutShort(doc, n) \subseteq Keys
         /\ \A k \in DOMAIN CutShort(doc, n) : CutShort(doc, n)[k] = doc[k]
<1>1. \A i \in 1 .. 12 : PrintedKeys[i] \in Keys
  BY DEF PrintedKeys, Keys, Fields, Ports, Counts, Floats, WhitePoint, Names
<1>2. Len(PrintedKeys) = 12
  BY DEF PrintedKeys
<1>3. \A i \in 1 .. n : i \in 1 .. 12
  BY <1>2
<1> QED BY <1>1, <1>3 DEF CutShort

\* What is printed of a valid configuration is valid, a NaN included, down to
\* wherever the text ends.
LEMMA PrintedIsValid ==
  ASSUME NEW c, validate_server_config(c), NEW n \in 0 .. Len(PrintedKeys)
  PROVE  validate_server_config(Update(c, CutShort(server_config_to_json(c), n)))
<1> DEFINE doc == server_config_to_json(c)
           text == CutShort(doc, n)
           u == Update(c, text)
<1>1. \A k \in Keys : doc[k] = IF k \in Floats THEN Round4(c[k]) ELSE c[k]
  BY DEF server_config_to_json
<1> HIDE DEF doc
<1>2. DOMAIN text \subseteq Keys /\ \A k \in DOMAIN text : text[k] = doc[k]
  BY CutKeys
<1> HIDE DEF text
<1>3. \A f \in Fields : u[f] = IF f \in DOMAIN text THEN text[f] ELSE c[f]
  BY DEF Update
<1> HIDE DEF u
<1>4. ASSUME NEW f \in Fields \ Floats PROVE u[f] = c[f]
  BY <1>1, <1>2, <1>3
<1>5. ASSUME NEW high \in Nat, high % 10 = 0, NEW f \in Floats,
             AssertDoubleRangeInclusive(0, high, c[f])
      PROVE  AssertDoubleRangeInclusive(0, high, u[f])
  <2>1. f \in Fields
    BY DEF Fields
  <2>2. u[f] = c[f] \/ u[f] = Round4(c[f])
    BY <1>1, <1>2, <1>3, <2>1
  <2>3. AssertDoubleRangeInclusive(0, high, Round4(c[f]))
    <3>1. CASE c[f] = NaN
      BY <3>1 DEF Round4, AssertDoubleRangeInclusive
    <3>2. CASE c[f] # NaN
      BY <1>5, <3>2, RoundingStays
    <3> QED BY <3>1, <3>2
  <2> QED BY <1>5, <2>2, <2>3
<1>6. /\ 1000000 \in Nat /\ 1000000 % 10 = 0
      /\ 100000 \in Nat /\ 100000 % 10 = 0
  OBVIOUS
<1>7. "lum_power" \in Floats /\ WhitePoint \subseteq Floats
  BY DEF Floats
<1>8. /\ AssertDoubleRangeInclusive(0, 1000000, u["lum_power"])
      /\ \A f \in WhitePoint : AssertDoubleRangeInclusive(0, 100000, u[f])
  BY <1>5, <1>6, <1>7 DEF validate_server_config
<1>9. /\ "output_mode" \in Fields \ Floats /\ "output_mapping" \in Fields \ Floats
      /\ "leds_per_strip" \in Fields \ Floats /\ "used_strip_count" \in Fields \ Floats
      /\ "color_channel_order" \in Fields \ Floats /\ Ports \subseteq Fields \ Floats
  BY DEF Fields, Ports, Counts, Names, Floats, WhitePoint
<1>10. validate_server_config(u)
  <2>1. \A f \in Ports : u[f] = c[f]
    BY <1>4, <1>9
  <2>2. /\ u["output_mode"] = c["output_mode"]
        /\ u["output_mapping"] = c["output_mapping"]
        /\ u["leds_per_strip"] = c["leds_per_strip"]
        /\ u["used_strip_count"] = c["used_strip_count"]
        /\ u["color_channel_order"] = c["color_channel_order"]
    BY <1>4, <1>9
  <2> QED BY <1>8, <2>1, <2>2 DEF validate_server_config
<1> QED BY <1>10 DEF u, text, doc

-----------------------------------------------------------------------------
LEMMA UpdateIsConfig == ASSUME NEW c, NEW s
  PROVE  /\ DOMAIN Update(c, s) = Fields
         /\ \A f \in Fields : Update(c, s)[f] = IF f \in DOMAIN s THEN s[f] ELSE c[f]
  BY DEF Update

LEMMA InitIsConfig == DOMAIN init_server_config = Fields
  BY DEF init_server_config, Fields, Ports, Counts, Floats, WhitePoint, Names

\* A process that is gone satisfies everything said about processes.
LEMMA ExitStep == ASSUME TypeOK, Exit, UNCHANGED disk PROVE IInv'
<1>1. << >> \in Seq(Options) /\ 1 \in 1 .. Len(<< >>) + 1
  OBVIOUS
<1>2. TypeOK'
  BY <1>1, InitIsConfig DEF TypeOK, Exit
<1> QED BY <1>2 DEF Exit, IInv, LastWordCounts, ValidInv, FileInv

\* One more option: it has the last word on the fields it sets, and only there.
LEMMA OptionStep ==
  ASSUME TypeOK, LastWordCounts, Parsing, pc' = "parse", optind' = optind + 1,
         UNCHANGED <<argv, disk>>,
         config' = Update(config, Sets(optind))
  PROVE  LastWordCounts'
<1>1. \A i : Sets(i)' = Sets(i)
  BY DEF Sets
<1>2. optind \in Nat /\ optind' - 1 = optind
  BY DEF TypeOK, Parsing
<1>3. ASSUME NEW f \in Fields, \A i \in 1 .. optind : f \notin DOMAIN Sets(i)
      PROVE  config'[f] = init_server_config[f]
  <2>1. f \notin DOMAIN Sets(optind)
    BY <1>2, <1>3 DEF TypeOK
  <2>2. config'[f] = config[f]
    BY <2>1, UpdateIsConfig
  <2> QED BY <1>2, <1>3, <2>2 DEF LastWordCounts, Parsing
<1>4. ASSUME NEW f \in Fields, NEW i \in 1 .. optind, f \in DOMAIN Sets(i),
             \A j \in i + 1 .. optind : f \notin DOMAIN Sets(j)
      PROVE  config'[f] = Sets(i)[f]
  <2>1. CASE i = optind
    BY <1>4, <2>1, UpdateIsConfig
  <2>2. CASE i # optind
    <3>1. i \in 1 .. optind - 1 /\ optind \in i + 1 .. optind
      BY <1>2, <2>2
    <3>2. config'[f] = config[f]
      BY <1>4, <3>1, UpdateIsConfig
    <3>3. \A j \in i + 1 .. optind - 1 : f \notin DOMAIN Sets(j)
      BY <1>2, <1>4
    <3> QED BY <1>4, <3>1, <3>2, <3>3 DEF LastWordCounts, Parsing
  <2> QED BY <2>1, <2>2
<1>5. /\ \A f \in Fields : (\A i \in 1 .. optind' - 1 : f \notin DOMAIN Sets(i)') =>
           config'[f] = init_server_config[f]
      /\ \A f \in Fields : \A i \in 1 .. optind' - 1 :
           /\ f \in DOMAIN Sets(i)'
           /\ \A j \in i + 1 .. optind' - 1 : f \notin DOMAIN Sets(j)'
           => config'[f] = Sets(i)'[f]
  BY <1>1, <1>2, <1>3, <1>4
<1> QED BY <1>5 DEF LastWordCounts

-----------------------------------------------------------------------------
\* No process runs yet, and the configuration is that of init_server_config.
LEMMA InitHolds == Init => IInv
<1> SUFFICES ASSUME Init PROVE IInv OBVIOUS
<1>1. << >> \in Seq(Options) /\ 1 \in 1 .. Len(<< >>) + 1
  OBVIOUS
<1>2. TypeOK
  BY <1>1, InitIsConfig, DisksAssumption DEF Init, TypeOK
<1> QED BY <1>2 DEF Init, IInv, LastWordCounts, ValidInv, FileInv

\* IInv is inductive: every action keeps it.
LEMMA StepHolds == IInv /\ [Next]_vars => IInv'
<1> SUFFICES ASSUME IInv, [Next]_vars PROVE IInv' OBVIOUS
<1> USE DEF IInv
<1>1. CASE Start
  <2>1. argv' \in Seq(Options) /\ 1 \in 1 .. Len(argv') + 1
    BY <1>1, ConfigAssumption DEF Start
  <2>2. TypeOK'
    BY <1>1, <2>1, InitIsConfig DEF Start, TypeOK
  <2>3. LastWordCounts'
    BY <1>1 DEF Start, LastWordCounts
  <2> QED BY <1>1, <2>2, <2>3 DEF Start, ValidInv, FileInv
<1>2. CASE SetFields
  <2>1. optind \in 1 .. Len(argv) /\ optind + 1 \in 1 .. Len(argv) + 1
    BY <1>2 DEF SetFields, Parsing, TypeOK
  <2>2. Option.opt # "C"
    BY <1>2 DEF SetFields, SettingOptions
  <2>3. Sets(optind) = OptionSets(Option)
    BY <1>2, <2>2 DEF SetFields, Sets, Option
  <2>4. LastWordCounts'
    BY <1>2, <2>3, OptionStep DEF SetFields, Parsing
  <2>5. TypeOK'
    BY <1>2, <2>1, UpdateIsConfig DEF SetFields, TypeOK, Parsing
  <2> QED BY <1>2, <2>4, <2>5 DEF SetFields, Parsing, ValidInv, FileInv
<1>3. CASE ReadConfigFile
  <2>1. optind \in 1 .. Len(argv) /\ optind + 1 \in 1 .. Len(argv) + 1
    BY <1>3 DEF ReadConfigFile, Parsing, TypeOK
  <2>2. Sets(optind) = server_config_from_json(disk.doc)
    BY <1>3 DEF ReadConfigFile, Sets, Option
  <2>3. CASE disk.state = "document"
    <3>1. LastWordCounts'
      BY <1>3, <2>2, <2>3, OptionStep DEF ReadConfigFile, Parsing
    <3>2. TypeOK'
      BY <1>3, <2>1, <2>3, UpdateIsConfig DEF ReadConfigFile, TypeOK, Parsing
    <3> QED BY <1>3, <2>3, <3>1, <3>2 DEF ReadConfigFile, Parsing, ValidInv, FileInv
  <2>4. CASE disk.state # "document"
    BY <1>3, <2>4 DEF ReadConfigFile, Parsing, TypeOK, LastWordCounts, ValidInv, FileInv
  <2> QED BY <2>3, <2>4
<1>4. CASE NameDriverConfig
  <2>1. optind \in 1 .. Len(argv) /\ optind + 1 \in 1 .. Len(argv) + 1
    BY <1>4 DEF NameDriverConfig, Parsing, TypeOK
  <2>2. TypeOK'
    BY <1>4, <2>1 DEF NameDriverConfig, TypeOK, Parsing
  <2>3. Sets(optind) = << >>
    BY <1>4 DEF NameDriverConfig, Sets, Option, SettingOptions
  <2>4. LastWordCounts'
    <3> SUFFICES ASSUME NEW f \in Fields
        PROVE  /\ (\A i \in 1 .. optind : f \notin DOMAIN Sets(i)) =>
                    config[f] = init_server_config[f]
               /\ \A i \in 1 .. optind :
                    /\ f \in DOMAIN Sets(i)
                    /\ \A j \in i + 1 .. optind : f \notin DOMAIN Sets(j)
                    => config[f] = Sets(i)[f]
      BY <1>4, <2>1 DEF NameDriverConfig, LastWordCounts, Sets
    <3>1. f \notin DOMAIN Sets(optind)
      BY <2>3
    <3>2. /\ (\A i \in 1 .. optind - 1 : f \notin DOMAIN Sets(i)) =>
               config[f] = init_server_config[f]
          /\ \A i \in 1 .. optind - 1 :
               /\ f \in DOMAIN Sets(i)
               /\ \A j \in i + 1 .. optind - 1 : f \notin DOMAIN Sets(j)
               => config[f] = Sets(i)[f]
      BY <1>4 DEF NameDriverConfig, Parsing, LastWordCounts
    <3>3. \A i \in 1 .. optind - 1 : i \in 1 .. optind
      BY <2>1
    <3>4. \A i \in 1 .. optind : f \in DOMAIN Sets(i) => i \in 1 .. optind - 1
      BY <2>1, <3>1
    <3> QED BY <2>1, <3>2, <3>3, <3>4
  <2> QED BY <1>4, <2>2, <2>4 DEF NameDriverConfig, Parsing, ValidInv, FileInv
<1>5. CASE Quit \/ StackOverflow \/ Kill
  BY <1>5, ExitStep DEF Quit, StackOverflow, Kill
<1>6. CASE validate_server_config_or_die
  <2>1. CASE validate_server_config(config)
    BY <1>6, <2>1 DEF validate_server_config_or_die, TypeOK, LastWordCounts, ValidInv, FileInv
  <2>2. CASE ~validate_server_config(config)
    BY <1>6, <2>2, ExitStep DEF validate_server_config_or_die
  <2> QED BY <2>1, <2>2
<1>7. CASE LoadDriverConfig
  <2>1. CASE Exit
    BY <1>7, <2>1, ExitStep DEF LoadDriverConfig
  <2>2. CASE ~Exit
    <3>1. /\ pc = "load" /\ pc' = IF config_file THEN "open" ELSE "running"
          /\ UNCHANGED <<disk, argv, optind, config, config_file, driver_file>>
      BY <1>7, <2>2 DEF LoadDriverConfig
    <3> QED BY <3>1 DEF TypeOK, LastWordCounts, ValidInv, FileInv
  <2> QED BY <2>1, <2>2
<1>8. CASE OpenConfigFile
  <2>1. TypeOK'
    BY <1>8 DEF OpenConfigFile, TypeOK, Empty
  <2> QED BY <1>8, <2>1 DEF OpenConfigFile, LastWordCounts, ValidInv, FileInv
<1>9. CASE PutConfigFile
  <2>1. pc = "put" /\ config_file
    BY <1>9 DEF PutConfigFile, FileInv
  <2>2. CASE disk' = Empty
    <3>1. TypeOK'
      BY <1>9, <2>2 DEF PutConfigFile, TypeOK, Empty
    <3> QED
      BY <1>9, <2>1, <2>2, <3>1 DEF PutConfigFile, LastWordCounts, ValidInv, FileInv
  <2>3. ASSUME NEW n \in 0 .. Len(PrintedKeys),
               disk' = [state |-> "document",
                        doc   |-> CutShort(server_config_to_json(config), n)]
        PROVE  IInv'
    <3>1. DOMAIN CutShort(server_config_to_json(config), n) \subseteq Keys
      BY CutKeys
    <3>2. TypeOK'
      BY <1>9, <2>3, <3>1 DEF PutConfigFile, TypeOK
    <3>3. FileInv'
      BY <1>9, <2>1, <2>3 DEF PutConfigFile, FileInv
    <3> QED
      BY <1>9, <2>1, <3>2, <3>3 DEF PutConfigFile, LastWordCounts, ValidInv
  <2> QED BY <1>9, <2>2, <2>3 DEF PutConfigFile
<1>10. CASE UNCHANGED vars
  BY <1>10 DEF vars, TypeOK, LastWordCounts, Sets, ValidInv, FileInv
<1> QED
  BY <1>1, <1>2, <1>3, <1>4, <1>5, <1>6, <1>7, <1>8, <1>9, <1>10 DEF Next, Main

\* Past validation the configuration is valid, and the file holds what a running
\* server has been able to write of it (opc-server.cc:402-466).
THEOREM Invariance == Spec => []IInv
  BY InitHolds, StepHolds, PTL DEF Spec

\* Every field of the configuration comes from the last option that sets it,
\* --config included.
THEOREM OptionsTakeEffectInOrder == Spec => []LastWordCounts
<1>1. IInv => LastWordCounts BY DEF IInv
<1> QED BY <1>1, Invariance, PTL

\* No path that a format of server_config_from_json asks for is one that a value
\* of a text has: nothing is found in any document.
LEMMA NothingIsRead ==
  ASSUME NEW doc PROVE DOMAIN server_config_from_json(doc) = {}
<1>1. ASSUME NEW k PROVE scan_path(k) # walk_path(k)
  <2>1. Len(scan_path(k)) = 1 /\ Len(walk_path(k)) = 2
    BY DEF scan_path, walk_path
  <2> QED BY <2>1
<1> QED BY <1>1 DEF server_config_from_json

\* A server whose options set nothing, be --config among them or not, has the
\* defaults, whatever the file holds and whoever has written it
\* (server-config.cc:128).
THEOREM FileCountsForNothing ==
  Spec => [](pc = "parse" /\ (\A i \in 1 .. optind - 1 : argv[i].opt \notin SettingOptions)
               => \A f \in Fields : config[f] = init_server_config[f])
<1>1. ASSUME IInv, pc = "parse", NEW f \in Fields,
             \A i \in 1 .. optind - 1 : argv[i].opt \notin SettingOptions
      PROVE  config[f] = init_server_config[f]
  <2>1. ASSUME NEW i \in 1 .. optind - 1 PROVE f \notin DOMAIN Sets(i)
    <3>1. CASE argv[i].opt = "C"
      BY <3>1, NothingIsRead DEF Sets
    <3>2. CASE argv[i].opt # "C"
      <4>1. Sets(i) = << >>
        BY <1>1, <3>2 DEF Sets
      <4> QED BY <4>1
    <3> QED BY <3>1, <3>2
  <2> QED BY <1>1, <2>1 DEF IInv, LastWordCounts
<1>2. IInv => (pc = "parse" /\ (\A i \in 1 .. optind - 1 : argv[i].opt \notin SettingOptions)
                 => \A f \in Fields : config[f] = init_server_config[f])
  BY <1>1
<1> QED BY <1>2, Invariance, PTL

\* No value that validation refuses is ever saved.
THEOREM SavedIsValid == Spec => OnlyValidIsSaved
<1>1. ASSUME IInv, [Next]_vars, disk' # disk, disk' # Empty
      PROVE  validate_server_config(Update(config, disk'.doc))
  <2>1. PutConfigFile
    BY <1>1 DEF Next, Main, vars, Start, SetFields, ReadConfigFile, NameDriverConfig,
       Quit, StackOverflow, Kill, validate_server_config_or_die, LoadDriverConfig,
       OpenConfigFile
  <2>2. validate_server_config(config)
    BY <1>1, <2>1 DEF PutConfigFile, IInv, ValidInv
  <2>3. PICK n \in 0 .. Len(PrintedKeys) :
          disk' = [state |-> "document",
                   doc   |-> CutShort(server_config_to_json(config), n)]
    BY <1>1, <2>1 DEF PutConfigFile
  <2> QED BY <2>2, <2>3, PrintedIsValid
<1>2. IInv /\ [Next]_vars =>
        [(disk' # disk /\ disk' # Empty) =>
           validate_server_config(Update(config, disk'.doc))]_vars
  BY <1>1
<1> QED BY <1>2, Invariance, PTL DEF Spec, OnlyValidIsSaved

\* An empty file stays empty and stops every process that names it.
THEOREM EmptyFileIsFinal == Spec => EmptyFileStopsServer
<1>1. ASSUME IInv, Next, disk = Empty, pc # "put"
      PROVE  /\ disk' = Empty
             /\ ~(config_file' /\ pc' \in {"open", "put", "running"})
  <2>1. disk' = Empty /\ pc' # "put"
    <3>1. ~(config_file /\ pc = "open")
      BY <1>1 DEF IInv, FileInv, Empty
    <3>2. pc # "open"
      BY <3>1, <1>1 DEF IInv, FileInv
    <3> QED
      BY <1>1, <3>2 DEF Next, Main, vars, Start, Exit, SetFields, ReadConfigFile,
         NameDriverConfig, Quit, StackOverflow, Kill, validate_server_config_or_die,
         LoadDriverConfig, OpenConfigFile, PutConfigFile
  <2>2. IInv' BY <1>1, StepHolds
  <2>3. disk'.state = "short" BY <2>1 DEF Empty
  <2>4. ~(config_file' /\ pc' = "running")
    <3>1. CASE LoadDriverConfig
      BY <3>1 DEF LoadDriverConfig, Exit
    <3>2. CASE ~LoadDriverConfig
      BY <1>1, <3>2 DEF Next, Main, Start, Exit, SetFields, ReadConfigFile,
         NameDriverConfig, Quit, StackOverflow, Kill, Parsing,
         validate_server_config_or_die, OpenConfigFile, PutConfigFile
    <3> QED BY <3>1, <3>2
  <2> QED BY <2>1, <2>2, <2>3, <2>4 DEF IInv, FileInv
<1>2. IInv /\ [Next]_vars =>
        [(disk = Empty /\ pc # "put") =>
           /\ disk' = Empty
           /\ ~(config_file' /\ pc' \in {"open", "put", "running"})]_vars
  BY <1>1
<1> QED BY <1>2, Invariance, PTL DEF Spec, EmptyFileStopsServer
=============================================================================
