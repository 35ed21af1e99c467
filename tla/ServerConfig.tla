---------------------------- MODULE ServerConfig -----------------------------
(***************************************************************************)
(* opc-server from its command line to its threads: options and the JSON   *)
(* configuration file are read in order (handle_args), the result is       *)
(* validated and, before the threads start, written back to the file.  The *)
(* process may be killed between any two steps and started again with      *)
(* another command line; the file is what survives.                        *)
(*                                                                         *)
(* A document is the function from keys to values that the text of the     *)
(* file states, down to where the text ends.  A floating-point number is a *)
(* number of hundred-thousandths, or NaN.                                  *)
(***************************************************************************)
EXTENDS Integers, Sequences

CONSTANTS
  NaN,           \* what atof makes of "nan"
  IntSpan,       \* 2^32; less in a run, as TLC's own integers are that wide
  Programs,      \* the pru/bin/<mode>-<mapping>-pru<n>.bin that can be read
  Options,       \* what getopt_long may return: [opt, arg]
  CommandLines,  \* sequences of them
  Disks          \* the contents the file may have before the first start

ASSUME ConfigAssumption ==
  /\ NaN \notin Int
  /\ IntSpan \in Nat /\ IntSpan > 4096 /\ IntSpan % 2 = 0
  /\ CommandLines \subseteq Seq(Options)

Ports == {"tcp_port", "udp_port", "e131_port"}
Counts == {"leds_per_strip", "used_strip_count"}
WhitePoint == {"red", "green", "blue"}
Floats == WhitePoint \union {"lum_power"}
Names == {"output_mode", "output_mapping"}
Orders == {"RGB", "RBG", "GRB", "GBR", "BGR", "BRG"}

\* The fields of server_config_t and, under the same names, the keys of the
\* file, in the order in which they are printed.
Fields == Ports \union Counts \union Floats \union Names
            \union {"color_channel_order", "lut_enabled"}
Keys == Fields \ {"e131_port"}
PrintedKeys == <<"output_mode", "output_mapping", "leds_per_strip",
                 "used_strip_count", "color_channel_order", "tcp_port", "udp_port",
                 "lut_enabled", "lum_power", "red", "green", "blue">>

\* No key of a file is unknown: nobody looks for it.
ASSUME DisksAssumption == \A d \in Disks :
  /\ d.state \in {"document", "short", "absent", "huge"}
  /\ DOMAIN d.doc \subseteq Keys
  /\ d = [state |-> d.state, doc |-> d.doc]

init_server_config == [
  output_mode |-> "ws281x", output_mapping |-> "original-ledscape",
  tcp_port |-> 7890, udp_port |-> 7890, e131_port |-> 5568,
  leds_per_strip |-> 250, used_strip_count |-> 48,
  color_channel_order |-> "BRG", lut_enabled |-> TRUE,
  red |-> 90000, green |-> 100000, blue |-> 100000, lum_power |-> 200000 ]

VARIABLES
  disk,         \* the file: [state, doc]
  pc,           \* where the process is; "off": there is none
  argv,         \* the command line of the process
  optind,       \* the next option
  config,       \* server_config of main
  config_file,  \* --config was among the options
  driver_file   \* --driver-config was

vars == <<disk, pc, argv, optind, config, config_file, driver_file>>

Empty == [state |-> "short", doc |-> << >>]

-----------------------------------------------------------------------------
\* Conversions.

uint16(n) == n % 65536
\* uint32_t, compared as the int it is passed as.
int32(n) == ((n + IntSpan \div 2) % IntSpan) - (IntSpan \div 2)

color_channel_order_from_string(s) == IF s \in Orders THEN s ELSE "invalid"

\* printf's %.4f.
Round4(x) == IF x = NaN THEN NaN ELSE ((x + 5) \div 10) * 10

legacy_mode(name) ==
  [output_mode    |-> CASE name = "NOP" -> "nop"
                        [] name = "DMX" -> "dmx"
                        [] name \in {"WS2801", "WS2801_NEWPINS"} -> "ws2801"
                        [] OTHER -> "ws281x",
   output_mapping |-> IF name = "WS2801_NEWPINS" THEN "rgb-123-v2"
                                                 ELSE "original-ledscape"]

\* The options that set fields, which fields, and what they set them to.
SettingOptions == {"p", "P", "e", "c", "s", "d", "o", "l", "L", "r", "g", "b",
                   "0", "1", "m", "M"}
OptionSets(o) ==
  CASE o.opt = "p" -> [tcp_port |-> uint16(o.arg)]
    [] o.opt = "P" -> [udp_port |-> uint16(o.arg)]
    [] o.opt = "e" -> [e131_port |-> uint16(o.arg)]
    [] o.opt = "c" -> [leds_per_strip |-> int32(o.arg)]
    [] o.opt = "s" -> [used_strip_count |-> int32(o.arg)]
    [] o.opt = "d" -> [leds_per_strip |-> int32(o.arg[1] * o.arg[2])]
    [] o.opt = "o" ->
         [color_channel_order |-> color_channel_order_from_string(o.arg)]
    [] o.opt = "l" -> [lut_enabled |-> FALSE]
    [] o.opt = "L" -> [lum_power |-> o.arg]
    [] o.opt = "r" -> [red |-> o.arg]
    [] o.opt = "g" -> [green |-> o.arg]
    [] o.opt = "b" -> [blue |-> o.arg]
    [] o.opt \in {"0", "1"} -> legacy_mode(o.arg)
    [] o.opt = "m" -> [output_mode |-> o.arg]
    [] o.opt = "M" -> [output_mapping |-> o.arg]

\* c with the fields of s replaced.
Update(c, s) == [f \in Fields |-> IF f \in DOMAIN s THEN s[f] ELSE c[f]]

\* The path of a value as json_walk calls back with it, and as json_vscanf makes
\* it from a format: each "{" adds a ".", in the text and in the format.  The
\* formats of server_config_from_json have none ("ledsPerStrip:%d").
walk_path(key) == <<".", key>>
scan_path(key) == <<key>>

\* The fields a document sets.
server_config_from_json(doc) ==
  [k \in {k \in DOMAIN doc : scan_path(k) = walk_path(k)} |->
     IF k \in Ports THEN uint16(doc[k])
     ELSE IF k \in Counts THEN int32(doc[k])
     ELSE IF k = "color_channel_order"
          THEN color_channel_order_from_string(doc[k]) ELSE doc[k]]

\* Mutant: two arguments of the snprintf are swapped.
server_config_to_json_swapped(c) ==
  [k \in Keys |-> IF k = "leds_per_strip" THEN c.used_strip_count
                  ELSE IF k = "used_strip_count" THEN c.leds_per_strip
                  ELSE IF k \in Floats THEN Round4(c[k]) ELSE c[k]]

server_config_to_json(c) ==
  [k \in Keys |-> IF k \in Floats THEN Round4(c[k]) ELSE c[k]]

\* What a text states when it ends after n of its keys.
CutShort(doc, n) == [k \in {PrintedKeys[i] : i \in 1 .. n} |-> doc[k]]

AssertIntRangeInclusive(low, high, x) == x \in Int /\ low <= x /\ x <= high

\* NaN is neither below nor above the range.
AssertDoubleRangeInclusive(low, high, x) ==
  x = NaN \/ AssertIntRangeInclusive(low, high, x)

validate_server_config(c) ==
  /\ \A p \in {0, 1} : <<c.output_mode, c.output_mapping, p>> \in Programs
  /\ AssertIntRangeInclusive(1, 1024, c.leds_per_strip)
  /\ AssertIntRangeInclusive(1, 48, c.used_strip_count)
  /\ c.color_channel_order \in Orders
  /\ \A f \in Ports : AssertIntRangeInclusive(1, 65535, c[f])
  /\ AssertDoubleRangeInclusive(0, 1000000, c.lum_power)
  /\ \A f \in WhitePoint : AssertDoubleRangeInclusive(0, 100000, c[f])

-----------------------------------------------------------------------------
Init ==
  /\ disk \in Disks
  /\ pc = "off" /\ argv = << >> /\ optind = 1
  /\ config = init_server_config
  /\ config_file = FALSE /\ driver_file = FALSE

Start ==
  /\ pc = "off"
  /\ pc' = "parse" /\ argv' \in CommandLines /\ optind' = 1
  /\ config' = init_server_config
  /\ config_file' = FALSE /\ driver_file' = FALSE
  /\ UNCHANGED disk

\* The process is gone; what it had in memory no longer matters.
Exit ==
  /\ pc' = "off" /\ argv' = << >> /\ optind' = 1
  /\ config' = init_server_config
  /\ config_file' = FALSE /\ driver_file' = FALSE

Option == argv[optind]
Parsing == pc = "parse" /\ optind <= Len(argv)

SetFields ==
  /\ Parsing /\ Option.opt \in SettingOptions
  /\ config' = Update(config, OptionSets(Option))
  /\ optind' = optind + 1
  /\ UNCHANGED <<disk, pc, argv, config_file, driver_file>>

\* Mutant: a file that sets a field of the white point replaces all of it.
ReadConfigFileWhole ==
  /\ Parsing /\ Option.opt = "C"
  /\ config_file' = TRUE
  /\ IF disk.state = "document"
     THEN /\ config' = Update(init_server_config, server_config_from_json(disk.doc))
          /\ optind' = optind + 1 /\ UNCHANGED pc
     ELSE pc' = "set_error" /\ UNCHANGED <<config, optind>>
  /\ UNCHANGED <<disk, argv, driver_file>>

\* Mutant: a file too short to hold a document is taken for an empty one.
ReadConfigFileShort ==
  /\ Parsing /\ Option.opt = "C"
  /\ config_file' = TRUE
  /\ IF disk.state \in {"document", "short"}
     THEN /\ config' = Update(config, server_config_from_json(disk.doc))
          /\ optind' = optind + 1 /\ UNCHANGED pc
     ELSE pc' = "set_error" /\ UNCHANGED <<config, optind>>
  /\ UNCHANGED <<disk, argv, driver_file>>

\* A file that is absent, of fewer than two bytes or of more than 10 MB is an
\* error.
ReadConfigFile ==
  /\ Parsing /\ Option.opt = "C"
  /\ config_file' = TRUE
  /\ IF disk.state = "document"
     THEN /\ config' = Update(config, server_config_from_json(disk.doc))
          /\ optind' = optind + 1 /\ UNCHANGED pc
     ELSE pc' = "set_error" /\ UNCHANGED <<config, optind>>
  /\ UNCHANGED <<disk, argv, driver_file>>

NameDriverConfig ==
  /\ Parsing /\ Option.opt = "N"
  /\ driver_file' = TRUE /\ optind' = optind + 1
  /\ UNCHANGED <<disk, pc, argv, config, config_file>>

\* --help, an option handle_args does not know, a -d that is not NxN.
Quit ==
  /\ Parsing /\ Option.opt \in {"h", "?"}
  /\ Exit /\ UNCHANGED disk

\* opc_server_set_error calls itself until the stack is exhausted or, compiled
\* to a jump, for ever.
StackOverflow == pc = "set_error" /\ Exit /\ UNCHANGED disk

\* Mutant: the diagnostics are printed, and main goes on.
ValidateAndWarn ==
  /\ pc = "parse" /\ optind > Len(argv)
  /\ pc' = "load"
  /\ UNCHANGED <<disk, argv, optind, config, config_file, driver_file>>

validate_server_config_or_die ==
  /\ pc = "parse" /\ optind > Len(argv)
  /\ IF validate_server_config(config)
     THEN /\ pc' = "load"
          /\ UNCHANGED <<argv, optind, config, config_file, driver_file>>
     ELSE Exit
  /\ UNCHANGED disk

\* main returns without --driver-config; YAML::LoadFile may throw, and nobody
\* catches it.
LoadDriverConfig ==
  /\ pc = "load"
  /\ \/ /\ driver_file
        /\ pc' = IF config_file THEN "open" ELSE "running"
        /\ UNCHANGED <<argv, optind, config, config_file, driver_file>>
     \/ Exit
  /\ UNCHANGED disk

\* fopen(..., "w") truncates the file, or fails.
OpenConfigFile ==
  /\ pc = "open"
  /\ \/ pc' = "put" /\ disk' = Empty
     \/ pc' = "set_error" /\ UNCHANGED disk
  /\ UNCHANGED <<argv, optind, config, config_file, driver_file>>

\* fputs fills the buffer of the stream, fclose writes it: all of it or, if that
\* fails (the disk is full), as much as there was room for.  main prints an error
\* then; the threads start in any case.
PutConfigFile ==
  /\ pc = "put"
  /\ pc' = "running"
  /\ \/ disk' = Empty
     \/ \E n \in 0 .. Len(PrintedKeys) :
          disk' = [state |-> "document",
                   doc   |-> CutShort(server_config_to_json(config), n)]
  /\ UNCHANGED <<argv, optind, config, config_file, driver_file>>

Kill == pc # "off" /\ Exit /\ UNCHANGED disk

Main == \/ SetFields \/ ReadConfigFile \/ NameDriverConfig \/ Quit
        \/ validate_server_config_or_die \/ LoadDriverConfig
        \/ OpenConfigFile \/ PutConfigFile

Next == Start \/ Main \/ StackOverflow \/ Kill

Spec == Init /\ [][Next]_vars

-----------------------------------------------------------------------------
TypeOK ==
  /\ disk.state \in {"document", "short", "absent", "huge"}
  /\ DOMAIN disk.doc \subseteq Keys
  /\ pc \in {"off", "parse", "set_error", "load", "open", "put", "running"}
  /\ argv \in Seq(Options) /\ optind \in 1 .. Len(argv) + 1
  /\ DOMAIN config = Fields
  /\ config_file \in BOOLEAN /\ driver_file \in BOOLEAN

\* The fields option i of the command line sets.
Sets(i) ==
  IF argv[i].opt = "C" THEN server_config_from_json(disk.doc)
  ELSE IF argv[i].opt \in SettingOptions THEN OptionSets(argv[i]) ELSE << >>

\* opc-server.cc:367: "options are parsed in order".  The last option that sets a
\* field decides, and a field that none sets has its default.
LastWordCounts ==
  pc = "parse" => \A f \in Fields :
    /\ (\A i \in 1 .. optind - 1 : f \notin DOMAIN Sets(i)) =>
         config[f] = init_server_config[f]
    /\ \A i \in 1 .. optind - 1 :
         /\ f \in DOMAIN Sets(i)
         /\ \A j \in i + 1 .. optind - 1 : f \notin DOMAIN Sets(j)
         => config[f] = Sets(i)[f]

\* Whatever the options, every value that gets into the file is one that validation
\* accepts, together with those of the running server: after rounding to four
\* digits, in a text that is cut short, and when it is no number.
OnlyValidIsSaved ==
  [][(disk' # disk /\ disk' # Empty) =>
       validate_server_config(Update(config, disk'.doc))]_vars

\* A process that is killed between the truncation of the file and its writing, or
\* that cannot write, leaves it empty.  No later process that names the file runs,
\* and none repairs it.
EmptyFileStopsServer ==
  [][(disk = Empty /\ pc # "put") =>
       disk' = Empty /\ ~(config_file' /\ pc' \in {"open", "put", "running"})]_vars

\* The inductive invariant of the proofs.  Past validation the configuration is
\* valid; a process that has named a file and got past opening it has found a
\* document there; a running one has left its own, or the beginning of it.
ValidInv ==
  pc \in {"load", "open", "put", "running"} => validate_server_config(config)
FileInv ==
  /\ pc \in {"open", "put"} => config_file
  /\ config_file => pc # "off"
  /\ (config_file /\ pc \notin {"put", "set_error", "running"}) =>
       disk.state = "document"
  /\ (config_file /\ pc = "running" /\ disk # Empty) =>
       /\ disk.state = "document"
       /\ \E n \in 0 .. Len(PrintedKeys) :
            disk.doc = CutShort(server_config_to_json(config), n)
IInv == TypeOK /\ LastWordCounts /\ ValidInv /\ FileInv

-----------------------------------------------------------------------------
\* configs/README.md:18: "With this JSON configured it can be called again by issuing
\* the command" with --config alone, since, as opc-server.cc:369 says, options
\* after --config "will be saved to the config file": the file that a running
\* server has written in full gives the next one the same configuration, up to
\* the digits that are not printed.  Violated, twice: no value of the text is
\* found when it is read, and the E1.31 port is not in it.
SavedIsRunning ==
  (pc = "running" /\ config_file /\ DOMAIN disk.doc = Keys) =>
    Update(init_server_config, server_config_from_json(disk.doc)) =
      [f \in Fields |-> IF f \in Floats THEN Round4(config[f]) ELSE config[f]]

\* opc-server.cc:364: "Specifies a configuration file to use and creates it if
\* it does not already exist."  Violated: opening it for reading fails, which is
\* an error, and no error is ever got over.
CreatesConfigFile ==
  [][(Parsing /\ Option.opt = "C" /\ disk.state = "absent") =>
       pc' \in {"parse", "off"}]_vars
=============================================================================
