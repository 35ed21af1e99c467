--------------------------- MODULE MCServerConfig ----------------------------
(***************************************************************************)
(* Instances of ServerConfig for TLC.                                      *)
(***************************************************************************)
EXTENDS ServerConfig, TLC

Opt(name, value) == [opt |-> name, arg |-> value]

\* Options before and after --config: valid values and invalid ones, some that
\* wrap (7891 + 2^16 to a valid port, 2^16 to none), two options for one field, a
\* number that is not exact in four digits, and one that is none.
SomeOptions == { Opt("p", 7891 + 65536), Opt("P", 65536), Opt("e", 1),
                 Opt("c", 64), Opt("d", <<30, 40>>), Opt("d", <<8, 8>>),
                 Opt("s", -1), Opt("o", "GBRW"), Opt("l", 0),
                 Opt("L", 123456), Opt("L", NaN), Opt("r", 100004),
                 Opt("g", NaN), Opt("b", 100000), Opt("0", "NOP"),
                 Opt("1", "WS2801_NEWPINS"), Opt("m", "dmx"), Opt("h", 0),
                 Opt("?", 0) }
AtMostOne == {<< >>} \union {<<o>> : o \in SomeOptions}
C == Opt("C", "file")
N == Opt("N", "driver")

AnyOption == SomeOptions \union {C, N}
Lines ==
  {before \o <<C>> \o after \o <<N>> : before \in AtMostOne, after \in AtMostOne}
    \union {<<N>> \o before : before \in AtMostOne} \union {<<C>>, <<C, C, N>>}

\* The build may have made the programs of one mapping, or of one PRU, only.
SomePrograms ==
  ({"ws281x", "nop"} \X {"original-ledscape"} \X {0, 1})
    \union {<<"dmx", "original-ledscape", 0>>}

Doc(f) == [state |-> "document", doc |-> f]
SomeDisks ==
  { Doc(<< >>), Doc("leds_per_strip" :> 64 @@ "lut_enabled" :> FALSE),
    [state |-> "absent", doc |-> << >>], Empty,
    [state |-> "huge", doc |-> << >>] }

-----------------------------------------------------------------------------
\* A file that has to be created.
NewLines == {<<C, N>>, <<C, Opt("c", 64), N>>, <<Opt("c", 64), C, N>>,
             <<C, Opt("l", 0), Opt("c", 64), N>>}
NewDisks == {[state |-> "absent", doc |-> << >>]}

-----------------------------------------------------------------------------
\* Options that are to be saved, and a start with the file alone.
SavingLines == {<<C, Opt("e", 1), Opt("c", 64), N>>, <<C, N>>}
SavingDisks == {Doc(<< >>)}
=============================================================================
