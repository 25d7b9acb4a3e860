--------------------------- MODULE MCEnumWrappers ---------------------------
(***************************************************************************)
(* Bindings for TLC: enumerations A and B, of which B's name ends with A's *)
(* in the middle of a token, and C, which reads like B in CamelCase; a     *)
(* structure with two spellings, a structure that is not IOTHUB_; up to    *)
(* three constants of A and B, one of each of B and C, or so many of two   *)
(* names that their numbers have two digits.                               *)
(***************************************************************************)
EXTENDS EnumWrappers

A == <<<<"result">>>>
B == <<<<"iothub">>, <<"my", "result">>>>
C == <<<<"iothub", "my", "result">>>>
S == <<<<"iothub">>, <<"config">>>>

MCAliases ==
  << [name |-> A, raw |-> "A"], [name |-> S, raw |-> "S"],
     [name |-> <<<<"lock">>>>, raw |-> "S"], [name |-> S, raw |-> "S"],
     [name |-> C, raw |-> "C"], [name |-> B, raw |-> "B"] >>

(* Only underscores; a name; the name with a number, in two spellings; the  *)
(* name of the built-in variant, alone and after a common prefix; the marker*)
(* of A once more.                                                          *)
MCSuffixes ==
  { <<>>, <<<<"ok">>>>, <<<<"ok", "2">>>>, <<<<"ok">>, <<"2">>>>,
    <<<<"unknown">>>>, <<<<"ok">>, <<"unknown">>>>, A \o <<<<"tag">>, <<"ok">>>> }

MCSymbols ==
  {"result", "my", "iothub", "config", "lock", "ok", "unknown", "none", "value", "tag"}
  \cup ToSet(Digit)
MCRaws == 0 .. 2
Constant(alias, suffix, v) == [name |-> Marker(alias) \o suffix, value |-> v]
MCConstants == {Constant(a, s, v) : a \in {A, B}, s \in MCSuffixes, v \in 0 .. 1}

(* Ok to Ok12, and Ok1 and Ok12.                                            *)
MCMany ==
  [i \in 1 .. 14 |-> Constant(A, IF i <= 12 THEN <<<<"ok">>>> ELSE <<<<"ok", "1">>>>, i % 2)]

(* Two enumerations that read alike.                                        *)
MCAlike == <<Constant(B, <<<<"ok">>>>, 0), Constant(C, <<<<"ok">>>>, 1)>>

MCInputs ==
  [ aliases : {MCAliases}, strings : {{A, B, C}}, structs : {{"S"}},
    constants : BoundedSeq(MCConstants, 3) \cup {MCMany, MCAlike} ]
MCReserved == { <<"unknown">>, <<"none">> }
=============================================================================
