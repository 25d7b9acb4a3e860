---------------------------- MODULE EnumWrappers ----------------------------
(***************************************************************************)
(* The generator of sys/build.rs: it reads the text of the bindings and    *)
(* writes a Rust enum for every SDK enumeration that has a ...Strings      *)
(* function, and a wrapper for every IOTHUB_ structure.  Whether two of its*)
(* names are alike, and whether a raw value survives the round trip through*)
(* the enum, depends on the names it makes up.                             *)
(*                                                                         *)
(* A C name is the sequence of its tokens, the parts between underscores;  *)
(* a token is a sequence of symbols.  A word is one symbol; only the digits*)
(* after it are told apart, because the generator appends digits.  In      *)
(* CamelCase the tokens run together, so that A_2 and A2 are one name, and *)
(* case and underscores at the end of a name are lost, so that the bindings*)
(* may have one sequence of tokens more than once.                         *)
(***************************************************************************)
EXTENDS Integers, SequencesExt

CONSTANTS
  Symbols,   \* what a token of a C name is a sequence of
  Inputs,    \* bindings: [aliases, strings, constants, structs]
  Reserved,  \* the CamelCase names sanitize_variant replaces
  Raws       \* raw values of the enumerations

(* A number is written in decimal.                                          *)
Digit == <<"0", "1", "2", "3", "4", "5", "6", "7", "8", "9">>
Numeral[n \in Nat] ==
  IF n < 10 THEN <<Digit[n + 1]>> ELSE Append(Numeral[n \div 10], Digit[(n % 10) + 1])

Names == Seq(Symbols)
Bindings(b) ==
  /\ b.aliases \in Seq([name : Seq(Names) \ {<<>>}, raw : STRING])
  /\ b.constants \in Seq([name : Seq(Names), value : Raws])

ASSUME SymbolsAssumption ==
  {"tag", "value"} \subseteq Symbols /\ \A i \in 1 .. 10 : Digit[i] \in Symbols
ASSUME ReservedAssumption == <<"unknown">> \in Reserved
ASSUME InputsAssumption == \A b \in Inputs : Bindings(b)

VARIABLES
  bindings,  \* what is read
  pass,      \* "enums", "collecting", "naming", "structs" or "done"
  next,      \* the alias the pass has come to
  line,      \* the constant the collection has come to
  taken,     \* raw_constants: the suffixes and values collected for it
  used,      \* used_variant_names: how often each name was given
  arms,      \* constants: the variants made so far
  enums,     \* the wrappers written to enum_wrappers.rs
  structs    \* the names of those written to struct_wrappers.rs

vars == <<bindings, pass, next, line, taken, used, arms, enums, structs>>

Alias == bindings.aliases[next]

-----------------------------------------------------------------------------
ToPascalCase(tokens) == FlattenSeq(tokens)

SanitizeVariant(name) == IF name \in Reserved THEN Append(name, "value") ELSE name

(* How many tokens all values start with: the indices up to which they      *)
(* agree with the first.                                                    *)
CommonTokenPrefixLen(values) ==
  Cardinality({n \in 1 .. Len(values[1]) :
                 \A v \in ToSet(values) : IsPrefix(SubSeq(values[1], 1, n), v)})

(* What is left of a value without its first n tokens; all of it, if that   *)
(* were nothing.                                                            *)
TrimTokenPrefix(value, n) ==
  IF Len(value) > n THEN SubSeq(value, n + 1, Len(value)) ELSE value

(* Mutant: a name is given as often as it comes.                            *)
UnnumberedVariant(base, counter) == base

(* The name of a variant that comes after counter others of the same base.  *)
NumberedVariant(base, counter) ==
  IF counter > 0 THEN base \o Numeral[counter + 1] ELSE base

(* What marks the constants of an alias: the alias and _TAG_.               *)
Marker(alias) == Append(alias, <<"tag">>)

(* The constants whose name contains the marker anywhere, even if it starts *)
(* in the middle of a token: those of the alias, and those of any           *)
(* enumeration whose name ends with it.                                     *)
Belongs(constant, alias) ==
  \E i \in DOMAIN constant.name :
    /\ IsSuffix(Head(Marker(alias)), constant.name[i])
    /\ IsPrefix(Tail(Marker(alias)), SubSeq(constant.name, i + 1, Len(constant.name)))

(* How many copies of the marker a name starts with, and the name without   *)
(* them: the whole name, if it has the marker somewhere else.               *)
Copies(constant, alias) ==
  Cardinality({n \in 1 .. Len(constant.name) :
                 IsPrefix(FlattenSeq([k \in 1 .. n |-> Marker(alias)]), constant.name)})
Suffix(constant, alias) ==
  SubSeq(constant.name, Copies(constant, alias) * Len(Marker(alias)) + 1, Len(constant.name))

(* The base of the name of a collected constant.                            *)
BaseName(constant) ==
  LET n == CommonTokenPrefixLen([i \in DOMAIN taken |-> taken[i].suffix])
      name == SanitizeVariant(ToPascalCase(TrimTokenPrefix(constant.suffix, n)))
  IN  IF name = <<>> THEN <<"value">> ELSE name

Used(base) == IF base \in DOMAIN used THEN used[base] ELSE 0

-----------------------------------------------------------------------------
Init ==
  /\ bindings \in Inputs
  /\ pass = "enums" /\ next = 1 /\ line = 1
  /\ taken = <<>> /\ used = <<>> /\ arms = <<>>
  /\ enums = <<>> /\ structs = <<>>

(* An alias without a Strings function is passed over.                      *)
Skip ==
  /\ pass = "enums" /\ next <= Len(bindings.aliases)
  /\ Alias.name \notin bindings.strings
  /\ next' = next + 1
  /\ UNCHANGED <<bindings, pass, line, taken, used, arms, enums, structs>>

(* For any other the lines of the bindings are read again.                  *)
BeginEnum ==
  /\ pass = "enums" /\ next <= Len(bindings.aliases)
  /\ Alias.name \in bindings.strings
  /\ pass' = "collecting" /\ line' = 1
  /\ taken' = <<>> /\ used' = <<>> /\ arms' = <<>>
  /\ UNCHANGED <<bindings, next, enums, structs>>

Collect ==
  /\ pass = "collecting" /\ line <= Len(bindings.constants)
  /\ line' = line + 1
  /\ LET c == bindings.constants[line]
         found == [suffix |-> Suffix(c, Alias.name), value |-> c.value]
     IN  taken' = IF Belongs(c, Alias.name) THEN Append(taken, found) ELSE taken
  /\ UNCHANGED <<bindings, pass, next, used, arms, enums, structs>>

(* Mutant: the next alias is taken before the variants are named.           *)
EndCollectAhead ==
  /\ pass = "collecting" /\ line > Len(bindings.constants)
  /\ pass' = IF taken = <<>> THEN "enums" ELSE "naming"
  /\ next' = next + 1
  /\ UNCHANGED <<bindings, line, taken, used, arms, enums, structs>>

(* Mutant: the last line is not read.                                       *)
EndCollectEarly ==
  /\ pass = "collecting" /\ line >= Len(bindings.constants)
  /\ pass' = IF taken = <<>> THEN "enums" ELSE "naming"
  /\ next' = IF taken = <<>> THEN next + 1 ELSE next
  /\ UNCHANGED <<bindings, line, taken, used, arms, enums, structs>>

(* An alias without constants gets no wrapper.                              *)
EndCollect ==
  /\ pass = "collecting" /\ line > Len(bindings.constants)
  /\ pass' = IF taken = <<>> THEN "enums" ELSE "naming"
  /\ next' = IF taken = <<>> THEN next + 1 ELSE next
  /\ UNCHANGED <<bindings, line, taken, used, arms, enums, structs>>

(* One round of the loop over the collected constants.                      *)
NameVariant ==
  /\ pass = "naming" /\ Len(arms) < Len(taken)
  /\ LET constant == taken[Len(arms) + 1]
         base == BaseName(constant)
     IN  /\ arms' = Append(arms, [base |-> base,
                                  variant |-> NumberedVariant(base, Used(base)),
                                  value |-> constant.value])
         /\ used' = [name \in DOMAIN used \cup {base} |->
                       IF name = base THEN Used(base) + 1 ELSE used[name]]
  /\ UNCHANGED <<bindings, pass, next, line, taken, enums, structs>>

WriteEnum ==
  /\ pass = "naming" /\ Len(arms) = Len(taken)
  /\ enums' = Append(enums, [alias |-> next, name |-> ToPascalCase(Alias.name), arms |-> arms])
  /\ pass' = "enums" /\ next' = next + 1
  /\ UNCHANGED <<bindings, line, taken, used, arms, structs>>

(* The second generator reads the bindings again.                           *)
BeginStructs ==
  /\ pass = "enums" /\ next > Len(bindings.aliases)
  /\ pass' = "structs" /\ next' = 1
  /\ UNCHANGED <<bindings, line, taken, used, arms, enums, structs>>

(* An IOTHUB_ alias of a structure, under a name not yet written.           *)
Wanted ==
  /\ Alias.name[1] = <<"iothub">> /\ Len(Alias.name) > 1
  /\ Alias.raw \in bindings.structs
  /\ ToPascalCase(Alias.name) \notin ToSet(structs)

WriteStruct ==
  /\ pass = "structs" /\ next <= Len(bindings.aliases)
  /\ structs' = IF Wanted THEN Append(structs, ToPascalCase(Alias.name)) ELSE structs
  /\ next' = next + 1
  /\ UNCHANGED <<bindings, pass, line, taken, used, arms, enums>>

Finish ==
  /\ pass = "structs" /\ next > Len(bindings.aliases)
  /\ pass' = "done"
  /\ UNCHANGED <<bindings, next, line, taken, used, arms, enums, structs>>

Next ==
  \/ Skip \/ BeginEnum \/ Collect \/ EndCollect \/ NameVariant \/ WriteEnum
  \/ BeginStructs \/ WriteStruct \/ Finish

Spec == Init /\ [][Next]_vars

-----------------------------------------------------------------------------
(* The code that is written: the conversions of a wrapper w.                *)
Matches(w, raw) == {i \in DOMAIN w.arms : w.arms[i].value = raw}

(* Mutant: the built-in variant forgets the value.                          *)
FromRawForgetting(w, raw) ==
  IF Matches(w, raw) = {} THEN [variant |-> <<"unknown">>, raw |-> 0]
  ELSE [variant |-> w.arms[Min(Matches(w, raw))].variant, raw |-> raw]

(* From<raw>: the first constant with that value, or Unknown(raw).          *)
FromRaw(w, raw) ==
  IF Matches(w, raw) = {} THEN [variant |-> <<"unknown">>, raw |-> raw]
  ELSE [variant |-> w.arms[Min(Matches(w, raw))].variant, raw |-> raw]

(* From<name>: the constant of that name, or what Unknown holds.            *)
AsRaw(w, v) ==
  IF \E i \in DOMAIN w.arms : w.arms[i].variant = v.variant
  THEN w.arms[CHOOSE i \in DOMAIN w.arms : w.arms[i].variant = v.variant].value
  ELSE v.raw

-----------------------------------------------------------------------------
ArmType == [base : Names, variant : Names, value : Raws]

(* Types of the variables; the enumeration that is worked on is there.      *)
TypeOK ==
  /\ Bindings(bindings)
  /\ pass \in {"enums", "collecting", "naming", "structs", "done"}
  /\ next \in Nat \ {0} /\ line \in Nat \ {0}
  /\ pass \in {"collecting", "naming"} => next <= Len(bindings.aliases)
  /\ taken \in Seq([suffix : Seq(Names), value : Raws])
  /\ \A name \in DOMAIN used : name \in Names /\ used[name] \in Nat \ {0}
  /\ arms \in Seq(ArmType)
  /\ enums \in Seq([alias : Nat, name : Names, arms : Seq(ArmType)])
  /\ structs \in Seq(Names)

(* One name is another with digits after it.                                *)
DigitsAfter(base, other) ==
  /\ base # other /\ IsPrefix(base, other)
  /\ \A k \in Len(base) + 1 .. Len(other) : other[k] \in ToSet(Digit)

(* Two constants of one enumeration get one name only if the base of one is *)
(* that of the other with digits after it, and none gets the name of the    *)
(* built-in variant.                                                        *)
NamesakesOnly(as) ==
  \A i \in DOMAIN as :
    /\ as[i].variant # <<"unknown">>
    /\ \A j \in DOMAIN as \ {i} :
         as[i].variant = as[j].variant =>
           DigitsAfter(as[i].base, as[j].base) \/ DigitsAfter(as[j].base, as[i].base)

(* Of the names the generator makes up, these may be alike and no others:   *)
(* variants as above, which the numbering is there to keep apart; and enums *)
(* of different aliases that read alike in CamelCase, which nothing is there*)
(* to keep apart.  Two structures never are (generate_enum_wrappers,        *)
(* generate_struct_wrappers).                                               *)
OnlyNamesakesClash ==
  /\ NamesakesOnly(arms)
  /\ \A w \in ToSet(enums) : NamesakesOnly(w.arms)
  /\ \A i, j \in DOMAIN enums : i # j => enums[i].alias # enums[j].alias
  /\ \A i, j \in DOMAIN structs : i # j => structs[i] # structs[j]

(* The variants of a wrapper differ from each other.                        *)
Apart(w) ==
  \A i, j \in DOMAIN w.arms : i # j => w.arms[i].variant # w.arms[j].variant

(* A raw value of the SDK survives the round trip through a wrapper whose   *)
(* variants differ: also if constants share it, if constants of another     *)
(* enumeration were taken in, or if the bindings do not know it.            *)
RawSurvives ==
  \A w \in ToSet(enums) :
    Apart(w) => \A raw \in Raws : AsRaw(w, FromRaw(w, raw)) = raw

(* The values of the constants that are taken for those of an alias: its own*)
(* and those of any enumeration whose name ends with it.                    *)
KnownValues(alias) ==
  {c.value : c \in {d \in ToSet(bindings.constants) : Belongs(d, alias)}}

(* A wrapper was written for the alias at i.                                *)
IsWrapperOf(w, i) ==
  /\ w.alias = i /\ w.name = ToPascalCase(bindings.aliases[i].name)
  /\ {w.arms[k].value : k \in DOMAIN w.arms} = KnownValues(bindings.aliases[i].name)

(* No value gets lost between the passes over the bindings, and none comes  *)
(* from the alias before: every wrapper is that of an alias with a Strings  *)
(* function and names just the values taken for its own, so that Unknown    *)
(* stands for all others and for no other; and in the end every such alias  *)
(* for which a value was taken has its wrapper.                             *)
KnownValuesNamed ==
  /\ \A w \in ToSet(enums) :
       \E i \in DOMAIN bindings.aliases :
         bindings.aliases[i].name \in bindings.strings /\ IsWrapperOf(w, i)
  /\ pass \in {"structs", "done"} =>
       \A i \in DOMAIN bindings.aliases :
         bindings.aliases[i].name \in bindings.strings
         /\ KnownValues(bindings.aliases[i].name) # {} =>
           \E w \in ToSet(enums) : IsWrapperOf(w, i)
=============================================================================
