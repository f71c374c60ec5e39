----------------------------- MODULE MCExecutor -----------------------------
(***************************************************************************)
(* Contracts for Executor: for each interpreter every short program over   *)
(* an alphabet of instructions, and programs written for one behaviour     *)
(* each.  Numbers are narrow enough to wrap around.                        *)
(***************************************************************************)
EXTENDS Executor, SequencesExt

MCDigest(alg, b) ==
  [i \in 1..32 |-> ((FoldLeft(LAMBDA n, x : n + x, 1, b) + (IF alg = "sha3" THEN 50 ELSE 0)) % 200) + 1]
MCHex(v) == <<"h", "a", "s", "h">>
MCDebugSize(v) == 10
\* The context of a script that the executor runs: nobody sets another
MCTx == [version |-> 1, lockTime |-> 0, index |-> 0, inputs |-> <<>>, outputs |-> <<>>]

Short(tokens, n) == UNION {[1..k -> tokens] : k \in 0..n}
Flat(chunks) == FlattenSeq(chunks)

-----------------------------------------------------------------------------
\* AVM: two constants and two pushes, then every chunk, also after one that goes on
AvmHead == <<6, 32, 2, 5, 3, 36, 37>>
AvmChunks == {<<34, 0>>, <<34>>, <<8>>, <<9>>, <<10>>, <<11>>, <<12>>, <<16>>, <<17>>, <<18>>, <<19>>,
              <<72>>, <<74>>, <<79>>, <<0>>, <<67>>, <<68>>, <<64, 0, 1>>, <<65, 255, 252>>, <<66, 128, 0>>,
              <<66, 0>>, <<1>>, <<80>>, <<97>>, <<99>>}
AvmFirst == {<<34, 0>>, <<8>>, <<9>>, <<12>>, <<18>>, <<72>>, <<74>>, <<79>>, <<64, 0, 1>>, <<65, 255, 252>>,
             <<66, 128, 0>>, <<1>>, <<80>>}
AvmPairs == {<<a, b>> : a \in AvmFirst, b \in AvmChunks}
AvmSpecial == {
  <<6>>, <<11, 0, 0, 0>>, <<6, 32, 200, 1>>, <<6, 32, 3, 1, 1>>,
  \* bytes: load, concatenate, measure, hash, store and read back, log
  <<6, 33, 2, 1, 7, 1, 0, 40, 41, 81, 80, 67>>,
  <<6, 33, 1, 2, 7, 9, 40, 2, 35, 0, 3, 67>>,
  <<6, 33, 1, 1, 7, 40, 40, 97, 40, 96, 41, 96, 17>>,
  <<6, 33, 1, 1, 7, 40, 176, 40, 176, 40>>,
  <<6, 33, 1, 9, 7>>, <<6, 33, 255>>, <<6, 33, 2, 1, 7>>,
  \* a loop that logs until its gas is used
  <<6, 33, 1, 1, 7, 40, 176, 66, 255, 251>>,
  \* two branches that lead to each other
  <<6, 66, 0, 0, 66, 255, 250>>,
  \* a stack that is filled to its limit
  <<6, 36, 66, 255, 252>>}
TealLines == {<<"int", 5>>, <<"int", 9>>, <<"int", 300>>, <<"plus">>, <<"minus">>, <<"times">>, <<"div">>}
TealSources ==
  {<<a, b>> \o c : a \in TealLines, b \in TealLines, c \in Short(TealLines \cup {<<"return">>}, 1)}
    \cup {[i \in 1..n |-> <<"int", 9>>] : n \in {6, 7}}

AvmContracts ==
  {[lang |-> "avm", code |-> AvmHead \o Flat(p), input |-> <<>>] : p \in Short(AvmChunks, 1) \cup AvmPairs}
    \cup {[lang |-> "avm", code |-> p, input |-> <<>>] : p \in AvmSpecial}
    \cup {[lang |-> "avm", code |-> Avm!Compile(s), input |-> <<>>, source |-> s] : s \in TealSources}

-----------------------------------------------------------------------------
\* SBF: every instruction, also after one that goes on; an instruction with a
\* register, and with an immediate
Reg(op, dst, src) == [op |-> op, dst |-> dst, src |-> src, reg |-> TRUE, width |-> 1, off |-> 1, imm |-> 0]
Imm(op, dst, imm) == [op |-> op, dst |-> dst, src |-> 0, reg |-> FALSE, width |-> 2, off |-> 1, imm |-> imm]
Wide(i, w, off) == [i EXCEPT !.width = w, !.off = off]

SbfInstrs == {
  Imm("mov", 0, 3), Imm("mov", 1, -1), Imm("add", 0, -3), Imm("sub", 0, 5), Imm("mul", 0, 300), Imm("div", 0, 0),
  Imm("mod", 0, 2), Imm("or", 0, 6), Imm("and", 0, 5), Imm("xor", 0, 3), Imm("lsh", 0, 65), Imm("rsh", 0, 1),
  Imm("neg", 0, 0), Imm("mov", 12, 0), Reg("mov", 2, 10), Reg("div", 0, 1), Reg("mod", 0, 1), Reg("add", 0, 12),
  Imm("st", 1, 258), Wide(Reg("st", 1, 0), 4, 0), Wide(Reg("ldx", 0, 1), 8, 0), Reg("ldx", 0, 10),
  Imm("ja", 0, 0), Wide(Imm("ja", 0, 0), 1, -3), Imm("jeq", 0, 0), Imm("jne", 0, 0), Imm("jgt", 0, 1),
  Imm("jge", 0, 3), Imm("jlt", 0, 3), Imm("jle", 0, 0), Reg("jeq", 0, 1), Reg("jgt", 0, 1), Imm("jset", 0, 0),
  Imm("call", 0, 1), Imm("call", 0, 2), Imm("call", 0, 0), Imm("exit", 0, 0)}
SbfFirst == {
  Imm("mov", 0, 3), Imm("mov", 1, -1), Imm("add", 0, -3), Imm("mul", 0, 300), Imm("or", 0, 6), Imm("lsh", 0, 65),
  Reg("mov", 2, 10), Imm("st", 1, 258), Wide(Reg("st", 1, 0), 4, 0), Reg("ldx", 0, 10), Imm("ja", 0, 0),
  Wide(Imm("ja", 0, 0), 1, -3), Imm("jeq", 0, 0), Imm("jgt", 0, 1), Imm("jle", 0, 0), Imm("call", 0, 2)}
SbfPairs == {<<a, b>> : a \in SbfFirst, b \in SbfInstrs}
SbfSpecial == {
  \* a store of eight bytes read back by halves; one at the heap's last byte
  <<Imm("mov", 0, 258), Wide(Reg("st", 1, 0), 8, 0), Wide(Reg("ldx", 0, 1), 2, 0), Imm("exit", 0, 0)>>,
  <<Imm("mov", 1, 8), Wide(Imm("st", 1, 7), 1, 0), Wide(Reg("ldx", 0, 1), 2, 0)>>,
  <<Imm("mov", 1, -1), Wide(Reg("ldx", 0, 1), 2, 0)>>,
  \* a function that logs two bytes and returns
  <<Imm("mov", 2, 2), Imm("call", 0, 4), Imm("mov", 0, 0), Imm("exit", 0, 0), Imm("call", 0, 1), Imm("exit", 0, 0)>>,
  <<Imm("mov", 1, -1), Imm("mov", 2, 2), Imm("call", 0, 1)>>,
  \* a function that calls itself until the depth ends it, or the gas
  <<Imm("call", 0, 0)>>}

SbfContracts ==
  {[lang |-> "sbf", code |-> p, input |-> <<>>] : p \in Short(SbfInstrs, 1) \cup SbfPairs \cup SbfSpecial}

-----------------------------------------------------------------------------
\* Kaspa: every script of up to four tokens that branch, every token on filled
\* stacks and before a few others, and the standard scripts
Ops(names) == {Kaspa!Op(n) : n \in names}
KaspaBranches == {Kaspa!PushNum(0)} \cup Ops({"If", "NotIf", "Else", "EndIf"})
KaspaTokens ==
  {Kaspa!PushNum(-1), Kaspa!PushNum(2), Kaspa!PushBytes(<<255, 127>>), Kaspa!PushBytes(<<1, 2, 3>>), [op |-> "CutPush"], [op |-> "CutLength"]}
    \cup Ops(DOMAIN Kaspa!Rearranges \cup Kaspa!UnaryOps \cup Kaspa!BinaryOps \cup
             {"Verify", "EqualVerify", "NumEqualVerify", "Return", "Nop", "Tuck", "ToAltStack", "FromAltStack",
              "Pick", "Roll", "Depth", "IfDup", "Cat", "SubStr", "Left", "Right", "Size", "Invert", "Not",
              "And", "Or", "Xor", "Equal", "BoolAnd", "BoolOr", "Within", "Sha256", "Hash256", "Hash160",
              "CheckSig", "CheckSigVerify", "CheckMultiSig", "CheckMultiSigVerify", "CheckLockTimeVerify",
              "CheckSequenceVerify", "InputIndex", "OutputCount", "TxLockTime", "OutputBytecode", "InputValue",
              "StateGet", "StatePut", "StateDelete", "EmitEvent", "CodeSeparator"})
KaspaHead == <<Kaspa!PushBytes(<<4, 5>>), Kaspa!PushNum(1), Kaspa!PushNum(1), Kaspa!PushNum(0)>>
KaspaHeads == {
  KaspaHead,
  <<Kaspa!PushBytes(<<4, 5, 6>>), Kaspa!PushNum(0), Kaspa!PushNum(2)>>,
  <<Kaspa!PushBytes(<<255, 127>>), Kaspa!PushNum(-1)>>,
  <<Kaspa!PushNum(0), Kaspa!Op("If")>>}
KaspaCodes == Short(KaspaTokens, 1)
KaspaVerified == {<<t, Kaspa!Op("Verify")>> : t \in KaspaTokens}
Key == Kaspa!PushBytes(<<7>>)
KaspaSpecial == {
  [code |-> Kaspa!P2PKH(SubSeq(MCDigest("sha256", <<7>>), 1, 20)), input |-> <<Key, Key>>],
  [code |-> Kaspa!P2SH(SubSeq(MCDigest("sha256", <<7>>), 1, 20)), input |-> <<Key>>],
  [code |-> Kaspa!MultiSigScript(1, <<<<7>>, <<8>>>>), input |-> <<Kaspa!PushNum(0), Key>>],
  [code |-> Kaspa!MultiSigScript(2, <<<<7>>>>), input |-> <<Kaspa!PushNum(0), Key, Key>>],
  [code |-> <<Key, Kaspa!PushNum(3), Kaspa!Op("StatePut"), Key, Kaspa!Op("StateGet")>>, input |-> <<>>],
  [code |-> <<Key, Kaspa!PushNum(3), Kaspa!Op("StatePut"), Key, Kaspa!Op("StateDelete"), Key, Kaspa!Op("StateGet")>>,
   input |-> <<>>],
  [code |-> <<Kaspa!Op("ToAltStack"), Kaspa!Op("FromAltStack")>>, input |-> <<Key>>],
  [code |-> <<Kaspa!PushNum(1), Kaspa!Op("EndIf")>>, input |-> <<Kaspa!PushNum(0), Kaspa!Op("If")>>],
  [code |-> [i \in 1..7 |-> Kaspa!PushBytes([j \in 1..6 |-> j])], input |-> <<Kaspa!PushNum(1)>>]}

KaspaContracts ==
  {[lang |-> "kaspa", code |-> p, input |-> <<>>] : p \in Short(KaspaBranches, 4)}
    \cup {[lang |-> "kaspa", code |-> p, input |-> h] : p \in KaspaCodes, h \in KaspaHeads}
    \cup {[lang |-> "kaspa", code |-> p, input |-> KaspaHead] : p \in KaspaVerified}
    \cup {[lang |-> "kaspa", code |-> s.code, input |-> s.input] : s \in KaspaSpecial}

-----------------------------------------------------------------------------
\* Pact: every built-in function on up to two values, and programs for each of
\* the other constructs
N(n) == [kind |-> "literal", val |-> Pact!Integer(n)]
S(str) == [kind |-> "literal", val |-> Pact!Str(str)]
Obj(n) == [kind |-> "literal", val |-> [object |-> [field |-> n]]]
Sym(name) == [kind |-> "symbol", name |-> name]
App(f, args) == [kind |-> "app", fun |-> f, args |-> args]
B(f, args) == App(<<f>>, args)
If(c, t, e) == [kind |-> "if", cond |-> c, then |-> t, else |-> e]
Let(bindings, body) == [kind |-> "let", bindings |-> bindings, body |-> body]
Bnd(name, e) == [name |-> name, expr |-> e]
Def(kind, name, params, body) == [kind |-> kind, name |-> name, params |-> params, body |-> body]
Module(name, defs) == [kind |-> "module", name |-> name, definitions |-> defs]
With(name, args, body) == [kind |-> "with-capability", name |-> name, args |-> args, body |-> body]
Require(name, args) == [kind |-> "require-capability", name |-> name, args |-> args]
Table(name) == [kind |-> "deftable", name |-> name]
Row(kind, key, value) == [kind |-> kind, table |-> <<"t">>, key |-> key, value |-> value]
Read(key) == [kind |-> "read", table |-> <<"t">>, key |-> key]
Enforce(c) == [kind |-> "enforce", cond |-> c]
Guarded(g) == [kind |-> "enforce-guard", guard |-> g]

PactArgs == {N(0), N(2), N(-3), S(<<"a", "{}">>), S(<<"-", "7">>), Sym(<<"true">>),
             B("list", <<N(3), N(1)>>)}
PactPairs == {N(2), N(-3), S(<<"a", "{}">>), B("list", <<N(3), N(1)>>)}
PactCalls == {<<B(f, args)>> : f \in Pact!Builtins, args \in Short(PactArgs, 1) \cup Short(PactPairs, 2)}

x == <<"x">>
Passes == Def("defcap", <<"c">>, <<x>>, Enforce(B(">", <<Sym(x), N(0)>>)))
Key1 == S(<<"k1">>)
PactPrograms == {
  \* bindings shadow, and end; recursion ends at its base or at the depth
  <<Let(<<Bnd(x, N(1)), Bnd(<<"y">>, B("+", <<Sym(x), N(1)>>))>>, Sym(<<"y">>)), Sym(x)>>,
  <<Let(<<Bnd(x, N(1))>>, Let(<<Bnd(x, N(2))>>, Sym(x))), Let(<<Bnd(x, Sym(<<"none">>))>>, N(0))>>,
  <<Def("defun", <<"f">>, <<x>>, If(B(">", <<Sym(x), N(0)>>), App(<<"f">>, <<B("-", <<Sym(x), N(1)>>)>>), Sym(x))),
    App(<<"f">>, <<N(1)>>), App(<<"f">>, <<N(9)>>)>>,
  <<Def("defun", <<"f">>, <<x>>, Sym(x)), App(<<"f">>, <<N(4)>>), Sym(x)>>,
  <<Def("defun", <<"f">>, <<x>>, Sym(x)), App(<<"f">>, <<N(4), N(5)>>)>>,
  <<Def("defun", <<"abs">>, <<x>>, N(1)), App(<<"abs">>, <<N(-7)>>)>>,
  \* modules, and what they define
  <<Module(<<"m">>, <<Def("defun", <<"f">>, <<>>, N(6)), Passes, Table(<<"t">>)>>),
    App(<<"m", "f">>, <<>>), With(<<"m", "c">>, <<N(1)>>, Require(<<"m", "c">>, <<N(1)>>)), Sym(<<"m", "f">>)>>,
  <<Module(<<"m">>, <<Sym(<<"none">>)>>), N(1)>>,
  <<Module(<<"m">>, <<B("create-user-guard", <<>>)>>), App(<<"f">>, <<>>)>>,
  \* capabilities: granted, refused, nested, out of scope again
  <<Passes, With(<<"c">>, <<N(1)>>, Require(<<"c">>, <<N(1)>>)), Require(<<"c">>, <<N(1)>>)>>,
  <<Passes, With(<<"c">>, <<N(1)>>, N(0)), With(<<"c">>, <<N(1)>>, With(<<"d">>, <<>>, Require(<<"c">>, <<N(1)>>)))>>,
  <<Passes, With(<<"c">>, <<N(0)>>, N(1))>>,
  <<Passes, With(<<"c">>, <<N(1)>>, Require(<<"c">>, <<N(2)>>))>>,
  <<With(<<"d">>, <<>>, Guarded(B("create-capability-guard", <<S(<<"d">>)>>))),
    Guarded(B("create-capability-guard", <<S(<<"d">>)>>))>>,
  \* guards and keysets: nobody signs a call of the executor
  <<Guarded(B("create-user-guard", <<>>)), Guarded(N(1))>>,
  <<B("define-keyset", <<S(<<"ks">>), B("list", <<>>)>>), Guarded(B("read-keyset", <<S(<<"ks">>)>>))>>,
  <<B("define-keyset", <<S(<<"ks">>), B("list", <<S(<<"a">>)>>)>>), Guarded(B("keyset-ref-guard", <<S(<<"ks">>)>>))>>,
  <<Guarded(B("read-keyset", <<S(<<"none">>)>>))>>,
  \* tables: a second row is one too many, and so is the first one again
  <<Table(<<"t">>), Row("insert", Key1, Obj(1)), Read(Key1), Row("update", Key1, Obj(2))>>,
  <<Table(<<"t">>), Row("write", Key1, Obj(1)), Read(S(<<"k2">>))>>,
  <<Table(<<"t">>), Row("write", Key1, N(1))>>, <<Row("write", Key1, Obj(1))>>, <<Read(N(1))>>,
  \* the rest
  <<[kind |-> "lambda"], [kind |-> "defschema"], [kind |-> "property"], [kind |-> "interface"], Sym(<<"false">>)>>,
  <<[kind |-> "app", head |-> N(1), args |-> <<>>]>>,
  <<B("pow", <<N(2), N(15)>>), B("*", <<N(300), N(200)>>), B("int-to-str", <<N(-2), N(16)>>)>>,
  <<B("format", <<S(<<"{}", "-", "{}">>), B("list", <<N(12), S(<<"z">>), Sym(<<"true">>)>>)>>)>>,
  <<B("sort", <<B("list", <<N(3), S(<<"k">>), N(1)>>)>>), B("contains", <<N(1), B("list", <<S(<<>>)>>)>>)>>,
  <<B("/", <<N(7), N(0)>>)>>, <<B("mod", <<N(7), N(0)>>)>>, <<B("-", <<N(-30000), N(30000)>>)>>,
  <<B("add-time", <<B("add-time", <<N(0), N(32767)>>), N(1)>>)>>}

PactContracts ==
  {[lang |-> "pact", code |-> p, input |-> <<>>] : p \in PactCalls \cup PactPrograms}
    \cup {[lang |-> "pact", code |-> p, input |-> c] :
            p \in {Garbled, <<>>, <<Def("defun", <<"f">>, <<>>, N(6))>>},
            c \in {Garbled, <<App(<<"f">>, <<>>), N(0)>>}}

-----------------------------------------------------------------------------
MCContract ==
  AvmContracts \cup SbfContracts \cup KaspaContracts \cup PactContracts
    \cup {[lang |-> "none"]} \cup {[lang |-> "native", address |-> a] : a \in 1..6}

=============================================================================
