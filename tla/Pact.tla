-------------------------------- MODULE Pact --------------------------------
(***************************************************************************)
(* The Pact interpreter of frychain-vm: pact.rs.  A machine s is the state *)
(* of one PactVM, t the machine a step later; a step is a call of the      *)
(* evaluator up to its next call of itself or its return, and an error     *)
(* ends the program.  Programs are syntax trees (the parser is not         *)
(* modelled); a name is the sequence of its parts, a string the sequence   *)
(* of its characters.  A value has one field, named for its type.          *)
(***************************************************************************)
EXTENDS Gas, Integers, Sequences, SequencesExt, FiniteSets

CONSTANTS
  MAX_RECURSION_DEPTH,   \* 256
  MAX_TABLE_SIZE,        \* 100000
  IntModulus,            \* 2^128: integers are i128
  USIZE,                 \* 2^64
  U32,                   \* 2^32: an exponent is cut to it
  OverflowChecks,        \* TRUE for the dev profile, FALSE for the release one
  Signers,               \* the keys that signed the transaction
  Garbled,               \* a source text that does not parse
  Hex(_),                \* the hash of a value, as a string
  DebugSize(_)           \* the length of a value's debug format

Unit == [unit |-> TRUE]
Integer(n) == [int |-> n]
Bool(b) == [bool |-> b]
Str(s) == [str |-> s]
TypeOf(v) == CHOOSE f \in DOMAIN v : TRUE
Is(v, type) == TypeOf(v) = type

AsBool(v) ==
  CASE Is(v, "bool") -> v.bool
    [] Is(v, "int") -> v.int # 0
    [] Is(v, "str") -> v.str # <<>>
    [] Is(v, "list") -> v.list # <<>>
    [] OTHER -> ~Is(v, "unit")

\* to_bytes, by its length
Size(v) ==
  CASE Is(v, "int") -> 17
    [] Is(v, "str") -> 5 + Len(v.str)
    [] Is(v, "bool") -> 2
    [] Is(v, "unit") -> 1
    [] OTHER -> 5 + DebugSize(v)

Boot(code, call, limit) ==
  [lang |-> "pact", code |-> IF code = Garbled THEN <<>> ELSE code, call |-> call, val |-> Unit,
   env |-> <<>>, functions |-> <<>>, capabilities |-> <<>>, active |-> <<>>, granted |-> {},
   tables |-> <<>>, keysets |-> <<>>, modules |-> {}, module |-> <<>>, depth |-> 0, logs |-> <<>>,
   todo |-> <<>>, frames |-> <<>>,
   gas |-> NewMeter(limit), steps |-> 0,
   status |-> IF code = Garbled THEN "failed" ELSE "running"]

Running(s) == s.lang = "pact" /\ s.status = "running"

Failed(s) == [s EXCEPT !.status = "failed"]
Panics(s) == [s EXCEPT !.status = "panicked"]
Ok(s) == s.status = "running"
Give(s, v) == IF Ok(s) THEN [s EXCEPT !.val = v] ELSE s
Charge(s, amount) ==
  IF HasGas(s.gas, amount) THEN [s EXCEPT !.gas = Consume(@, amount)]
  ELSE Failed([s EXCEPT !.gas = Consume(@, amount)])

\* The parameters bound to arguments, as far as both go
Bind(env, params, args) ==
  FoldLeft(LAMBDA e, i : (params[i] :> args[i]) @@ e, env,
           [i \in 1..(IF Len(params) < Len(args) THEN Len(params) ELSE Len(args)) |-> i])

\* Inside a module, definitions are stored under the module's name
FullName(s, name) == s.module \o name

\* lookup: local bindings, then any qualified name, then the constants
Constants == (<<"true">> :> Bool(TRUE)) @@ (<<"false">> :> Bool(FALSE))
               @@ (<<"CHARSET_ASCII">> :> Integer(0)) @@ (<<"CHARSET_LATIN1">> :> Integer(1))

Lookup(s, name) ==
  IF name \in DOMAIN s.env THEN Give(s, s.env[name])
  ELSE IF Len(name) > 1 THEN Give(s, [modref |-> name])
  ELSE IF name \in DOMAIN Constants THEN Give(s, Constants[name])
  ELSE Failed(s)

-----------------------------------------------------------------------------
\* Guards: a keyset needs every key to have signed, a capability guard the
\* capability in scope without arguments, the others nothing
Verified(s, guard) ==
  CASE guard.kind = "keyset" -> guard.keys \subseteq Signers
    [] guard.kind = "capability" -> <<guard.name, <<>>>> \in ToSet(s.active)
    [] OTHER -> TRUE

VerifyGuard(s, v) ==
  LET named == Is(v, "keyset") /\ v.keyset \in DOMAIN s.keysets
      guard == IF Is(v, "guard") THEN v.guard ELSE [kind |-> "keyset", keys |-> s.keysets[v.keyset]]
  IN  IF (Is(v, "guard") \/ named) /\ Verified(s, guard) THEN Give(s, Bool(TRUE)) ELSE Failed(s)

-----------------------------------------------------------------------------
\* Built-in functions.  The argument types are looked at from the first to the
\* last; one that is missing panics, except in the four operators that check.
Checked == {"+", "-", "*", "/"}

Takes(f) ==
  CASE f \in {"+", "-", "*", "/", "mod", "^", "pow", "<", "<=", ">", ">=", "enumerate"} ->
         <<"int", "int">>
    [] f \in {"abs", "sqrt", "int-to-str"} -> <<"int">>
    [] f \in {"=", "==", "!=", "and", "or"} -> <<"any", "any">>
    [] f \in {"not", "identity", "typeof", "emit-event"} -> <<"any">>
    [] f \in {"take", "drop"} -> <<"int", "many">>
    [] f = "length" -> <<"many">>
    [] f = "at" -> <<"int", "list">>
    [] f = "contains" -> <<"any", "list">>
    [] f \in {"reverse", "sort"} -> <<"list">>
    [] f = "add-time" -> <<"any", "int">>
    [] f \in {"time", "keyset-ref-guard", "create-capability-guard", "read-keyset",
              "str-to-int", "format"} -> <<"str">>
    [] f = "define-keyset" -> <<"str", "any">>
    [] OTHER -> <<>>

Fits(v, type) == type = "any" \/ Is(v, type) \/ (type = "many" /\ TypeOf(v) \in {"str", "list"})

\* The first argument that does not fit decides: missing or of another type
Misfits(f, args) ==
  {i \in DOMAIN Takes(f) : i > Len(args) \/ ~Fits(args[i], Takes(f)[i])}
FirstMisfit(f, args) == CHOOSE i \in Misfits(f, args) : \A j \in Misfits(f, args) : i <= j

Signed(n, modulus) == LET u == n % modulus IN IF u >= modulus \div 2 THEN u - modulus ELSE u

\* An i128 result of checked or wrapping arithmetic
Number(s, n) ==
  IF OverflowChecks /\ Signed(n, IntModulus) # n THEN Panics(s)
  ELSE Give(s, Integer(Signed(n, IntModulus)))

Quotient(a, b) ==
  LET q == (IF a < 0 THEN -a ELSE a) \div (IF b < 0 THEN -b ELSE b)
  IN  IF (a < 0) <=> (b < 0) THEN q ELSE -q

\* pow, one multiplication at a time
Times(s, a) == IF Ok(s) THEN Number(s, s.val.int * a) ELSE s
Raise(s, a, b) ==
  LET power[i \in 0..b] == IF i = 0 THEN Give(s, Integer(1)) ELSE Times(power[i - 1], a)
  IN  power[b]

\* The least integer divided by -1 panics in every build
Arithmetic(f, s, a, b) ==
  CASE f = "+" -> Number(s, a + b)
    [] f = "-" -> Number(s, a - b)
    [] f = "*" -> Number(s, a * b)
    [] f \in {"/", "mod"} ->
         IF b = 0 THEN Failed(s)
         ELSE IF b = -1 /\ a = -(IntModulus \div 2) THEN Panics(s)
         ELSE Give(s, Integer(IF f = "/" THEN Quotient(a, b) ELSE a - b * Quotient(a, b)))
    [] f \in {"^", "pow"} -> IF b \notin Nat THEN Failed(s) ELSE Raise(s, a, b % U32)

\* abs and sqrt
OfOne(f, s, a) ==
  CASE f = "abs" -> Number(s, IF a < 0 THEN -a ELSE a)
    [] f = "sqrt" -> IF a < 0 THEN Failed(s)
                     ELSE Give(s, Integer(CHOOSE r \in 0..a : r * r <= a /\ (r + 1) * (r + 1) > a))

\* The functions that return a truth value
Decisions == {"<", "<=", ">", ">=", "=", "==", "!=", "and", "or"}
Decided(f, a, b) ==
  CASE f = "<" -> a.int < b.int
    [] f = "<=" -> a.int <= b.int
    [] f = ">" -> a.int > b.int
    [] f = ">=" -> a.int >= b.int
    [] f \in {"=", "=="} -> a = b
    [] f = "!=" -> a # b
    [] f = "and" -> AsBool(a) /\ AsBool(b)
    [] f = "or" -> AsBool(a) \/ AsBool(b)

\* as usize: a negative count is a huge one
Prefix(seq, n) == SubSeq(seq, 1, IF n > Len(seq) THEN Len(seq) ELSE n)
Suffix(seq, n) == SubSeq(seq, n + 1, Len(seq))
OnMany(v, F(_)) == IF Is(v, "str") THEN Str(F(v.str)) ELSE [list |-> F(v.list)]

\* Numerals, by their digits; base 16 shows a negative number's two's complement
Digit == <<"0", "1", "2", "3", "4", "5", "6", "7", "8", "9", "a", "b", "c", "d", "e", "f">>
Digits[base \in {10, 16}, n \in Nat] ==
  IF n < base THEN <<Digit[n + 1]>> ELSE Append(Digits[base, n \div base], Digit[(n % base) + 1])
Numeral(n, base) ==
  IF base = 16 THEN Digits[16, n % IntModulus]
  ELSE IF n < 0 THEN <<"-">> \o Digits[10, -n] ELSE Digits[10, n]

\* A sign is optional; a number beyond an i128 does not parse
Unsigned(str) == IF str # <<>> /\ str[1] \in {"+", "-"} THEN Tail(str) ELSE str
Parsed(str) ==
  LET n == FoldLeft(LAMBDA acc, d : 10 * acc + (CHOOSE i \in 0..9 : Digit[i + 1] = d), 0, Unsigned(str))
  IN  IF str[1] = "-" THEN -n ELSE n
IsNumeral(str) ==
  /\ Unsigned(str) # <<>>
  /\ \A i \in DOMAIN Unsigned(str) : \E d \in 1..10 : Unsigned(str)[i] = Digit[d]
  /\ Signed(Parsed(str), IntModulus) = Parsed(str)

\* format: each value replaces the first "{}" left, if there is one
Shown(v) == CASE Is(v, "str") -> v.str
              [] Is(v, "int") -> Numeral(v.int, 10)
              [] OTHER -> <<TypeOf(v)>>
FillIn(str, v) ==
  LET at == SelectInSeq(str, LAMBDA c : c = "{}")
  IN  IF at = 0 THEN str ELSE SubSeq(str, 1, at - 1) \o Shown(v) \o SubSeq(str, at + 1, Len(str))

\* sort: integers by value; values of other types compare equal and stay put
SortedList(list) ==
  IF \A i \in DOMAIN list : Is(list[i], "int") THEN SortSeq(list, LAMBDA x, y : x.int < y.int) ELSE list

\* Strings, and what strings share with lists
Texts == {"concat", "str-to-int", "int-to-str", "length", "take", "drop", "format"}
OfText(f, s, args) ==
  LET a == args[1]
      b == args[2]
  IN CASE f = "concat" -> IF \A i \in DOMAIN args : Is(args[i], "str")
                          THEN Give(s, Str(FlattenSeq([i \in DOMAIN args |-> args[i].str]))) ELSE Failed(s)
       [] f = "str-to-int" -> IF IsNumeral(a.str) THEN Give(s, Integer(Parsed(a.str))) ELSE Failed(s)
       [] f = "int-to-str" -> IF Len(args) > 1 /\ ~Is(b, "int") THEN Failed(s)
                              ELSE Give(s, Str(Numeral(a.int, IF Len(args) > 1 /\ b.int = 16 THEN 16 ELSE 10)))
       [] f = "length" -> Give(s, Integer(Len(IF Is(a, "str") THEN a.str ELSE a.list)))
       [] f = "take" -> Give(s, OnMany(b, LAMBDA q : Prefix(q, a.int % USIZE)))
       [] f = "drop" -> Give(s, OnMany(b, LAMBDA q : Suffix(q, a.int % USIZE)))
       [] f = "format" -> IF Len(args) = 1 THEN Give(s, a)
                          ELSE IF Is(b, "list") THEN Give(s, Str(FoldLeft(FillIn, a.str, b.list))) ELSE Failed(s)

\* Lists; an index is a usize
Lists == {"list", "at", "contains", "enumerate", "reverse", "sort"}
OfList(f, s, args) ==
  LET a == args[1]
      b == args[2]
      at == (a.int % USIZE) + 1
  IN CASE f = "list" -> Give(s, [list |-> args])
       [] f = "at" -> IF at <= Len(b.list) THEN Give(s, b.list[at]) ELSE Failed(s)
       [] f = "contains" -> Give(s, Bool(a \in ToSet(b.list)))
       [] f = "enumerate" -> Give(s, [list |-> [i \in 1..(IF b.int < a.int THEN 0 ELSE b.int - a.int + 1)
                                                  |-> Integer(a.int + i - 1)]])
       [] f = "reverse" -> Give(s, [list |-> Reverse(a.list)])
       [] f = "sort" -> Give(s, [list |-> SortedList(a.list)])

\* hash pays before it looks at its argument, and again for its bytes
HashOf(s, args) ==
  LET paid == Charge(s, SHA3_BASE)
      bytes == IF Is(args[1], "str") THEN Len(args[1].str) ELSE Size(args[1])
  IN  IF ~Ok(paid) THEN paid
      ELSE IF args = <<>> THEN Panics(paid)
      ELSE Give(Charge(paid, SHA3_WORD * Words(bytes)), Str(Hex(args[1])))

AddTime(s, a, b) ==
  LET t == (IF Is(a, "time") THEN a.time ELSE 0) + Signed(b.int, USIZE)
  IN  IF OverflowChecks /\ Signed(t, USIZE) # t THEN Panics(s) ELSE Give(s, [time |-> Signed(t, USIZE)])

DefineKeyset(s, name, v) ==
  LET keys == IF Is(v, "list") THEN v.list ELSE <<>>
  IN  IF \A i \in DOMAIN keys : Is(keys[i], "str")
      THEN Give([s EXCEPT !.keysets = (name :> {k.str : k \in ToSet(keys)}) @@ @], Unit)
      ELSE Failed(s)

Sums == {"+", "-", "*", "/", "mod", "^", "pow"}
Guards == {"keyset-ref-guard", "read-keyset", "create-user-guard", "create-capability-guard", "define-keyset"}

OfGuard(f, s, args) ==
  CASE f \in {"keyset-ref-guard", "read-keyset"} -> Give(s, [keyset |-> args[1].str])
    [] f = "create-user-guard" -> Give(s, [guard |-> [kind |-> "user", module |-> s.module]])
    [] f = "create-capability-guard" -> Give(s, [guard |-> [kind |-> "capability", name |-> args[1].str]])
    [] f = "define-keyset" -> DefineKeyset(s, args[1].str, args[2])

\* Every argument fits: what a built-in function returns
Apply(f, s, args) ==
  CASE f \in Sums -> Arithmetic(f, s, args[1].int, args[2].int)
    [] f \in {"abs", "sqrt"} -> OfOne(f, s, args[1].int)
    [] f \in Decisions -> Give(s, Bool(Decided(f, args[1], args[2])))
    [] f = "not" -> Give(s, Bool(~AsBool(args[1])))
    [] f \in Texts -> OfText(f, s, args)
    [] f \in Lists -> OfList(f, s, args)
    [] f = "hash" -> HashOf(s, args)
    [] f = "time" -> Give(s, [time |-> 0])
    [] f = "add-time" -> AddTime(s, args[1], args[2])
    [] f \in Guards -> OfGuard(f, s, args)
    [] f = "emit-event" -> Give([s EXCEPT !.logs = Append(@, args[1])], Bool(TRUE))
    [] f = "identity" -> Give(s, args[1])
    [] f = "typeof" -> Give(s, Str(<<TypeOf(args[1])>>))

Builtins == Sums \cup Decisions \cup Texts \cup Lists \cup Guards \cup
              {"abs", "sqrt", "not", "hash", "time", "add-time", "emit-event", "identity", "typeof"}

Builtin(f, s, args) ==
  IF Misfits(f, args) = {} THEN Apply(f, s, args)
  ELSE IF FirstMisfit(f, args) > Len(args) /\ f \notin Checked THEN Panics(s)
  ELSE Failed(s)

-----------------------------------------------------------------------------
\* The evaluator calls itself once for each part of an expression.  todo is the
\* expression it was called with, if it has not looked at it yet, and frames are
\* the calls that wait for a part, the last of them for the next value: the
\* expression, the bindings when the call began, and the values it has so far.
Frame(s) == Last(s.frames)
Expr(s) == Frame(s).e
Vals(s) == Frame(s).vals

Writes == {"write", "insert", "update"}

\* The parts of an expression that are evaluated in any case, in order
Parts(e) ==
  CASE e.kind = "app" -> IF "fun" \in DOMAIN e THEN e.args ELSE <<e.head>>
    [] e.kind = "let" -> [i \in DOMAIN e.bindings |-> e.bindings[i].expr]
    [] e.kind \in {"with-capability", "require-capability"} -> e.args
    [] e.kind = "module" -> e.definitions
    [] e.kind \in {"if", "enforce"} -> <<e.cond>>
    [] e.kind = "enforce-guard" -> <<e.guard>>
    [] e.kind = "read" -> <<e.key>>
    [] e.kind \in Writes -> <<e.key, e.value>>
    [] OTHER -> <<>>

Ask(s, e) == [s EXCEPT !.todo = <<e>>]

\* A call returns, one level up: the calls below get its value
Return(s, below) ==
  IF ~Ok(s) THEN s
  ELSE [s EXCEPT !.depth = @ - 1,
                 !.frames = IF below = <<>> THEN <<>>
                            ELSE [below EXCEPT ![Len(below)].vals = Append(@, s.val)]]

Leave(s) == Return(s, Front(s.frames))

\* What an expression does before its first part: tables are charged first, and
\* the definitions of a module are stored under its name
Opened(s, e) ==
  CASE e.kind = "read" -> Charge(s, SLOAD)
    [] e.kind \in Writes -> Charge(s, SSTORE_SET)
    [] e.kind = "module" -> [s EXCEPT !.module = e.name]
    [] OTHER -> s

\* Expressions without parts
Simple == {"literal", "symbol", "lambda", "defun", "defcap", "deftable", "defschema", "property", "interface"}

Define(field, s, e) ==
  Give([s EXCEPT ![field] = (FullName(s, e.name) :> [params |-> e.params, body |-> e.body]) @@ @], Unit)

Construct(s, e) ==
  CASE e.kind = "literal" -> Give(s, e.val)
    [] e.kind = "symbol" -> Lookup(s, e.name)
    [] e.kind = "lambda" -> Give(s, Str(<<"lambda">>))
    [] e.kind = "defun" -> Define("functions", s, e)
    [] e.kind = "defcap" -> Define("capabilities", s, e)
    [] e.kind = "deftable" -> Give([s EXCEPT !.tables = (e.name :> <<>>) @@ @], Unit)
    [] e.kind \in {"defschema", "property", "interface"} -> Give(s, Unit)

\* eval: one level deeper, and the base cost
Eval(s, t) ==
  /\ Running(s)
  /\ s.todo # <<>>
  /\ LET e      == Head(s.todo)
         deeper == [s EXCEPT !.todo = <<>>, !.depth = @ + 1]
         paid   == [Charge(deeper, BASE) EXCEPT !.steps = @ + 1]
         opened == Opened(paid, e)
     IN  t = IF deeper.depth > MAX_RECURSION_DEPTH THEN Failed(deeper)
               ELSE IF ~Ok(paid) THEN paid
               ELSE IF ~Ok(opened) THEN opened
               ELSE IF e.kind \in Simple THEN Return(Construct(paid, e), s.frames)
               ELSE [opened EXCEPT !.frames = Append(@, [e |-> e, env |-> s.env, vals |-> <<>>])]

\* The call that waits for a value goes on: with its next part, ...
Resumes(s) == Running(s) /\ s.todo = <<>> /\ s.frames # <<>>

\* A binding is seen by the ones after it
Bound(s) ==
  IF Expr(s).kind = "let" /\ Vals(s) # <<>>
  THEN [s EXCEPT !.env = (Expr(s).bindings[Len(Vals(s))].name :> Last(Vals(s))) @@ @]
  ELSE s

\* the key of a row has to be a string before its value is looked at
NextPart(s, t) ==
  /\ Resumes(s)
  /\ Len(Vals(s)) < Len(Parts(Expr(s)))
  /\ t = IF Expr(s).kind \in Writes /\ Vals(s) # <<>> /\ ~Is(Last(Vals(s)), "str") THEN Failed(s)
           ELSE Ask(Bound(s), Parts(Expr(s))[Len(Vals(s)) + 1])

\* ... or with what it makes of them, and of the parts that depend on them
Completes(s, kinds) == Resumes(s) /\ Expr(s).kind \in kinds /\ Len(Vals(s)) = Len(Parts(Expr(s)))
Returns(s, kinds, n) ==
  Resumes(s) /\ Expr(s).kind \in kinds /\ Vals(s) # <<>> /\ Len(Vals(s)) - n = Len(Parts(Expr(s)))

\* A body with more bindings: the caller's stay visible, and come back after it
Call(s, f) ==
  IF Len(Vals(s)) # Len(f.params) THEN Failed(s)
  ELSE Ask([s EXCEPT !.env = Bind(@, f.params, Vals(s))], f.body)

\* eval_app: a built-in function's name hides a defined one
EvalApp(s, t) ==
  /\ Completes(s, {"app"})
  /\ t = IF "fun" \notin DOMAIN Expr(s) THEN Failed(s)
           ELSE IF Len(Expr(s).fun) = 1 /\ Expr(s).fun[1] \in Builtins
           THEN Leave(Builtin(Expr(s).fun[1], s, Vals(s)))
           ELSE IF Expr(s).fun \in DOMAIN s.functions THEN Call(s, s.functions[Expr(s).fun])
           ELSE Failed(s)

EvalLet(s, t) == Completes(s, {"let"}) /\ t = Ask(Bound(s), Expr(s).body)

EndOfBody(s, t) == Returns(s, {"app", "let"}, 1) /\ t = Leave([s EXCEPT !.env = Frame(s).env])

EvalIf(s, t) ==
  \/ Completes(s, {"if"}) /\ t = Ask(s, IF AsBool(Last(Vals(s))) THEN Expr(s).then ELSE Expr(s).else)
  \/ Returns(s, {"if"}, 1) /\ t = Leave(s)

\* load_module: the definitions are done
EvalModule(s, t) ==
  /\ Completes(s, {"module"})
  /\ t = Leave(Give([s EXCEPT !.module = <<>>, !.modules = @ \cup {Expr(s).name}], Str(Expr(s).name)))

\* with-capability: a defined capability is granted once its body has passed,
\* and stays granted; an undefined one is put in scope as it is
Arguments(s) == SubSeq(Vals(s), 1, Len(Expr(s).args))
Key(s) == <<Expr(s).name, Arguments(s)>>

InScope(s, to) == Ask([to EXCEPT !.active = Append(@, Key(s))], Expr(s).body)

Acquire(s, t) ==
  /\ Completes(s, {"with-capability"})
  /\ t = IF Key(s) \in s.granted \/ Expr(s).name \notin DOMAIN s.capabilities
           THEN InScope(s, [s EXCEPT !.frames[Len(s.frames)].vals = Append(@, Unit)])
           ELSE LET c == s.capabilities[Expr(s).name]
                IN  Ask([s EXCEPT !.env = Bind(@, c.params, Vals(s))], c.body)

Granted(s, t) ==
  /\ Returns(s, {"with-capability"}, 1)
  /\ t = InScope(s, [s EXCEPT !.env = Frame(s).env, !.granted = @ \cup {Key(s)}])

\* Mutant: a capability stays in scope after its body
EndOfScopeKept(s, t) ==
  /\ Returns(s, {"with-capability"}, 2)
  /\ t = Leave(s)

EndOfScope(s, t) ==
  /\ Returns(s, {"with-capability"}, 2)
  /\ t = Leave([s EXCEPT !.active = Front(@)])

EvalRequireCapability(s, t) ==
  /\ Completes(s, {"require-capability"})
  /\ t = IF Key(s) \in ToSet(s.active) THEN Leave(Give(s, Bool(TRUE))) ELSE Failed(s)

EvalRead(s, t) ==
  /\ Completes(s, {"read"})
  /\ LET key == Vals(s)[1]
     IN  t = IF /\ Is(key, "str")
                /\ Expr(s).table \in DOMAIN s.tables
                /\ key.str \in DOMAIN s.tables[Expr(s).table]
               THEN Leave(Give(s, [object |-> s.tables[Expr(s).table][key.str]]))
               ELSE Failed(s)

\* write, insert and update are one operation, which is refused on a full table
\* even for a row that exists
EvalWrite(s, t) ==
  /\ Completes(s, Writes)
  /\ LET row == Vals(s)[2]
     IN  t = IF ~Is(row, "object") \/ Expr(s).table \notin DOMAIN s.tables THEN Failed(s)
               ELSE IF Cardinality(DOMAIN s.tables[Expr(s).table]) >= MAX_TABLE_SIZE THEN Failed(s)
               ELSE Leave(Give([s EXCEPT !.tables[Expr(s).table] = (Vals(s)[1].str :> row.object) @@ @],
                               Unit))

EvalEnforce(s, t) ==
  \/ /\ Completes(s, {"enforce"})
     /\ t = IF AsBool(Last(Vals(s))) THEN Leave(Give(s, Bool(TRUE))) ELSE Failed(s)
  \/ /\ Completes(s, {"enforce-guard"})
     /\ t = Leave(VerifyGuard(s, Last(Vals(s))))

-----------------------------------------------------------------------------
\* parse_and_execute: the program's expressions, then those of the call
Idle(s) == Running(s) /\ s.todo = <<>> /\ s.frames = <<>>

EvalNext(s, t) ==
  /\ Idle(s)
  /\ s.code # <<>>
  /\ t = Ask([s EXCEPT !.code = Tail(@)], Head(s.code))

StartCall(s, t) ==
  /\ Idle(s)
  /\ s.code = <<>>
  /\ s.call # <<>>
  /\ t = IF s.call = Garbled THEN Failed(s) ELSE [s EXCEPT !.code = s.call, !.call = <<>>]

EndOfCode(s, t) == Idle(s) /\ s.code = <<>> /\ s.call = <<>> /\ t = [s EXCEPT !.status = "done"]

Step(s, t) ==
  \/ Eval(s, t) \/ NextPart(s, t) \/ EvalApp(s, t) \/ EvalLet(s, t) \/ EndOfBody(s, t)
  \/ EvalIf(s, t) \/ EvalModule(s, t) \/ Acquire(s, t) \/ Granted(s, t) \/ EndOfScope(s, t)
  \/ EvalRequireCapability(s, t) \/ EvalRead(s, t) \/ EvalWrite(s, t) \/ EvalEnforce(s, t)
  \/ EvalNext(s, t) \/ StartCall(s, t) \/ EndOfCode(s, t)

\* What execute returns: any value is a success
Succeeds(m) == m.status = "done"
Answer(m) == IF m.status = "done" THEN <<m.val>> ELSE <<>>

=============================================================================
