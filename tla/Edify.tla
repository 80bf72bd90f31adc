------------------------------- MODULE Edify --------------------------------
(***************************************************************************)
(* The evaluator of edify/expr.c.  A C function that evaluates its own       *)
(* arguments is turned inside out: from the number of its arguments and the  *)
(* values of those evaluated so far it says which argument it evaluates      *)
(* next, or what it returns.  Updater has the stack that goes with it.       *)
(*                                                                           *)
(* A string is a sequence of atoms (a path, a name, a number), since all     *)
(* that scripts do with one is join, compare, search and test it.            *)
(***************************************************************************)
EXTENDS Integers, Sequences, SequencesExt

\* Value; a blob's data names the contents, "bad" if there are none (size -1).
Str(s) == [type |-> "string", data |-> s]
Blob(c) == [type |-> "blob", data |-> <<c>>]
NULL == [type |-> "null", data |-> <<>>]
T == Str(<<"t">>)
Empty == Str(<<>>)
Bool(b) == IF b THEN T ELSE Empty

\* Expr, as the parser builds it: every function is called by its name.
Literal(s) == [fn |-> "literal", argv |-> <<>>, data |-> s]
Call(fn, argv) == [fn |-> fn, argv |-> argv, data |-> <<>>]

\* What a function does next: evaluate an argument, return, or set an error
\* message and return NULL (ErrorAbort).
Eval(i) == [arg |-> i, v |-> NULL, msg |-> ""]
Ret(v) == [arg |-> 0, v |-> v, msg |-> ""]
ErrorAbort(msg) == [arg |-> 0, v |-> NULL, msg |-> msg]

BooleanString(v) == v.data # <<>>

\* ReadArgs, ReadVarArgs and their like: all the arguments, in order.
ReadArgs(argc, vals, result) == IF Len(vals) < argc THEN Eval(Len(vals) + 1) ELSE result

-----------------------------------------------------------------------------
ConcatFn(argc, vals) ==
    ReadArgs(argc, vals, Ret(Str(FlattenSeq([i \in DOMAIN vals |-> vals[i].data]))))

\* Without an else branch a false condition is itself the value.
IfElseFn(argc, vals) ==
    CASE argc \notin {2, 3} -> ErrorAbort("arguments")
      [] vals = <<>> -> Eval(1)
      [] Len(vals) = 1 /\ BooleanString(vals[1]) -> Eval(2)
      [] Len(vals) = 1 /\ argc = 3 -> Eval(3)
      [] OTHER -> Ret(Last(vals))

\* The message may itself be NULL; the abort goes on.
AbortFn(argc, vals) ==
    IF argc > 0 /\ vals = <<>> THEN Eval(1) ELSE ErrorAbort("abort")

AssertFn(argc, vals) ==
    IF vals # <<>> /\ ~BooleanString(Last(vals)) THEN ErrorAbort("assert failed")
    ELSE ReadArgs(argc, vals, Ret(Empty))

\* sleep, and stdout, which prints each argument before it evaluates the next
SleepFn(vals) == ReadArgs(1, vals, Ret(Last(vals)))
StdoutFn(argc, vals) == ReadArgs(argc, vals, Ret(Empty))

LogicalAndFn(vals) ==
    CASE vals = <<>> -> Eval(1)
      [] Len(vals) = 1 /\ BooleanString(vals[1]) -> Eval(2)
      [] OTHER -> Ret(Last(vals))

LogicalOrFn(vals) ==
    CASE vals = <<>> -> Eval(1)
      [] Len(vals) = 1 /\ ~BooleanString(vals[1]) -> Eval(2)
      [] OTHER -> Ret(Last(vals))

LogicalNotFn(vals) == ReadArgs(1, vals, Ret(Bool(~BooleanString(Last(vals)))))

IsInfix(s, t) == \E k \in 0..(Len(t) - Len(s)) : SubSeq(t, k + 1, k + Len(s)) = s

SubstringFn(vals) == ReadArgs(2, vals, Ret(Bool(IsInfix(vals[1].data, vals[2].data))))

EqualityFn(vals) == ReadArgs(2, vals, Ret(Bool(vals[1] = vals[2])))

InequalityFn(vals) == ReadArgs(2, vals, Ret(Bool(vals[1] # vals[2])))

SequenceFn(vals) == ReadArgs(2, vals, Ret(Last(vals)))

\* strtol: an atom of the domain of Ints is the decimal notation of a number.
Ints == [a \in {"0", "1", "3", "14"} |->
            CASE a = "0" -> 0 [] a = "1" -> 1 [] a = "3" -> 3 [] a = "14" -> 14]
IsInt(v) == Len(v.data) = 1 /\ v.data[1] \in DOMAIN Ints
IntOf(v) == Ints[v.data[1]]

LessThan(l, r) == Bool(IsInt(l) /\ IsInt(r) /\ IntOf(l) < IntOf(r))

LessThanIntFn(argc, vals) ==
    IF argc # 2 THEN ErrorAbort("arguments")
    ELSE ReadArgs(2, vals, Ret(LessThan(vals[1], vals[2])))

\* It passes its arguments on swapped, so the second one is evaluated first.
GreaterThanIntFn(argc, vals) ==
    CASE argc # 2 -> ErrorAbort("arguments")
      [] vals = <<>> -> Eval(2)
      [] Len(vals) = 1 -> Eval(1)
      [] OTHER -> Ret(LessThan(vals[1], vals[2]))

-----------------------------------------------------------------------------
\* RegisterBuiltins, and the operators of the grammar
Builtins == {"ifelse", "abort", "assert", "concat", "is_substring", "stdout", "sleep",
             "less_than_int", "greater_than_int", "&&", "||", "!", "==", "!=", ";"}

Builtin(fn, argc, vals) ==
    CASE fn = "ifelse" -> IfElseFn(argc, vals)
      [] fn = "abort" -> AbortFn(argc, vals)
      [] fn = "assert" -> AssertFn(argc, vals)
      [] fn = "concat" -> ConcatFn(argc, vals)
      [] fn = "is_substring" -> SubstringFn(vals)
      [] fn = "stdout" -> StdoutFn(argc, vals)
      [] fn = "sleep" -> SleepFn(vals)
      [] fn = "less_than_int" -> LessThanIntFn(argc, vals)
      [] fn = "greater_than_int" -> GreaterThanIntFn(argc, vals)
      [] fn = "&&" -> LogicalAndFn(vals)
      [] fn = "||" -> LogicalOrFn(vals)
      [] fn = "!" -> LogicalNotFn(vals)
      [] fn = "==" -> EqualityFn(vals)
      [] fn = "!=" -> InequalityFn(vals)
      [] fn = ";" -> SequenceFn(vals)

\* The arguments taken with EvaluateValue; all others go through Evaluate.
TakesValue(fn, i) ==
    \/ fn \in {";", "write_raw_image", "sha1_check"}
    \/ fn \in {"ifelse", "&&", "||"} /\ i > 1
    \/ fn = "apply_patch" /\ i > 4

\* Evaluate: a value that has to be a string
Evaluate(v) == IF v.type = "blob" THEN NULL ELSE v

\* What becomes of a function whose argument i is NULL: it returns NULL.  Three
\* of the updater's go on with an array that is no longer there, or free its
\* first element over and over, until the heap or the counter gives in.
NullArg(fn, i) ==
    CASE \/ fn = "apply_patch" /\ i > 4
         \/ fn = "apply_patch_check" /\ i > 1 -> {"killed"}
      [] fn \in {"delete", "delete_recursive"} /\ i > 1 -> {"killed", "null"}
      [] OTHER -> {"null"}
=============================================================================
