----------------------------- MODULE CypherValue -----------------------------
(***************************************************************************)
(* Runtime values of the query engine (cypher/value.rs) and the parts of   *)
(* the expression interpreter (cypher/interpreter.rs) whose results depend *)
(* on null, on the mixture of types, or on a boundary: three-valued logic, *)
(* comparison and sort order, IN, the list quantifiers, checked integer    *)
(* arithmetic, slices and sub-strings, range(), and the DISTINCT of        *)
(* AggregateOp (cypher/physical.rs).                                       *)
(*                                                                         *)
(* A value is a record with its type `t'.  An i64 is an integer of         *)
(* MinInt..MaxInt.  An f64 is an integer, the negative zero or NaN; like   *)
(* the real type it represents only the integers up to Exact and, above,   *)
(* the even ones (AsFloat rounds the others, ties to even).  A string is   *)
(* known by its rank.  A run evaluates one case: operands, a list, a       *)
(* window into a list, or a call of range(), which loops.                  *)
(***************************************************************************)
EXTENDS Integers, Sequences, FiniteSets

CONSTANTS MaxInt,      \* i64::MAX
          Exact,       \* the largest magnitude up to which an f64 holds every integer
          CvCases,     \* the cases that are evaluated
          MaxRange     \* bound on the length of the list range() builds

VARIABLES cvcase,      \* the case
          cvout,       \* what the interpreter answers; for range(), the list built so far
          cvpc         \* "ready", "loop" or "done"

cvvars == <<cvcase, cvout, cvpc>>

MinInt == -MaxInt - 1

Null == [t |-> "null", n |-> 0]
Bool(b) == [t |-> "bool", n |-> IF b THEN 1 ELSE 0]
Integer(n) == [t |-> "int", n |-> n]
Float(n) == [t |-> "float", n |-> n]
NegZero == [t |-> "negzero", n |-> 0]
NaN == [t |-> "nan", n |-> 0]
Str(n) == [t |-> "str", n |-> n]
List(s) == [t |-> "list", n |-> 0, items |-> s]
Entity(id) == [t |-> "node", n |-> id]
Err == [t |-> "error", n |-> 0]       \* an EvalError

True == Bool(TRUE)
False == Bool(FALSE)

is_null(v) == v.t = "null"
IsFloat(v) == v.t \in {"float", "negzero", "nan"}
IsNumber(v) == v.t = "int" \/ IsFloat(v)

----------------------------------------------------------------------------
\* `*a as f64'
AsFloat(i) ==
    IF i % 2 = 0 \/ (-Exact <= i /\ i <= Exact) THEN i
    ELSE IF (i - 1) % 4 = 0 THEN i - 1 ELSE i + 1

\* The pair of numbers a comparison of two numeric values looks at.
Operands(l, r) ==
    IF l.t = "int" /\ r.t = "int" THEN <<l.n, r.n>>
    ELSE <<IF l.t = "int" THEN AsFloat(l.n) ELSE l.n, IF r.t = "int" THEN AsFloat(r.n) ELSE r.n>>

RECURSIVE cypher_eq(_, _)
cypher_eq(l, r) ==
    IF is_null(l) \/ is_null(r) THEN Null
    ELSE IF IsNumber(l) /\ IsNumber(r)
         THEN Bool("nan" \notin {l.t, r.t} /\ Operands(l, r)[1] = Operands(l, r)[2])
    ELSE IF l.t = r.t /\ l.t \in {"bool", "str"} THEN Bool(l.n = r.n)
    ELSE IF l.t = "list" /\ r.t = "list"
         THEN Bool(Len(l.items) = Len(r.items)
                   /\ \A i \in DOMAIN l.items : cypher_eq(l.items[i], r.items[i]) = True)
    ELSE False

cypher_ne(l, r) == IF cypher_eq(l, r) = Null THEN Null ELSE Bool(cypher_eq(l, r) = False)

\* lt, le, gt and ge share their table of cases; `R' is the operator on numbers.
Ordered(R(_, _), l, r) ==
    IF is_null(l) \/ is_null(r) THEN Null
    ELSE IF IsNumber(l) /\ IsNumber(r)
         THEN Bool("nan" \notin {l.t, r.t} /\ R(Operands(l, r)[1], Operands(l, r)[2]))
    ELSE IF l.t = r.t /\ l.t \in {"bool", "str"} THEN Bool(R(l.n, r.n))
    ELSE Err

lt(l, r) == LET R(x, y) == x < y IN Ordered(R, l, r)
gt(l, r) == LET R(x, y) == x > y IN Ordered(R, l, r)
ge(l, r) == LET R(x, y) == x >= y IN Ordered(R, l, r)

le(l, r) == LET R(x, y) == x <= y IN Ordered(R, l, r)

\* The rank of an f64 in OrderedF64::total_cmp: -0 below +0, NaN above all.
TotalRank(f) == CASE f.t = "nan" -> 4 * MaxInt
                  [] f.t = "negzero" -> -1
                  [] OTHER -> 2 * f.n

Incomparable == 2      \* cypher_compare answers None
Sign(x, y) == IF x < y THEN -1 ELSE IF x > y THEN 1 ELSE 0

\* Mutant: null is greater than anything, whichever side it is on.
NullOrder_EitherSide(l, r) == IF is_null(l) /\ is_null(r) THEN 0 ELSE 1

\* Null is always last.
NullOrder(l, r) == Sign(IF is_null(l) THEN 1 ELSE 0, IF is_null(r) THEN 1 ELSE 0)

RECURSIVE cypher_compare(_, _)
cypher_compare(l, r) ==
    IF is_null(l) \/ is_null(r)
    THEN NullOrder(l, r)
    ELSE IF IsFloat(l) /\ IsFloat(r) THEN Sign(TotalRank(l), TotalRank(r))
    ELSE IF IsNumber(l) /\ IsNumber(r)
         THEN IF "nan" \in {l.t, r.t} THEN 0 ELSE Sign(Operands(l, r)[1], Operands(l, r)[2])
    ELSE IF l.t = r.t /\ l.t \in {"bool", "str"} THEN Sign(l.n, r.n)
    ELSE IF l.t = "list" /\ r.t = "list" 
         THEN LET differ == {i \in DOMAIN l.items \cap DOMAIN r.items :
                                 cypher_compare(l.items[i], r.items[i]) # 0}
                  first == CHOOSE i \in differ : \A j \in differ : i <= j
              IN  IF differ = {} THEN Sign(Len(l.items), Len(r.items))
                  ELSE cypher_compare(l.items[first], r.items[first])
    ELSE Incomparable

\* compare_values of physical.rs, ascending
compare_values(l, r) == IF cypher_compare(l, r) = Incomparable THEN 0 ELSE cypher_compare(l, r)

----------------------------------------------------------------------------
\* Three-valued logic; an operand that is no Boolean counts as unknown.
kleene_and(l, r) ==
    IF False \in {l, r} THEN False ELSE IF l = True /\ r = True THEN True ELSE Null

kleene_or(l, r) ==
    IF True \in {l, r} THEN True ELSE IF l = False /\ r = False THEN False ELSE Null

kleene_not(v) ==
    IF is_null(v) THEN Null ELSE IF v.t = "bool" THEN Bool(v = False) ELSE Err

\* x IN list
eval_in(x, items) ==
    IF \E i \in DOMAIN items : cypher_eq(x, items[i]) = True THEN True
    ELSE IF \E i \in DOMAIN items : is_null(items[i]) THEN Null ELSE False

\* all / any / none / single (x IN list WHERE p), from what p gives for each item
Count(answers, v) == Cardinality({i \in DOMAIN answers : answers[i] = v})

eval_quantifier(kind, answers) ==
    LET trues == Count(answers, True)
        unknown == Count(answers, Null) > 0
        Else(b) == IF unknown THEN Null ELSE Bool(b)
    IN  CASE kind = "all" -> IF trues = Len(answers) THEN True ELSE Else(FALSE)
          [] kind = "any" -> IF trues > 0 THEN True ELSE Else(FALSE)
          [] kind = "none" -> IF trues > 0 THEN False ELSE Else(TRUE)
          [] kind = "single" -> IF trues > 1 THEN False ELSE Else(trues = 1)

----------------------------------------------------------------------------
Fits(n) == n \in MinInt..MaxInt

\* Mutant: wrapping addition.
checked_Wraps(n) == Integer(((n - MinInt) % (2 * (MaxInt + 1))) + MinInt)

\* checked_add, checked_sub, checked_mul and checked_neg, and the EvalError on None
checked(n) == IF Fits(n) THEN Integer(n) ELSE Err

Arithmetic(v, l, r) == IF is_null(l) \/ is_null(r) THEN Null
                       ELSE IF IsNumber(l) /\ IsNumber(r) THEN v ELSE Err

add(l, r) == Arithmetic(IF l.t = "int" /\ r.t = "int" THEN checked(l.n + r.n)
                        ELSE IF "nan" \in {l.t, r.t} THEN NaN
                        ELSE Float(Operands(l, r)[1] + Operands(l, r)[2]), l, r)

----------------------------------------------------------------------------
Panic == [t |-> "panic", n |-> 0]
Low(x, y) == IF x < y THEN x ELSE y
High(x, y) == IF x > y THEN x ELSE y

\* list[i]
eval_index(items, i) ==
    LET at == IF i < 0 THEN High(Len(items) + i, 0) ELSE i
    IN  IF at < Len(items) THEN items[at + 1] ELSE Null

\* A bound of a slice, counted from the end when negative.
Bounded(x, len) == IF x < 0 THEN High(len + x, 0) ELSE Low(x, len)

\* list[from..to]
eval_slice(items, from, to) ==
    LET start == Bounded(from, Len(items))
        end == High(Bounded(to, Len(items)), start)
    IN  IF start < 0 THEN <<Panic>> ELSE SubSeq(items, start + 1, end)

\* substring(s, start, length), left(s, n) and right(s, n)
substring(items, start, length) ==
    LET from == High(start, 0)
        end == Low(from + High(length, 0), Len(items))
    IN  SubSeq(items, Low(from, Len(items)) + 1, end)

left(items, n) == IF n < 0 THEN <<Panic>> ELSE SubSeq(items, 1, Low(n, Len(items)))

right(items, n) == SubSeq(items, High(Len(items) - High(n, 0), 0) + 1, Len(items))

----------------------------------------------------------------------------
RECURSIVE InsertSorted(_, _), StableSort(_)
InsertSorted(s, v) ==
    IF s = <<>> THEN <<v>>
    ELSE IF compare_values(v, s[Len(s)]) = -1
         THEN Append(InsertSorted(SubSeq(s, 1, Len(s) - 1), v), s[Len(s)])
         ELSE Append(s, v)
StableSort(s) == IF s = <<>> THEN <<>> ELSE InsertSorted(StableSort(SubSeq(s, 1, Len(s) - 1)), s[Len(s)])

\* The derived `==' of Value: types must agree, and NaN differs from itself.
SameValue(v, w) == v.t # "nan" /\ (v = w \/ {v, w} = {NegZero, Float(0)})

\* Vec::dedup: an item equal to the last one kept is dropped.
RECURSIVE dedup(_)
dedup(s) ==
    IF Len(s) < 2 THEN s
    ELSE LET kept == dedup(SubSeq(s, 1, Len(s) - 1))
         IN  IF SameValue(kept[Len(kept)], s[Len(s)]) THEN kept ELSE Append(kept, s[Len(s)])

\* DISTINCT in compute_aggregate
distinct(values) == dedup(StableSort(values))

----------------------------------------------------------------------------
CVInit == cvcase \in CvCases /\ cvout = [list |-> <<>>, i |-> 0] /\ cvpc = "ready"

eval_operands ==
    /\ cvpc = "ready" /\ cvcase.kind = "operands"
    /\ cvout' = LET l == cvcase.l r == cvcase.r IN
                [eq |-> cypher_eq(l, r), ne |-> cypher_ne(l, r), lt |-> lt(l, r), le |-> le(l, r),
                 gt |-> gt(l, r), ge |-> ge(l, r), add |-> add(l, r), cmp |-> compare_values(l, r)]
    /\ cvpc' = "done" /\ UNCHANGED cvcase

eval_list ==
    /\ cvpc = "ready" /\ cvcase.kind = "list"
    /\ cvout' = [in |-> eval_in(cvcase.x, cvcase.items), distinct |-> distinct(cvcase.items),
                 quantified |-> [k \in {"all", "any", "none", "single"} |->
                     eval_quantifier(k, [i \in DOMAIN cvcase.items |-> cypher_eq(cvcase.x, cvcase.items[i])])]]
    /\ cvpc' = "done" /\ UNCHANGED cvcase

eval_window ==
    /\ cvpc = "ready" /\ cvcase.kind = "window"
    /\ cvout' = [slice |-> eval_slice(cvcase.items, cvcase.from, cvcase.to),
                 at |-> eval_index(cvcase.items, cvcase.from),
                 substring |-> substring(cvcase.items, cvcase.from, cvcase.to),
                 left |-> left(cvcase.items, cvcase.from), right |-> right(cvcase.items, cvcase.from)]
    /\ cvpc' = "done" /\ UNCHANGED cvcase

\* range(start, end, step)
range_begin ==
    /\ cvpc = "ready" /\ cvcase.kind = "range"
    /\ IF cvcase.step = 0 THEN cvpc' = "done" /\ cvout' = Err
       ELSE cvpc' = "loop" /\ cvout' = [list |-> <<>>, i |-> cvcase.start]
    /\ UNCHANGED cvcase

InRange(i) == IF cvcase.step > 0 THEN i <= cvcase.end ELSE i >= cvcase.end

Pushed == Append(cvout.list, cvout.i)

range_push ==
    /\ cvpc = "loop" /\ InRange(cvout.i) /\ Len(cvout.list) < MaxRange
    /\ Fits(cvout.i + cvcase.step)
    /\ cvout' = [list |-> Pushed, i |-> cvout.i + cvcase.step]
    /\ UNCHANGED <<cvcase, cvpc>>

\* `i += step' overflows: a panic with overflow checks, two's complement without.
range_overflows ==
    /\ cvpc = "loop" /\ InRange(cvout.i) /\ Len(cvout.list) < MaxRange
    /\ ~Fits(cvout.i + cvcase.step)
    /\ \/ cvpc' = "done" /\ cvout' = Panic
       \/ cvpc' = "loop" /\ cvout' = [list |-> Pushed, i |-> checked_Wraps(cvout.i + cvcase.step).n]
    /\ UNCHANGED cvcase

range_end ==
    /\ cvpc = "loop" /\ ~InRange(cvout.i)
    /\ cvpc' = "done" /\ cvout' = List(cvout.list) /\ UNCHANGED cvcase

CVNext == eval_operands \/ eval_list \/ eval_window
          \/ range_begin \/ range_push \/ range_overflows \/ range_end

CVSpec == CVInit /\ [][CVNext]_cvvars

----------------------------------------------------------------------------
Evaluated(kind) == cvpc = "done" /\ cvcase.kind = kind

\* An integer its conversion to f64 keeps, or an f64 that is neither NaN nor -0.
Plain(v) == v.t = "float" \/ (v.t = "int" /\ AsFloat(v.n) = v.n)

\* Values that ORDER BY can be expected to compare: one type, or numbers, and nulls.
Alike(vs) ==
    LET some == {v \in vs : ~is_null(v)}
    IN  (\A v \in some : Plain(v)) \/ (\E t \in {"str", "bool", "list"} : \A v \in some : v.t = t)

\* The six comparison operators and the order used by ORDER BY, min and max, each coded
\* on its own, tell the same story: of two comparable values exactly one of <, = and >
\* holds, <=, >= and <> follow from them, and the sort order is <.
ComparisonsAgree ==
    (Evaluated("operands") /\ ~is_null(cvcase.l) /\ ~is_null(cvcase.r) /\ Alike({cvcase.l, cvcase.r})
        /\ cvout.lt # Err) =>
    /\ Cardinality({o \in {"lt", "eq", "gt"} : cvout[o] = True}) = 1
    /\ cvout.le = kleene_or(cvout.lt, cvout.eq)
    /\ cvout.ge = kleene_or(cvout.gt, cvout.eq)
    /\ kleene_and(cvout.le, cvout.ge) = cvout.eq
    /\ cvout.ne = kleene_not(cvout.eq)
    /\ cvout.cmp = (IF cvout.lt = True THEN -1 ELSE IF cvout.gt = True THEN 1 ELSE 0)

\* compare_values, the comparator every sort_by of the executor is given, is a total
\* preorder on values of one kind, with null last: the result of a sort is determined.
SortOrder ==
    Evaluated("operands") =>
    LET l == cvcase.l  r == cvcase.r  x == cvcase.x
    IN  Alike({l, r, x}) =>
        /\ compare_values(r, l) = -cvout.cmp
        /\ (cvout.cmp <= 0 /\ compare_values(r, x) <= 0) => compare_values(l, x) <= 0
        /\ (is_null(r) /\ ~is_null(l)) => cvout.cmp = -1

\* x IN list, any(i IN list WHERE i = x) and none(...) are three loops of the interpreter
\* and give one answer, unknown included.
ListPredicatesAgree ==
    (Evaluated("list") /\ ~is_null(cvcase.x)) =>
    /\ cvout.in = cvout.quantified["any"]
    /\ cvout.quantified["none"] = kleene_not(cvout.quantified["any"])
    /\ cvout.quantified["single"] = True => cvout.quantified["any"] = True
    /\ (cvout.quantified["all"] = True /\ cvcase.items # <<>>) => cvout.quantified["any"] = True

\* The sort and dedup behind DISTINCT keep every value of one type once, and lose none.
DistinctExact ==
    (Evaluated("list") /\ \E t \in {"int", "str", "bool", "null"} : \A i \in DOMAIN cvcase.items : cvcase.items[i].t = t) =>
    /\ {cvout.distinct[i] : i \in DOMAIN cvout.distinct} = {cvcase.items[i] : i \in DOMAIN cvcase.items}
    /\ \A i, j \in DOMAIN cvout.distinct : cvout.distinct[i] = cvout.distinct[j] => i = j

\* Slices, substring, left, right and indexing each compute their own bounds, from either
\* end and beyond both, and cut the same window.
WindowsAgree ==
    Evaluated("window") =>
    LET s == cvcase.items  from == cvcase.from  to == cvcase.to
    IN  /\ (from >= 0 /\ to >= 0) => cvout.substring = eval_slice(s, from, from + to)
        /\ from >= 0 => cvout.left = eval_slice(s, 0, from)
        /\ from < 0 => right(s, -from) = eval_slice(s, from, Len(s))
        /\ (from >= -Len(s) /\ from < Len(s)) =>
               <<cvout.at>> = eval_slice(s, from, IF from = -1 THEN Len(s) ELSE from + 1)

\* range(start, end, step) lists every value from start to end, end included, and stops,
\* as long as the value after the last one is an i64.
RangeExact ==
    (Evaluated("range") /\ cvcase.step # 0 /\ Fits(cvcase.end + cvcase.step)) =>
    /\ cvout.t = "list"
    /\ \A k \in DOMAIN cvout.items : cvout.items[k] = cvcase.start + (k - 1) * cvcase.step
    /\ ~InRange(cvcase.start + Len(cvout.items) * cvcase.step)
    /\ \A k \in DOMAIN cvout.items : InRange(cvout.items[k])

\* What the interpreter codes more than once - equality, order, the sort and DISTINCT; IN and the
\* list predicates; slices, substring and indexing; the elements of a range - has one meaning.
InterpreterConsistent ==
    /\ ComparisonsAgree /\ SortOrder /\ DistinctExact
    /\ ListPredicatesAgree /\ WindowsAgree /\ RangeExact

----------------------------------------------------------------------------
\* Refuted: any non-null value equals itself.  cypher_eq has no case for nodes,
\* relationships and maps, and a list that holds a null differs from itself.
EqualsItself ==
    (Evaluated("operands") /\ cvcase.l = cvcase.r /\ cvcase.l.t \notin {"null", "nan"}) => cvout.eq = True

\* Refuted: the comparator of the sorts is transitive on whatever a column may hold;
\* values of two types compare as equal, and so does NaN with any integer.
SortsAnything ==
    Evaluated("operands") =>
        ((cvout.cmp <= 0 /\ compare_values(cvcase.r, cvcase.x) <= 0) => compare_values(cvcase.l, cvcase.x) <= 0)

\* Refuted: all(...) is the conjunction of its answers; with one false and one unknown
\* answer the code says unknown.
AllIsConjunction ==
    Evaluated("list") => LET p(i) == cypher_eq(cvcase.x, cvcase.items[i])
                     IN  (\E i \in DOMAIN cvcase.items : p(i) = False) => cvout.quantified["all"] = False

\* Refuted: null IN list is unknown unless the list is empty.
NullInIsUnknown == (Evaluated("list") /\ is_null(cvcase.x) /\ cvcase.items # <<>>) => cvout.in = Null

\* Refuted: an index before the first element gives null; it gives the first element.
IndexOutsideIsNull == (Evaluated("window") /\ cvcase.from < -Len(cvcase.items)) => cvout.at = Null

\* Refuted: no call panics; left() slices with a negative count and range() overflows.
NoCallPanics == (Evaluated("window") => cvout.left # <<Panic>>) /\ (Evaluated("range") => cvout # Panic)
=============================================================================
