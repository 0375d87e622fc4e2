----------------------------- MODULE Operations -----------------------------
(***************************************************************************)
(* shared/sdk-server/src/evaluation/Operations.ts: the operators of        *)
(* clauses.  A value has a type; what a string means to a regular          *)
(* expression, as a date or as a number is given by constants, and all     *)
(* numbers are integers.  A version is a string of the tokens "v", ".",    *)
(* "-", digits and others.                                                 *)
(***************************************************************************)
EXTENDS Integers, Sequences

CONSTANTS Expressions,  \* regular expressions that can be compiled -> what they match
          DateOf,       \* strings that match DATE_REGEX -> their time, or NaN
          NumberOf      \* tokens of digits -> their number

NaN == -1

ASSUME OperationsAssumption ==
  /\ \A s \in DOMAIN DateOf : DateOf[s] \in Nat \cup {NaN}
  /\ \A d \in DOMAIN NumberOf : NumberOf[d] \in Nat
  /\ "0" \in DOMAIN NumberOf /\ NumberOf["0"] = 0 /\ {"v", ".", "-"} \cap DOMAIN NumberOf = {}

-----------------------------------------------------------------------------
(* Versions.                                                               *)

NoVersion == [numbers |-> <<>>, prerelease |-> <<>>]

IsNumber(s, n) == n <= Len(s) /\ s[n] \in DOMAIN NumberOf
IsToken(s, n, token) == n <= Len(s) /\ s[n] = token

(* parse of semver: three numbers, and perhaps a pre-release, here always  *)
(* a number too.                                                           *)
Parse(s) ==
  IF /\ Len(s) \in {5, 7} /\ \A n \in {1, 3, 5} : IsNumber(s, n)
     /\ s[2] = "." /\ s[4] = "." /\ (Len(s) = 7 => s[6] = "-" /\ IsNumber(s, 7))
  THEN [numbers |-> [n \in 1..3 |-> NumberOf[s[2 * n - 1]]],
        prerelease |-> IF Len(s) = 7 THEN <<NumberOf[s[7]]>> ELSE <<>>]
  ELSE NoVersion

(* VERSION_COMPONENTS_REGEX: the first n numbers, three at most.           *)
HasComponents(s, n) ==
  /\ \A m \in 1..n : IsNumber(s, 2 * m - 1)
  /\ \A m \in 1..n - 1 : IsToken(s, 2 * m, ".")

Components(s) == CHOOSE n \in 0..3 : HasComponents(s, n) /\ (n = 3 \/ ~HasComponents(s, n + 1))

(* What is missing of three components is taken to be 0, before whatever   *)
(* follows.                                                                *)
Completed(s) ==
  LET matched == 2 * Components(s) - 1 IN
  SubSeq(s, 1, matched) \o SubSeq(<<".", "0", ".", "0">>, 1, 5 - matched) \o SubSeq(s, matched + 1, Len(s))

ParseSemver(v) ==
  IF v.type # "string" \/ IsToken(v.of, 1, "v") THEN NoVersion
  ELSE IF Parse(v.of) # NoVersion THEN Parse(v.of)
  ELSE IF Components(v.of) = 0 THEN NoVersion ELSE Parse(Completed(v.of))

(* compare of semver: a pre-release comes before its version.              *)
Precedes(a, b) ==
  LET first == {n \in 1..3 : a.numbers[n] # b.numbers[n]} IN
  IF first # {} THEN \E n \in first : a.numbers[n] < b.numbers[n] /\ \A m \in first : n <= m
  ELSE /\ a.prerelease # <<>>
       /\ b.prerelease # <<>> => a.prerelease[1] < b.prerelease[1]

SemVerOperator(op, a, b) ==
  /\ NoVersion \notin {a, b}
  /\ CASE op = "semVerEqual" -> a = b
       [] op = "semVerLessThan" -> Precedes(a, b)
       [] op = "semVerGreaterThan" -> Precedes(b, a)

-----------------------------------------------------------------------------
IsDate(v) == v.type = "number" \/ (v.type = "string" /\ v.of \in DOMAIN DateOf)

ParseDate(v) == IF v.type = "number" THEN v.of ELSE DateOf[v.of]

SafeRegexMatch(pattern, value) == pattern \in DOMAIN Expressions /\ value \in Expressions[pattern]

IsAt(s, n, part) == n + Len(part) <= Len(s) /\ SubSeq(s, n + 1, n + Len(part)) = part

StringOperator(op, a, b) ==
  CASE op = "startsWith" -> IsAt(a, 0, b)
    [] op = "endsWith" -> Len(b) <= Len(a) /\ IsAt(a, Len(a) - Len(b), b)
    [] op = "matches" -> SafeRegexMatch(b, a)
    [] op = "contains" -> \E n \in 0..Len(a) : IsAt(a, n, b)

NumberOperator(op, a, b) ==
  CASE op = "lessThan" -> a < b
    [] op = "lessThanOrEqual" -> a <= b
    [] op = "greaterThan" -> a > b
    [] op = "greaterThanOrEqual" -> a >= b

(* A date that matches the expression need not be one.                     *)
DateOperator(op, a, b) ==
  /\ NaN \notin {a, b}
  /\ CASE op = "before" -> a < b [] op = "after" -> a > b

(* Both values have to be of the types an operator is for, and two objects *)
(* or arrays are never the same.                                           *)
Execute(op, a, b) ==
  CASE op = "in" -> a.type = b.type /\ a.type \notin {"object", "array"} /\ a.of = b.of
    [] op \in {"startsWith", "endsWith", "matches", "contains"} ->
         a.type = "string" /\ b.type = "string" /\ StringOperator(op, a.of, b.of)
    [] op \in {"lessThan", "lessThanOrEqual", "greaterThan", "greaterThanOrEqual"} ->
         a.type = "number" /\ b.type = "number" /\ NumberOperator(op, a.of, b.of)
    [] op \in {"before", "after"} -> IsDate(a) /\ IsDate(b) /\ DateOperator(op, ParseDate(a), ParseDate(b))
    [] op \in {"semVerEqual", "semVerLessThan", "semVerGreaterThan"} ->
         SemVerOperator(op, ParseSemver(a), ParseSemver(b))
    [] OTHER -> FALSE
=============================================================================
