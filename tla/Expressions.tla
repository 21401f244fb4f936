---------------------------- MODULE Expressions ----------------------------
(* Expression evaluation of the handwritten interpreter: the order in which *)
(* operands are evaluated and user code is called.  eval_expression         *)
(* (statements.rs) evaluates an expression in one go; the expressions of a  *)
(* generator that contain a yield go to eval_generator_expression           *)
(* (generator_eval.rs), where each operand has a continuation that keeps    *)
(* what was evaluated before it, since the operand may suspend.             *)
(*                                                                          *)
(* An expression is a tree of forms: a function that gives each place in it *)
(* a form, a place being the operands that lead there from the root.  For   *)
(* each form an evaluator has a list of steps: a letter evaluates that      *)
(* operand, a name is an operation on the values at hand.  Values are left  *)
(* out: where a value decides how to go on (a short circuit, a nullish      *)
(* object, a default) both ways are possible, and each operation may throw. *)
EXTENDS Naturals, SequencesExt

CONSTANT Programs   \* the expressions that are evaluated

VARIABLES
    program,    \* the expression under evaluation
    pending,    \* its subexpressions under evaluation, outermost first
    mode,       \* "run", "suspended", or how the evaluation has ended
    trace       \* the operations so far, each with its place in the tree

expressionVars == <<program, pending, mode, trace>>

----------------------------------------------------------------------------
(* Forms and the number of their operands.  A letter is an operand, in the  *)
(* order of the source; members are computed.  "One" marks the forms whose  *)
(* target has one operand: o.#p, o.p and super[k].                          *)
Arity ==
    [leaf       |-> 0,      \* a name, a literal, this, a function
     yield      |-> 1,      delegate  |-> 1,      await        |-> 1,
     class      |-> 1,      \* class extends a {}
     unary      |-> 1,      binary    |-> 2,
     logical    |-> 2,      \* a && b, a || b, a ?? b
     conditional |-> 3,     sequence  |-> 2,      template     |-> 2,
     array      |-> 2,      \* [...a, b]
     object     |-> 2,      \* {[a]: b}
     member     |-> 2,      optMember |-> 2,      \* o[k], o?.[k]
     call       |-> 2,      new       |-> 2,      \* f(a), new f(...a)
     method     |-> 3,      \* o[k](a)
     optCall    |-> 2,      \* f?.(a)
     optMethod  |-> 3,      \* o?.[k](a)
     methodOpt  |-> 3,      \* o[k]?.(a)
     tagged     |-> 2,      taggedMember |-> 3,   \* f`${a}`, o[k]`${a}`
     assign     |-> 3,      compound  |-> 3,      \* o[k] = a, o[k] += a
     logAssign  |-> 3,      \* o[k] ||= a
     assignOne  |-> 2,      \* o.#p = a
     nameAssign |-> 1,      nameLog   |-> 1,      \* x += a, x ||= a
     update     |-> 2,      updateOne |-> 1,      \* o[k]++, o.#p++
     delete     |-> 2,
     arrayPattern  |-> 4,   \* [o[k] = d] = r: operands r, o, k, d
     objectPattern |-> 4]   \* {[c]: o.x = d} = r: operands r, c, o, d

Forms == DOMAIN Arity

Above(place, i) == SubSeq(place, 1, i - 1)
IsTree(e) ==
    /\ IsFiniteSet(DOMAIN e)
    /\ <<>> \in DOMAIN e
    /\ \A place \in DOMAIN e :
         /\ e[place] \in Forms
         /\ \A i \in 1..Arity[e[place]] : Append(place, i) \in DOMAIN e
         /\ place \in Seq(Nat)
         /\ \A i \in 1..Len(place) :
              /\ Above(place, i) \in DOMAIN e
              /\ place[i] \in 1..Arity[e[Above(place, i)]]

ASSUME ExpressionsAssumption == \A e \in Programs : IsTree(e)

(* expression_contains_yield looks everywhere but into the tag of a tagged  *)
(* template and into classes.                                               *)
Overlooked == [tagged |-> {1}, taggedMember |-> {1, 2}, class |-> {1}]
OverlookedIn(form) ==
    IF form \in DOMAIN Overlooked THEN Overlooked[form] ELSE {}

Suspending == {"yield", "delegate"}

\* Mutant: nor into the computed keys of an object.
ContainsYieldButKeys(e, place) ==
    \E p \in DOMAIN e :
       /\ e[p] \in Suspending /\ IsPrefix(place, p)
       /\ \A i \in Len(place) + 1..Len(p) :
            /\ p[i] \notin OverlookedIn(e[Above(p, i)])
            /\ ~(e[Above(p, i)] = "object" /\ p[i] = 1)

ContainsYield(e, place) ==
    \E p \in DOMAIN e :
       /\ e[p] \in Suspending /\ IsPrefix(place, p)
       /\ \A i \in Len(place) + 1..Len(p) : p[i] \notin OverlookedIn(e[Above(p, i)])

----------------------------------------------------------------------------
(* The steps of eval_expression.  "get" reads a property and runs its       *)
(* getter, "peek" takes the getter itself for the value; "short" stops when *)
(* the value at hand decides, "nullish" when it is null or undefined,       *)
(* "default" skips the next operand unless the value is undefined, "branch" *)
(* goes on with one of two operands.                                        *)
DirectLeaves == [leaf |-> <<"value">>]
DirectClasses == [class |-> <<"a">>]

(* Every assignment reads its target first, a plain one too.                *)
DirectAssignments ==
    [assign |-> <<"a", "b", "get", "c", "put">>,
     compound |-> <<"a", "b", "get", "c", "apply", "put">>,
     logAssign |-> <<"a", "b", "get", "short", "c", "put">>,
     assignOne |-> <<"a", "get", "b", "put">>,
     nameAssign |-> <<"read", "a", "apply">>,
     nameLog |-> <<"read", "short", "a">>]

DirectBinary == [binary |-> <<"a", "b", "apply">>, logical |-> <<"a", "short", "b">>]
DirectUnary == [unary |-> <<"a", "apply">>, delete |-> <<"a", "b", "remove">>]
DirectLiterals == [array |-> <<"a", "iterate", "b">>, object |-> <<"a", "b">>]
DirectMembers ==
    [member |-> <<"a", "b", "get">>, optMember |-> <<"a", "nullish", "b", "get">>]

(* An optional call evaluates its callee twice: once to see whether it is   *)
(* nullish, once to call it.                                                *)
DirectCalls ==
    [call |-> <<"a", "b", "call">>,
     method |-> <<"a", "b", "peek", "c", "call">>,
     optCall |-> <<"a", "nullish", "a", "b", "call">>,
     optMethod |-> <<"a", "b", "peek", "c", "call">>,
     methodOpt |-> <<"a", "b", "get", "nullish", "a", "b", "peek", "c", "call">>]

DirectUpdates ==
    [update |-> <<"a", "b", "peek", "put">>, updateOne |-> <<"a", "get", "put">>]
DirectControl ==
    [sequence |-> <<"a", "b">>, conditional |-> <<"a", "branch">>,
     new |-> <<"a", "b", "iterate", "call">>]
DirectTagTarget == <<"a", "b", "get">>
DirectTemplates ==
    [template |-> <<"a", "b">>, tagged |-> <<"a", "b", "call">>,
     taggedMember |-> DirectTagTarget \o <<"c", "call">>]

(* A yield here does not suspend: it is its argument, or what remains of    *)
(* the iterable.                                                            *)
DirectYields ==
    [yield |-> <<"a">>, delegate |-> <<"a", "iterate">>, await |-> <<"a", "await">>]

(* assign_pattern: the default of an element comes before its target.       *)
DirectPatterns ==
    [arrayPattern |-> <<"a", "iterate", "default", "d", "b", "c", "put">>,
     objectPattern |-> <<"a", "b", "get", "default", "d", "c", "put">>]

DirectSteps == [form \in Forms |->
    CASE form \in DOMAIN DirectLeaves -> DirectLeaves[form]
      [] form \in DOMAIN DirectClasses -> DirectClasses[form]
      [] form \in DOMAIN DirectAssignments -> DirectAssignments[form]
      [] form \in DOMAIN DirectBinary -> DirectBinary[form]
      [] form \in DOMAIN DirectUnary -> DirectUnary[form]
      [] form \in DOMAIN DirectLiterals -> DirectLiterals[form]
      [] form \in DOMAIN DirectMembers -> DirectMembers[form]
      [] form \in DOMAIN DirectCalls -> DirectCalls[form]
      [] form \in DOMAIN DirectUpdates -> DirectUpdates[form]
      [] form \in DOMAIN DirectControl -> DirectControl[form]
      [] form \in DOMAIN DirectTemplates -> DirectTemplates[form]
      [] form \in DOMAIN DirectYields -> DirectYields[form]
      [] form \in DOMAIN DirectPatterns -> DirectPatterns[form]]

----------------------------------------------------------------------------
(* The steps of eval_generator_expression.                                  *)
GeneratorArrays == [array |-> <<"a", "iterate", "b">>]
GeneratorObjects == [object |-> <<"a", "b">>]
GeneratorTemplates == [template |-> <<"a", "b">>]
GeneratorMembers ==
    [member |-> <<"a", "b", "get">>, optMember |-> <<"a", "nullish", "b", "get">>]

(* The target of a call, then its arguments.  The call of an optional       *)
(* member stops at a nullish object and, as its callee is undefined then,   *)
(* at any nullish callee.                                                   *)
GeneratorTarget == <<"a", "b", "get">>
GeneratorOptTarget == <<"a", "nullish", "b", "get", "nullish">>
GeneratorCalls ==
    [call |-> <<"a", "b", "call">>, optCall |-> <<"a", "nullish", "b", "call">>,
     method |-> GeneratorTarget \o <<"c", "call">>,
     methodOpt |-> GeneratorTarget \o <<"nullish", "c", "call">>,
     optMethod |-> GeneratorOptTarget \o <<"c", "call">>]

GeneratorArguments == <<"b", "iterate">>
GeneratorNews == [new |-> <<"a">> \o GeneratorArguments \o <<"call">>]
GeneratorTagged == [tagged |-> <<"a", "b", "call">>,
                    taggedMember |-> GeneratorTarget \o <<"c", "call">>]
GeneratorControl == [sequence |-> <<"a", "b">>, conditional |-> <<"a", "branch">>]

GeneratorUpdateOne == [updateOne |-> <<"a", "get", "put">>]
GeneratorUpdate == [update |-> <<"a", "b", "get", "put">>]
GeneratorYields ==
    [yield |-> <<"a", "yield">>, delegate |-> <<"a", "iterate", "delegate">>]
GeneratorAwait == [await |-> <<"a", "await">>]
GeneratorUnary == [unary |-> <<"a", "apply">>, delete |-> <<"a", "b", "remove">>]

GeneratorBinaryRightFirst ==
    [binary |-> <<"b", "a", "apply">>, logical |-> <<"a", "short", "b">>]
GeneratorBinary ==
    [binary |-> <<"a", "b", "apply">>, logical |-> <<"a", "short", "b">>]

GeneratorNameAssignments ==
    [nameAssign |-> <<"read", "a", "apply">>, nameLog |-> <<"read", "short", "a">>]
GeneratorAssignOne == [assignOne |-> <<"a", "get", "b", "put">>]
GeneratorAssignments ==
    [assign |-> <<"a", "b", "get", "c", "put">>,
     compound |-> <<"a", "b", "get", "c", "apply", "put">>,
     logAssign |-> <<"a", "b", "get", "short", "c", "put">>]

GeneratorDefault == <<"default", "d">>
GeneratorPatternTarget(operands) == operands \o <<"put">>
GeneratorArrayPattern ==
    [arrayPattern |-> <<"a", "iterate">> \o GeneratorDefault
                      \o GeneratorPatternTarget(<<"b", "c">>)]
GeneratorObjectPattern ==
    [objectPattern |-> <<"a", "b", "get">> \o GeneratorDefault
                       \o GeneratorPatternTarget(<<"c">>)]

GeneratorSteps == [form \in Forms \ {"leaf", "class"} |->
    CASE form \in DOMAIN GeneratorArrays -> GeneratorArrays[form]
      [] form \in DOMAIN GeneratorObjects -> GeneratorObjects[form]
      [] form \in DOMAIN GeneratorTemplates -> GeneratorTemplates[form]
      [] form \in DOMAIN GeneratorMembers -> GeneratorMembers[form]
      [] form \in DOMAIN GeneratorCalls -> GeneratorCalls[form]
      [] form \in DOMAIN GeneratorNews -> GeneratorNews[form]
      [] form \in DOMAIN GeneratorTagged -> GeneratorTagged[form]
      [] form \in DOMAIN GeneratorControl -> GeneratorControl[form]
      [] form \in DOMAIN GeneratorUpdateOne -> GeneratorUpdateOne[form]
      [] form \in DOMAIN GeneratorUpdate -> GeneratorUpdate[form]
      [] form \in DOMAIN GeneratorYields -> GeneratorYields[form]
      [] form \in DOMAIN GeneratorAwait -> GeneratorAwait[form]
      [] form \in DOMAIN GeneratorUnary -> GeneratorUnary[form]
      [] form \in DOMAIN GeneratorBinary -> GeneratorBinary[form]
      [] form \in DOMAIN GeneratorNameAssignments -> GeneratorNameAssignments[form]
      [] form \in DOMAIN GeneratorAssignOne -> GeneratorAssignOne[form]
      [] form \in DOMAIN GeneratorAssignments -> GeneratorAssignments[form]
      [] form \in DOMAIN GeneratorArrayPattern -> GeneratorArrayPattern[form]
      [] form \in DOMAIN GeneratorObjectPattern -> GeneratorObjectPattern[form]]

(* The operations.  Reads and writes run getters and setters, calls and     *)
(* iterations run functions of the program, await runs the microtasks.      *)
Reads == {"get", "peek", "read"}
Writes == {"put", "remove"}
Invokes == {"call", "await"}
Iterates == {"iterate"}
Computes == {"value", "apply"}
Operations == Reads \cup Writes \cup Invokes \cup Iterates \cup Computes

----------------------------------------------------------------------------
(* A frame is an expression under evaluation: its place in the program, the *)
(* evaluator and the next step.                                             *)
Blank == [place \in {<<>>} |-> "leaf"]
Level == Len(pending)
Current == Last(pending)
Expression(e, place, generator) ==
    [place |-> place, step |-> 1, gen |-> generator /\ ContainsYield(e, place)]
StepsOf(form, gen) == IF gen THEN GeneratorSteps[form] ELSE DirectSteps[form]
Steps(frame) == StepsOf(program[frame.place], frame.gen)
AtStep == mode = "run" /\ Level > 0 /\ Current.step <= Len(Steps(Current))
Step == Steps(Current)[Current.step]
Position == [a |-> 1, b |-> 2, c |-> 3, d |-> 4]

GoTo(step) == [pending EXCEPT ![Level].step = step]
Past(frame) == Len(Steps(frame)) + 1
Performed(op) == Append(trace, <<op, Current.place>>)
Operand(i) == Expression(program, Append(Current.place, i), Current.gen)

(* A statement of a generator body evaluates its expression.                *)
BeginExpression ==
    /\ mode = "idle"
    /\ \E e \in Programs :
         /\ program' = e
         /\ pending' = <<Expression(e, <<>>, TRUE)>>
    /\ mode' = "run"
    /\ UNCHANGED trace

(* The statement has taken the value or the completion.                     *)
TakeResult ==
    /\ mode \in {"done", "abrupt"}
    /\ program' = Blank
    /\ pending' = <<>>
    /\ mode' = "idle"
    /\ trace' = <<>>

EvaluateOperand ==
    /\ AtStep /\ Step \in DOMAIN Position
    /\ pending' = Append(GoTo(Current.step + 1), Operand(Position[Step]))
    /\ UNCHANGED <<program, mode, trace>>

(* The continuation of an operand, or the return of eval_expression.        *)
Complete ==
    /\ mode = "run" /\ Level > 0 /\ Current.step > Len(Steps(Current))
    /\ pending' = Front(pending)
    /\ mode' = IF Level = 1 THEN "done" ELSE "run"
    /\ UNCHANGED <<program, trace>>

Perform ==
    /\ AtStep /\ Step \in Operations
    /\ pending' = GoTo(Current.step + 1)
    /\ trace' = Performed(Step)
    /\ UNCHANGED <<program, mode>>

Stops == AtStep /\ Step \in {"short", "nullish"}
         /\ pending' = GoTo(Past(Current))
         /\ UNCHANGED <<program, mode, trace>>
GoesOn == AtStep /\ Step \in {"short", "nullish", "default"}
          /\ pending' = GoTo(Current.step + 1)
          /\ UNCHANGED <<program, mode, trace>>
HasValue == AtStep /\ Step = "default"
            /\ pending' = GoTo(Current.step + 2)
            /\ UNCHANGED <<program, mode, trace>>
Branch == AtStep /\ Step = "branch"
          /\ \E i \in {2, 3} : pending' = Append(GoTo(Current.step + 1), Operand(i))
          /\ UNCHANGED <<program, mode, trace>>

(* A yield suspends all the expressions under evaluation; so does a yield*  *)
(* for each value of its inner iterator, until that is done.                *)
SuspendAtYield ==
    /\ AtStep /\ Step = "yield"
    /\ pending' = GoTo(Current.step + 1)
    /\ mode' = "suspended"
    /\ trace' = Performed("yield")
    /\ UNCHANGED program

Delegate ==
    /\ AtStep /\ Step = "delegate"
    /\ \/ mode' = "suspended" /\ UNCHANGED pending
       \/ pending' = GoTo(Current.step + 1) /\ UNCHANGED mode
    /\ UNCHANGED <<program, trace>>

ResumeNext ==
    /\ mode = "suspended"
    /\ mode' = "run"
    /\ UNCHANGED <<program, pending, trace>>

(* throw() or return() of the caller at a yield, or an operation that       *)
(* throws: nothing else of the expression is evaluated.                     *)
Abrupt ==
    /\ mode = "suspended" \/ (AtStep /\ Step \notin DOMAIN Position)
    /\ mode' = "abrupt"
    /\ pending' = <<>>
    /\ UNCHANGED <<program, trace>>

ExpressionsInit ==
    /\ program = Blank
    /\ pending = <<>>
    /\ mode = "idle"
    /\ trace = <<>>

ExpressionsNext ==
    \/ BeginExpression \/ TakeResult \/ EvaluateOperand \/ Complete \/ Perform
    \/ Stops \/ GoesOn \/ HasValue \/ Branch
    \/ SuspendAtYield \/ Delegate \/ ResumeNext \/ Abrupt

ExpressionsSpec == ExpressionsInit /\ [][ExpressionsNext]_expressionVars

----------------------------------------------------------------------------
(* ECMAScript's order of evaluation, as the set of traces that an           *)
(* expression can have, given those of its operands, K: A ** B is a trace   *)
(* of A and then one of B.  D names the known departures of the evaluators, *)
(* gen the evaluator (an optional chain ends at its first link here).       *)
A ** B == {a \o b : a \in A, b \in B}
Nothing == {<<>>}
Perhaps(A) == Nothing \cup A
Either(A, B) == A \cup B

OrderOf(form, place, K, gen, D) ==
    LET Op(op) == {<<<<op, place>>>>}
        Departs(d) == d \in D /\ ~gen
        EarlyGet == IF "earlyRead" \in D THEN Op("get") ELSE Nothing
        Get == IF Departs("getterTaken") THEN Op("peek") ELSE Op("get")
        Again(A) == IF Departs("calleeTwice") THEN A ELSE Nothing
        Default(d, target) == IF "defaultFirst" \in D
                              THEN Perhaps(d) ** target
                              ELSE target ** Perhaps(d)
    IN  CASE form = "leaf" -> Op("value")
          [] form = "class" -> K[1]
          [] form = "await" -> K[1] ** Op("await")
          [] form = "yield" -> IF Departs("yieldLost") THEN K[1]
                                 ELSE K[1] ** Op("yield")
          [] form = "delegate" -> K[1] ** Op("iterate")
          [] form = "unary" -> K[1] ** Op("apply")
          [] form = "binary" -> K[1] ** K[2] ** Op("apply")
          [] form = "logical" -> K[1] ** Perhaps(K[2])
          [] form = "conditional" -> K[1] ** Either(K[2], K[3])
          [] form \in {"sequence", "template", "object"} -> K[1] ** K[2]
          [] form = "array" -> K[1] ** Op("iterate") ** K[2]
          [] form = "member" -> K[1] ** K[2] ** Op("get")
          [] form = "optMember" -> K[1] ** Perhaps(K[2] ** Op("get"))
          [] form \in {"call", "tagged"} -> K[1] ** K[2] ** Op("call")
          [] form = "new" -> K[1] ** K[2] ** Op("iterate") ** Op("call")
          [] form = "method" -> K[1] ** K[2] ** Get ** K[3] ** Op("call")
          [] form = "taggedMember" ->
                 K[1] ** K[2] ** Op("get") ** K[3] ** Op("call")
          [] form = "optCall" ->
                 K[1] ** Perhaps(Again(K[1]) ** K[2] ** Op("call"))
          [] form = "optMethod" ->
                 IF Departs("chainLost")
                 THEN K[1] ** K[2] ** Get ** K[3] ** Op("call")
                 ELSE K[1] ** Perhaps(K[2] ** Op("get") **
                      (IF "chainLost" \in D THEN Perhaps(K[3] ** Op("call"))
                       ELSE K[3] ** Op("call")))
          [] form = "methodOpt" ->
                 K[1] ** K[2] ** Op("get") **
                 Perhaps(Again(K[1] ** K[2] ** Get) ** K[3] ** Op("call"))
          [] form = "assign" -> K[1] ** K[2] ** EarlyGet ** K[3] ** Op("put")
          [] form = "assignOne" -> K[1] ** EarlyGet ** K[2] ** Op("put")
          [] form = "compound" ->
                 K[1] ** K[2] ** Op("get") ** K[3] ** Op("apply") ** Op("put")
          [] form = "logAssign" ->
                 K[1] ** K[2] ** Op("get") ** Perhaps(K[3] ** Op("put"))
          [] form = "nameAssign" -> Op("read") ** K[1] ** Op("apply")
          [] form = "nameLog" -> Op("read") ** Perhaps(K[1])
          [] form = "update" -> K[1] ** K[2] ** Get ** Op("put")
          [] form = "updateOne" -> K[1] ** Op("get") ** Op("put")
          [] form = "delete" -> K[1] ** K[2] ** Op("remove")
          [] form = "arrayPattern" ->
                 K[1] ** Op("iterate") ** Default(K[4], K[2] ** K[3]) ** Op("put")
          [] OTHER ->   \* objectPattern; its target stands before its read
                 IF "defaultFirst" \in D
                 THEN K[1] ** K[2] ** Op("get") ** Default(K[4], K[3]) ** Op("put")
                 ELSE K[1] ** K[2] ** K[3] ** Op("get") ** Perhaps(K[4]) ** Op("put")

(* The traces of each subexpression of a tree.  An expression is up to the  *)
(* generator evaluator if it has a yield and so have those it is part of.   *)
InGenerator(e, place) ==
    \A n \in 0..Len(place) : ContainsYield(e, SubSeq(place, 1, n))

Order(e, D) ==
    LET order[place \in DOMAIN e] ==
            OrderOf(e[place], place,
                    [i \in 1..Arity[e[place]] |-> order[Append(place, i)]],
                    InGenerator(e, place), D)
    IN  order

(* The departures: a plain assignment reads its target before its right     *)
(* side; a method call and an update outside a generator take the getter of *)
(* the property for its value; an optional call outside a generator         *)
(* evaluates its callee twice; o?.[k](a) does not stop at a nullish o       *)
(* outside a generator, and stops at any nullish method in one; a pattern   *)
(* evaluates a default before the target it is for; a yield that            *)
(* expression_contains_yield overlooks is its argument.                     *)
Departures == {"earlyRead", "getterTaken", "calleeTwice", "chainLost",
               "defaultFirst", "yieldLost"}

(* Both evaluators perform the operations of an expression in the order of  *)
(* ECMAScript, each once, and none after an operation that throws or a      *)
(* yield that is resumed with throw() or return(), wherever the expression  *)
(* is suspended.  They depart from it in the ways that Departures names.    *)
OrderOfEvaluation ==
    LET order == Order(program, Departures)[<<>>]
    IN  /\ mode = "done" => trace \in order
        /\ mode = "abrupt" => \E t \in order : IsPrefix(trace, t)

(* A yield of a generator reaches the evaluator that can suspend it, except *)
(* in the tag of a tagged template and in the heritage of a class.          *)
EveryYieldSuspends ==
    \A i \in 1..Level :
       program[pending[i].place] \in Suspending /\ ~pending[i].gen
         => \E j \in 1..i - 1 :
              pending[i].place[j] \in OverlookedIn(program[pending[j].place])
=============================================================================
