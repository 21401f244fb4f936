--------------------------- MODULE ZippedIterators ----------------------------
(***************************************************************************)
(* Iterator.zip and Iterator.zipKeyed of runtime/iterator.rs.  The call    *)
(* opens the items (zip takes them from an input iterator, zipKeyed from   *)
(* the properties of an object), reads the padding and makes a helper.     *)
(* closeIteratorList is a loop over return() calls, from the last position *)
(* down, that drops each position it has dealt with.  The code tests for   *)
(* "no error" with error === undefined, so that a thrown undefined counts  *)
(* as none.                                                                *)
(***************************************************************************)
EXTENDS IteratorProtocol

ZipInit ==
    /\ kind \in Zips
    /\ iter = [s \in Slots |-> IF kind = "zip" /\ s = Input THEN "open" ELSE "none"]
    /\ mode \in {"shortest", "longest", "strict"}
    /\ index = 0
    /\ held = {}
    /\ ended = {}
    /\ hasYielded = FALSE

Count == index   \* iters.length
Last(set) == CHOOSE j \in set : \A k \in set : k <= j
First(set) == CHOOSE j \in set : \A k \in set : j <= k

Raised(f, value) == [f EXCEPT !.threw = TRUE, !.error = value]

-----------------------------------------------------------------------------
\* closeIteratorList: the positions of a list still to visit below position i
Left(list, f, i) == {j \in list : j < i /\ j # f.skip}
\* Mutant: from the first to the last.
UpMutant(list, f, i) == First(Left(list, f, i))
Down(list, f, i) == Last(Left(list, f, i))

NoError(f) == f.error \in {"none", "undefined"}

\* It throws the error it was given, without one the first of a return().
\* Mutant: an error of return() is forgotten.
ListForgivesMutant(f) == ~NoError(f)
ListThrows(f) == ~NoError(f) \/ f.closeError

\* What the caller does after the list.
AfterList(f, it) ==
    \/ \* next() and return(): end with the error, if there is one
       /\ f.call # "create"
       /\ Ends(f, IF ListThrows(f) \/ f.then = "throw" THEN "error" ELSE "done", it)
       /\ IF f.call = "return" /\ ListThrows(f) /\ ~done THEN Departs("zipUnfinished") ELSE Stays
       /\ UNCHANGED phase
    \/ \* an element of zip: close the input iterator
       /\ f.then = "afterElement" /\ kind = "zip" /\ ~f.closeError
       /\ GoesOn([f EXCEPT !.at = "closeInput", !.i = Input], it)
       /\ Stays
       /\ UNCHANGED <<executing, phase>>
    \/ \* a property or padding of zipKeyed that threw undefined: the next key
       /\ f.then \in {"afterElement", "afterPadding"} /\ kind = "zipKeyed" /\ ~ListThrows(f)
       /\ IF f.then = "afterElement" \/ f.pos < Count
          THEN /\ GoesOn([f EXCEPT !.at = IF f.then = "afterElement" THEN "element" ELSE "padOpen",
                                   !.pos = IF f.then = "afterElement" THEN 0 ELSE @ + 1,
                                   !.then = "none", !.error = "none"], it)
               /\ UNCHANGED <<executing, phase>>
          ELSE /\ Ends(f, "value", it)
               /\ phase' = "ready"
       /\ Departs("undefinedThrown")
    \/ \* everything else while the helper is made
       /\ f.call = "create"
       /\ ~(f.then = "afterElement" /\ kind = "zip" /\ ~f.closeError)
       /\ ~(f.then \in {"afterElement", "afterPadding"} /\ kind = "zipKeyed" /\ ~ListThrows(f))
       /\ Ends(f, "error", it)
       /\ IF f.then = "afterElement" /\ kind = "zip" /\ f.error = "undefined"
          THEN Departs("undefinedThrown")   \* the input iterator stays open
          ELSE Stays
       /\ UNCHANGED phase

\* The code on top comes to closeIteratorList; list is openIters by then.
ClosesList(f, list, it) ==
    /\ held' = list
    /\ IF Left(list, f, Padding) = {} THEN AfterList(f, it)
       ELSE /\ GoesOn([f EXCEPT !.at = "closeList", !.i = Down(list, f, Padding)], it)
            /\ Stays
            /\ UNCHANGED <<executing, phase>>

\* return() of a listed iterator has answered or thrown, or could not be read
CloseListed(outcome) ==
    /\ AtSite("closeList")
    /\ LET f == [Threw(Top, outcome) EXCEPT
                   !.closeError = @ \/ (outcome = "throw" /\ NoError(Top))]
           list == held \ {Top.i}
       IN /\ held' = list
          /\ IF Left(list, f, Top.i) # {}
             THEN /\ GoesOn([f EXCEPT !.i = Down(list, f, Top.i)], iter)
                  /\ Stays
                  /\ UNCHANGED <<executing, phase, done>>
             ELSE /\ AfterList(f, iter)
                  /\ done' = (done \/ (f.call = "return" /\ ~ListThrows(f)))
    /\ UNCHANGED <<kind, mode, ended, hasYielded, ofHelpers, index>>

-----------------------------------------------------------------------------
\* Making the helper.
MakesHelper(f, it) ==
    /\ Ends(f, "value", it)
    /\ phase' = "ready"
    /\ done' = (Count = 0)

StartZip ==
    /\ phase = "new" /\ kind \in Zips
    /\ phase' = "over"    \* until MakesHelper
    /\ Begins(Frame("create", IF kind = "zip" THEN "input" ELSE "element", Input), iter)
    /\ Stays
    /\ UNCHANGED <<kind, done, executing, ofHelpers, index, ofZips>>

\* all items are open: the padding, or the helper
AfterItems(f, it) ==
    \/ /\ mode = "longest"
       /\ GoesOn([f EXCEPT !.at = "padOpen", !.i = Padding, !.pos = 1], it)
       /\ kind = "zip" \/ Count > 0
       /\ UNCHANGED <<executing, phase, done>>
    \/ MakesHelper(f, it)

\* zip: next() of the input iterator
InputAnswers(outcome) ==
    /\ AtSite("input")
    /\ \/ /\ outcome = "value" /\ index < MaxItems
          /\ GoesOn([Top EXCEPT !.at = "element"], iter)
          /\ Stays
          /\ UNCHANGED <<executing, phase, done, held>>
       \/ /\ outcome = "done"
          /\ AfterItems(Top, [iter EXCEPT ![Input] = "ended"])
          /\ Stays
          /\ UNCHANGED held
       \/ /\ outcome = "throw"
          /\ \E value \in {"error", "undefined"} :
                ClosesList([Raised(Top, value) EXCEPT !.then = "throw"], held,
                           [iter EXCEPT ![Input] = "failed"])
          /\ UNCHANGED done
       \/ \* done or value of the answer cannot be read: nothing is closed
          /\ outcome = "unreadable"
          /\ Ends(Raised(Top, "error"), "error", [iter EXCEPT ![Input] = "failed"])
          /\ Departs("leaks")
          /\ UNCHANGED <<phase, done, held>>
    /\ UNCHANGED <<kind, mode, ended, hasYielded, ofHelpers, index>>

\* getIteratorFlattenable of zip; a property, its iterator and next of zipKeyed
ElementAnswers(outcome) ==
    /\ AtSite("element")
    /\ \/ /\ outcome = "value" /\ index < MaxItems
          /\ index' = index + 1
          /\ held' = held \cup {index + 1}
          /\ GoesOn([Top EXCEPT !.at = IF kind = "zip" THEN "input" ELSE "element"],
                    [iter EXCEPT ![index + 1] = "open"])
          /\ Stays
          /\ UNCHANGED <<executing, phase, done>>
       \/ /\ outcome = "done" /\ kind = "zipKeyed"
          /\ AfterItems(Top, iter)
          /\ Stays
          /\ UNCHANGED <<index, held>>
       \/ /\ outcome = "throw"
          /\ \E value \in {"error", "undefined"} :
                ClosesList([Raised(Top, value) EXCEPT !.then = "afterElement"], held, iter)
          /\ UNCHANGED <<index, done>>
    /\ UNCHANGED <<kind, mode, ended, hasYielded, ofHelpers>>

\* closeInputIterator(inputIterRecord, e): the error goes on, but not undefined
CloseInput(outcome) ==
    /\ AtSite("closeInput")
    /\ IF outcome = "throw" \/ ~NoError(Top)
       THEN Ends(Top, "error", iter) /\ Stays
       ELSE /\ GoesOn([Top EXCEPT !.at = "input", !.then = "none", !.error = "none"], iter)
            /\ Departs("undefinedThrown")
            /\ UNCHANGED executing
    /\ UNCHANGED <<kind, phase, done, ofHelpers, index, ofZips>>

\* The padding: an iterator for zip, for zipKeyed a property for each key.
\* "leak": its Symbol.iterator or next cannot be read, or it is no object (zipKeyed).
OpenPadding(outcome) ==
    /\ AtSite("padOpen")
    /\ \/ /\ outcome = "value" /\ kind = "zip"
          /\ GoesOn([Top EXCEPT !.at = IF Count = 0 THEN "padClose" ELSE "padNext"],
                    [iter EXCEPT ![Padding] = "open"])
          /\ Stays
          /\ UNCHANGED <<executing, phase, done, held>>
       \/ /\ outcome = "value" /\ kind = "zipKeyed"
          /\ IF Top.pos < Count
             THEN GoesOn([Top EXCEPT !.pos = @ + 1], iter) /\ UNCHANGED <<executing, phase, done>>
             ELSE MakesHelper(Top, iter)
          /\ Stays
          /\ UNCHANGED held
       \/ /\ outcome = "throw"
          /\ \E value \in {"error", "undefined"} :
                ClosesList([Raised(Top, value) EXCEPT !.then = "afterPadding"], held, iter)
          /\ UNCHANGED done
       \/ /\ outcome = "leak" /\ (kind = "zip" \/ Top.pos = 1)
          /\ Ends(Raised(Top, "error"), "error", iter)
          /\ Departs("leaks")
          /\ UNCHANGED <<phase, done, held>>
    /\ UNCHANGED <<kind, mode, ended, hasYielded, ofHelpers, index>>

NextPadding(outcome) ==
    /\ AtSite("padNext")
    /\ \/ /\ outcome = "value"
          /\ GoesOn(IF Top.pos < Count THEN [Top EXCEPT !.pos = @ + 1]
                    ELSE [Top EXCEPT !.at = "padClose"], iter)
          /\ Stays
          /\ UNCHANGED <<executing, phase, done, held>>
       \/ /\ outcome = "done"
          /\ MakesHelper(Top, [iter EXCEPT ![Padding] = "ended"])
          /\ Stays
          /\ UNCHANGED held
       \/ /\ outcome = "throw"
          /\ ClosesList([Raised(Top, "error") EXCEPT !.then = "throw"], held,
                        [iter EXCEPT ![Padding] = "failed"])
          /\ UNCHANGED done
       \/ \* completionError stays undefined, and usingIterator true
          /\ outcome = "throwUndefined"
          /\ GoesOn([Raised(Top, "undefined") EXCEPT !.at = "padClose"],
                    [iter EXCEPT ![Padding] = "failed"])
          /\ Departs("undefinedThrown")
          /\ UNCHANGED <<executing, phase, done, held>>
    /\ UNCHANGED <<kind, mode, ended, hasYielded, ofHelpers, index>>

ClosePadding(outcome) ==
    /\ AtSite("padClose")
    /\ IF outcome = "answer"
       THEN MakesHelper(Top, iter) /\ Stays /\ UNCHANGED held
       ELSE /\ \E value \in {"error", "undefined"} :
                  ClosesList([Raised(Top, value) EXCEPT !.then = "throw"], held, iter)
            /\ UNCHANGED done
    /\ UNCHANGED <<kind, mode, ended, hasYielded, ofHelpers, index>>

-----------------------------------------------------------------------------
\* helper.next(): a round over the iterators that have not ended
MayEnterZip == phase = "ready" /\ kind \in Zips /\ ~executing /\ ~done

ToAdvance(i, over) == {j \in 1..Count : j > i /\ j \notin over}

NextOfZip ==
    /\ MayEnterZip
    /\ executing' = TRUE
    /\ Begins(Frame("next", "advance", First(ToAdvance(0, ended))), iter)
    /\ Stays
    /\ UNCHANGED <<kind, phase, done, ofHelpers, index, ofZips>>

RoundGoesOn(i, over, it) ==
    /\ ended' = over
    /\ IF ToAdvance(i, over) # {}
       THEN /\ GoesOn([Top EXCEPT !.i = First(ToAdvance(i, over))], it)
            /\ UNCHANGED <<executing, done, hasYielded>>
       ELSE /\ done' = (mode = "longest" /\ over = 1..Count)
            /\ Ends(Top, IF done' THEN "done" ELSE "value", it)
            /\ hasYielded' = (hasYielded \/ ~done')
    /\ Stays
    /\ UNCHANGED phase

\* the round ends the helper: what is held is closed, except for position skip
Finishes(f, list, it) ==
    /\ done' = TRUE
    /\ ClosesList(f, list, it)
    /\ UNCHANGED hasYielded

\* An answer that cannot be read: the finally block resets executing, and that is all.
Unreadable ==
    /\ Ends(Raised(Top, "error"), "error", [iter EXCEPT ![Top.i] = "failed"])
    /\ Departs("zipUnfinished")
    /\ UNCHANGED <<phase, done, held, ended, hasYielded>>

\* Mutant: an item that has ended stays listed.
HeldAfterEndMutant(i) == held
HeldAfterEnd(i) == held \ {i}

AdvanceZipped(outcome) ==
    /\ kind \in Zips /\ AtSite("advance")
    /\ LET i == Top.i
           after == [iter EXCEPT ![i] = "ended"]
       IN \/ /\ outcome = "value"
             /\ RoundGoesOn(i, ended, iter)
             /\ UNCHANGED held
          \/ outcome = "unreadable" /\ Unreadable
          \/ /\ outcome = "throw"
             /\ Finishes([Raised(Top, "error") EXCEPT !.then = "throw", !.skip = i], held,
                         [iter EXCEPT ![i] = "failed"])
             /\ UNCHANGED ended
          \/ /\ outcome = "done" /\ mode = "shortest"
             /\ ended' = ended \cup {i}
             /\ Finishes([Top EXCEPT !.skip = i], HeldAfterEnd(i), after)
          \/ /\ outcome = "done" /\ mode = "strict" /\ i # 1
             /\ ended' = ended \cup {i}
             /\ Finishes([Top EXCEPT !.error = "error", !.then = "throw"], HeldAfterEnd(i), after)
          \/ /\ outcome = "done" /\ mode = "strict" /\ i = 1
             /\ ended' = ended \cup {i}
             /\ held' = HeldAfterEnd(i)
             /\ IF Count = 1 THEN Ends(Top, "done", after) /\ done' = TRUE
                ELSE /\ GoesOn([Top EXCEPT !.at = "strict", !.i = 2], after)
                     /\ UNCHANGED <<executing, done>>
             /\ Stays
             /\ UNCHANGED <<phase, hasYielded>>
          \/ /\ outcome = "done" /\ mode = "longest"
             /\ held' = HeldAfterEnd(i)
             /\ RoundGoesOn(i, ended \cup {i}, after)
    /\ UNCHANGED <<kind, mode, ofHelpers, index>>

\* strict: the first has ended, the others must end in this round
AdvanceStrict(outcome) ==
    /\ AtSite("strict")
    /\ LET i == Top.i
           after == [iter EXCEPT ![i] = "ended"]
       IN \/ /\ outcome = "done"
             /\ ended' = ended \cup {i}
             /\ held' = HeldAfterEnd(i)
             /\ IF i < Count
                THEN GoesOn([Top EXCEPT !.i = i + 1], after) /\ UNCHANGED <<executing, done>>
                ELSE Ends(Top, "done", after) /\ done' = TRUE
             /\ Stays
             /\ UNCHANGED <<phase, hasYielded>>
          \/ /\ outcome = "value"
             /\ Finishes([Top EXCEPT !.error = "error", !.then = "throw"], held, iter)
             /\ UNCHANGED ended
          \/ /\ outcome = "throw"
             /\ Finishes([Raised(Top, "error") EXCEPT !.then = "throw", !.skip = i], held,
                         [iter EXCEPT ![i] = "failed"])
             /\ UNCHANGED ended
          \/ outcome = "unreadable" /\ Unreadable
    /\ UNCHANGED <<kind, mode, ofHelpers, index>>

\* helper.return(): before the first round it is done at once, later only when
\* the list has been closed
ReturnOfZip ==
    /\ MayEnterZip
    /\ done' = (~hasYielded \/ held = {})
    /\ executing' = (hasYielded /\ held # {})
    /\ IF held = {} THEN UNCHANGED <<frames, iter, misuse, lost>>
       ELSE Begins(Frame("return", "closeList", Last(held)), iter)
    /\ Stays
    /\ UNCHANGED <<kind, phase, ofHelpers, index, ofZips>>

ZipOutcomes == {"value", "done", "throw", "unreadable"}

ZipNext ==
    \/ StartZip \/ NextOfZip \/ ReturnOfZip
    \/ \E outcome \in ZipOutcomes :
          InputAnswers(outcome) \/ AdvanceZipped(outcome) \/ AdvanceStrict(outcome)
    \/ \E outcome \in {"value", "done", "throw"} : ElementAnswers(outcome)
    \/ \E outcome \in {"value", "throw", "leak"} : OpenPadding(outcome)
    \/ \E outcome \in {"value", "done", "throw", "throwUndefined"} : NextPadding(outcome)
    \/ \E outcome \in {"answer", "throw"} :
          CloseInput(outcome) \/ ClosePadding(outcome) \/ CloseListed(outcome)
===============================================================================
