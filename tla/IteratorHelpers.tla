--------------------------- MODULE IteratorHelpers ----------------------------
(***************************************************************************)
(* The helpers over one iterator (slot 1), flatMap with its inner iterator *)
(* in slot 2, and concat over all items: runtime/iterator.rs up to line    *)
(* 964.  "from" is the wrapper that Iterator.from makes: it hands on what  *)
(* next() answers without looking at it, so that its slot stays open until *)
(* a call throws or return() is called.                                    *)
(***************************************************************************)
EXTENDS IteratorProtocol

Source == 1
Inner == 2

-----------------------------------------------------------------------------
\* Making a helper or starting to consume.  A bad argument closes the
\* iterator and throws.
TakesArgument == (Transformers \cup Consumers) \ {"from", "toArray"}

HelperInit ==
    /\ kind \in Kinds \ Zips
    /\ iter = [s \in Slots |-> IF s = Source /\ kind # "concat" THEN "open" ELSE "none"]
    /\ remaining \in (IF kind \in {"take", "drop"} THEN 0..MaxRemaining ELSE {0})
    /\ current = 0
    /\ index = 0

RejectArgument ==
    /\ phase = "new" /\ kind \in TakesArgument
    /\ phase' = "over"
    /\ Begins([Frame("create", "close", Source) EXCEPT !.then = "argument", !.threw = TRUE],
              iter)
    /\ Stays
    /\ UNCHANGED <<kind, done, executing, ofHelpers, index, ofZips>>

\* GetIteratorDirect: the property next may be a getter that throws
GetIteratorDirect(ok) ==
    /\ phase = "new" /\ kind \notin Zips
    /\ phase' = IF ok /\ kind \notin Consumers THEN "ready" ELSE "over"
    /\ IF ok /\ kind \in Consumers
       THEN Begins([Frame("consume", "advance", Source) EXCEPT
                      !.then = IF kind = "reduce" THEN "first" ELSE "none"], iter)
       ELSE /\ iter' = IF ok \/ kind = "concat" THEN iter ELSE [iter EXCEPT ![Source] = "failed"]
            /\ UNCHANGED <<frames, misuse, lost>>
    /\ Stays
    /\ UNCHANGED <<kind, done, executing, ofHelpers, index, ofZips>>

\* reduce with an initial value takes no first element
ReduceFromInitial ==
    /\ phase = "new" /\ kind = "reduce"
    /\ phase' = "over"
    /\ Begins(Frame("consume", "advance", Source), iter)
    /\ Stays
    /\ UNCHANGED <<kind, done, executing, ofHelpers, index, ofZips>>

-----------------------------------------------------------------------------
\* helper.next().  When it is executing it throws, when it is done it answers
\* {done: true}; neither changes anything.
MayEnter == phase = "ready" /\ ~executing /\ ~done

NextOfTransformer ==
    /\ MayEnter /\ kind \in Transformers
    /\ ~(kind = "take" /\ remaining = 0)
    /\ executing' = TRUE
    /\ Begins(Frame("next", "advance", IF current # 0 THEN current ELSE Source), iter)
    /\ remaining' = IF kind = "take" THEN remaining - 1 ELSE remaining
    /\ Stays
    /\ UNCHANGED <<kind, phase, done, current, index, ofZips>>

\* take() has given all it may
NextOfSpentTake ==
    /\ MayEnter /\ kind = "take" /\ remaining = 0
    /\ done' = TRUE
    /\ executing' = TRUE
    /\ Begins([Frame("next", "close", Source) EXCEPT !.then = "finish"], iter)
    /\ Stays
    /\ UNCHANGED <<kind, phase, ofHelpers, index, ofZips>>

NextOfConcat ==
    /\ MayEnter /\ kind = "concat"
    /\ current # 0 \/ index < MaxItems  \* otherwise {done: true}, again and again
    /\ executing' = TRUE
    /\ Begins(Frame("next", IF current # 0 THEN "advance" ELSE "open",
                    IF current # 0 THEN current ELSE index + 1), iter)
    /\ index' = IF current # 0 THEN index ELSE index + 1
    /\ Stays
    /\ UNCHANGED <<kind, phase, done, ofHelpers, ofZips>>

\* helper.return()
\* Mutant: return() leaves the helper open.
ReturnKeepsOpenMutant ==
    /\ MayEnter /\ kind \in Transformers
    /\ Begins(IF current # 0
              THEN [Frame("return", "close", current) EXCEPT !.then = "inner"]
              ELSE [Frame("return", "close", Source) EXCEPT !.then = "return"], iter)
    /\ Stays
    /\ UNCHANGED <<kind, phase, done, executing, ofHelpers, index, ofZips>>

ReturnOfTransformer ==
    /\ MayEnter /\ kind \in Transformers
    /\ done' = TRUE
    /\ Begins(IF current # 0
              THEN [Frame("return", "close", current) EXCEPT !.then = "inner"]
              ELSE [Frame("return", "close", Source) EXCEPT !.then = "return"], iter)
    /\ Stays
    /\ UNCHANGED <<kind, phase, executing, ofHelpers, index, ofZips>>

ReturnOfConcat ==
    /\ MayEnter /\ kind = "concat"
    /\ IF current # 0
       THEN /\ executing' = TRUE
            /\ Begins([Frame("return", "close", current) EXCEPT !.then = "return"], iter)
            /\ UNCHANGED done
       ELSE /\ done' = TRUE
            /\ UNCHANGED <<executing, iter, frames, misuse, lost>>
    /\ Stays
    /\ UNCHANGED <<kind, phase, ofHelpers, index, ofZips>>

-----------------------------------------------------------------------------
\* An underlying next() has answered.
Mine == kind \notin Zips

\* a value that somebody looks at
AdvanceValue ==
    /\ Mine /\ AtSite("advance")
    /\ LET f == Top
           toCallback == kind \in {"map", "filter"} \cup (Consumers \ {"toArray"})
                         \/ (kind = "flatMap" /\ f.i = Source)
       IN \/ /\ toCallback /\ f.then # "first"
             /\ GoesOn([f EXCEPT !.at = "callback"], iter)
             /\ UNCHANGED <<executing, remaining>>
          \/ /\ kind = "toArray" \/ f.then = "first"
             /\ GoesOn([f EXCEPT !.then = "none"], iter)
             /\ UNCHANGED <<executing, remaining>>
          \/ /\ kind = "drop" /\ remaining > 0
             /\ remaining' = remaining - 1
             /\ GoesOn(f, iter)
             /\ UNCHANGED executing
          \/ /\ ~toCallback /\ kind # "toArray" /\ ~(kind = "drop" /\ remaining > 0)
             /\ Ends(f, "value", iter)
             /\ UNCHANGED remaining
    /\ Stays
    /\ UNCHANGED <<kind, phase, done, current, index, ofZips>>

\* {done: true} ends the helper
AdvanceDone ==
    /\ Mine /\ AtSite("advance")
    /\ kind \notin {"from", "concat"} /\ ~(kind = "flatMap" /\ Top.i = Inner)
    /\ Ends(Top, IF Top.then = "first" THEN "error" ELSE "done",
            [iter EXCEPT ![Source] = "ended"])
    /\ done' = (done \/ kind \in Transformers)
    /\ Stays
    /\ UNCHANGED <<kind, phase, ofHelpers, index, ofZips>>

\* flatMap and concat go on with the next iterator
InnerDone ==
    /\ AtSite("advance") /\ kind = "flatMap" /\ Top.i = Inner
    /\ current' = 0
    /\ GoesOn([Top EXCEPT !.i = Source], [iter EXCEPT ![Inner] = "ended"])
    /\ Stays
    /\ UNCHANGED <<kind, phase, done, executing, remaining, index, ofZips>>

ConcatDone ==
    /\ AtSite("advance") /\ kind = "concat"
    /\ current' = 0
    /\ LET it == [iter EXCEPT ![current] = "ended"]
       IN IF index < MaxItems
          THEN /\ index' = index + 1
               /\ GoesOn([Top EXCEPT !.at = "open", !.i = index + 1], it)
               /\ UNCHANGED executing
          ELSE /\ Ends(Top, "done", it)
               /\ UNCHANGED index
    /\ Stays
    /\ UNCHANGED <<kind, phase, done, remaining, ofZips>>

\* next() threw, is not callable, or its answer cannot be read (the value of it
\* where no callback takes it): the catch block of helper.next ends the helper
\* and closes nothing.
\* Mutant: the helper goes on after a failed next().
FailForgivenMutant ==
    /\ Mine /\ AtSite("advance")
    /\ Ends([Top EXCEPT !.threw = TRUE], "error", [iter EXCEPT ![Top.i] = "failed"])
    /\ UNCHANGED done
    /\ departed' = departed \cup (IF kind = "concat" THEN {"concatFailed"} ELSE {})
                            \cup (IF kind = "flatMap" /\ Top.i = Inner THEN {"innerFailed"} ELSE {})
    /\ UNCHANGED <<kind, phase, ofHelpers, index, ofZips>>

AdvanceFails ==
    /\ Mine /\ AtSite("advance")
    /\ Ends([Top EXCEPT !.threw = TRUE], "error", [iter EXCEPT ![Top.i] = "failed"])
    /\ done' = (done \/ kind \in Transformers)
    /\ departed' = departed \cup (IF kind = "concat" THEN {"concatFailed"} ELSE {})
                            \cup (IF kind = "flatMap" /\ Top.i = Inner THEN {"innerFailed"} ELSE {})
    /\ UNCHANGED <<kind, phase, ofHelpers, index, ofZips>>

Cleanup(value) ==
    [Top EXCEPT !.at = "close", !.then = "throw", !.threw = TRUE,
                !.error = IF kind \in Consumers THEN value ELSE "error"]

\* The property value cannot be read.  Where the code reads it inside the try
\* around the callback, an iterator that has failed is closed nevertheless.
ValueUnreadable(value) ==
    /\ AtSite("callback")
    /\ GoesOn(Cleanup(value), [iter EXCEPT ![Source] = "failed"])
    /\ Departs("unreadable")
    /\ UNCHANGED <<kind, phase, done, executing, ofHelpers, index, ofZips>>

-----------------------------------------------------------------------------
\* The mapper, predicate, callback or reducer has returned something that
\* counts as true or as false.
CallbackReturns(true) ==
    /\ AtSite("callback")
    /\ LET f == Top
           stops == \/ kind \in {"some", "find"} /\ true
                    \/ kind = "every" /\ ~true
       IN \/ /\ kind = "map"
             /\ Ends(f, "value", iter)
          \/ /\ kind = "flatMap"
             /\ GoesOn([f EXCEPT !.at = "open", !.i = Inner], iter)
             /\ UNCHANGED executing
          \/ /\ kind = "filter" /\ true
             /\ GoesOn([f EXCEPT !.at = "reread"], iter)
             /\ UNCHANGED executing
          \/ /\ stops
             /\ GoesOn([f EXCEPT !.at = "close", !.then = "finish"], iter)
             /\ UNCHANGED executing
          \/ /\ kind \in {"filter"} \cup Consumers /\ ~(kind = "filter" /\ true) /\ ~stops
             /\ GoesOn([f EXCEPT !.at = "advance"], iter)
             /\ UNCHANGED executing
    /\ Stays
    /\ UNCHANGED <<kind, phase, done, ofHelpers, index, ofZips>>

\* It throws: the iterator is closed before the error goes on.
\* Mutant: the iterator stays open.
LeaksOnThrowMutant(value) ==
    /\ AtSite("callback")
    /\ Ends([Top EXCEPT !.threw = TRUE], "error", iter)
    /\ done' = (done \/ kind \in Transformers)
    /\ Stays
    /\ UNCHANGED <<kind, phase, ofHelpers, index, ofZips>>

CallbackThrows(value) ==
    /\ AtSite("callback")
    /\ GoesOn(Cleanup(value), iter)
    /\ Stays
    /\ UNCHANGED <<kind, phase, done, executing, ofHelpers, index, ofZips>>

\* filter reads the property value a second time, outside the try
Reread(outcome) ==
    /\ AtSite("reread")
    /\ Ends(Threw(Top, outcome), IF outcome = "throw" THEN "error" ELSE "value", iter)
    /\ done' = (done \/ outcome = "throw")
    /\ IF outcome = "throw" THEN Departs("reread") ELSE Stays
    /\ UNCHANGED <<kind, phase, ofHelpers, index, ofZips>>

\* flatMap asks what the mapper returned for an iterator
OpenInner(outcome) ==
    /\ AtSite("open") /\ kind = "flatMap"
    /\ \/ /\ outcome = "answer"
          /\ current' = Inner
          /\ GoesOn([Top EXCEPT !.at = "advance"], [iter EXCEPT ![Inner] = "open"])
          /\ Stays
          /\ UNCHANGED <<done, executing>>
       \/ /\ outcome = "notIterable"
          /\ GoesOn([Top EXCEPT !.at = "close", !.i = Source, !.then = "throw", !.threw = TRUE],
                    iter)
          /\ Stays
          /\ UNCHANGED <<current, done, executing>>
       \/ /\ outcome = "throw"
          /\ Ends(Threw(Top, outcome), "error", iter)
          /\ done' = TRUE
          /\ Departs("innerFailed")
          /\ UNCHANGED current
    /\ UNCHANGED <<kind, phase, remaining, index, ofZips>>

\* concat opens its next item; one that fails is passed over by a later next()
OpenItem(outcome) ==
    /\ AtSite("open") /\ kind = "concat"
    /\ IF outcome = "answer"
       THEN /\ current' = Top.i
            /\ GoesOn([Top EXCEPT !.at = "advance"], [iter EXCEPT ![Top.i] = "open"])
            /\ Stays
            /\ UNCHANGED executing
       ELSE /\ Ends(Threw(Top, "throw"), "error", iter)
            /\ Departs("concatFailed")
            /\ UNCHANGED current
    /\ UNCHANGED <<kind, phase, done, remaining, index, ofZips>>

-----------------------------------------------------------------------------
\* A return() that the helper has called is over.
CloseForHelper(outcome) ==
    /\ Mine /\ AtSite("close") /\ Top.call # "consume"
    /\ \/ \* IfAbruptCloseIterator: the first error goes on, its own is ignored
          /\ Top.then \in {"throw", "argument"}
          /\ Ends(Top, "error", iter)
          /\ done' = (done \/ Top.then = "throw")
          /\ Stays
          /\ UNCHANGED current
       \/ /\ Top.then = "finish" \/ (Top.then = "return" /\ kind # "concat")
          /\ Ends(Threw(Top, outcome), IF outcome = "throw" THEN "error" ELSE "done", iter)
          /\ Stays
          /\ UNCHANGED <<done, current>>
       \/ \* flatMap: whatever the inner iterator says, the outer one is next
          /\ Top.then = "inner"
          /\ current' = 0
          /\ GoesOn([Threw(Top, outcome) EXCEPT !.i = Source, !.then = "return"], iter)
          /\ IF outcome = "throw" THEN Departs("innerClose") ELSE Stays
          /\ UNCHANGED <<done, executing>>
       \/ /\ Top.then = "return" /\ kind = "concat"
          /\ Ends(Threw(Top, outcome), IF outcome = "throw" THEN "error" ELSE "done", iter)
          /\ IF outcome = "throw"
             THEN Departs("concatFailed") /\ UNCHANGED <<done, current>>
             ELSE Stays /\ done' = TRUE /\ current' = 0
    /\ UNCHANGED <<kind, phase, remaining, index, ofZips>>

\* IteratorClose, and the plain close of some, every and find.  "if (error)"
\* drops a thrown value that counts as false, and the loop goes on: every takes
\* the missing result for false and closes again.
CloseForConsumer(outcome) ==
    /\ AtSite("close") /\ Top.call = "consume"
    /\ LET f == Threw(Top, outcome)
       IN IF outcome = "throw" \/ (f.then = "throw" /\ f.error = "error")
          THEN Ends(f, "error", iter) /\ Stays
          ELSE IF f.then = "finish"
          THEN Ends(f, "done", iter) /\ Stays
          ELSE /\ GoesOn(IF kind = "every" THEN [f EXCEPT !.then = "finish"]
                         ELSE [f EXCEPT !.at = "advance", !.then = "none"], iter)
               /\ Departs("falsyThrown")
               /\ UNCHANGED executing
    /\ UNCHANGED <<kind, phase, done, ofHelpers, index, ofZips>>

Outcomes == {"answer", "throw"}

HelperNext ==
    \/ RejectArgument \/ ReduceFromInitial
    \/ \E ok \in BOOLEAN : GetIteratorDirect(ok)
    \/ NextOfTransformer \/ NextOfSpentTake \/ NextOfConcat
    \/ ReturnOfTransformer \/ ReturnOfConcat
    \/ AdvanceValue \/ AdvanceDone \/ InnerDone \/ ConcatDone \/ AdvanceFails
    \/ \E true \in BOOLEAN : CallbackReturns(true)
    \/ \E value \in Thrown : CallbackThrows(value) \/ ValueUnreadable(value)
    \/ \E outcome \in Outcomes : Reread(outcome) \/ OpenItem(outcome)
    \/ \E outcome \in Outcomes \cup {"notIterable"} : OpenInner(outcome)
    \/ \E outcome \in Outcomes : CloseForHelper(outcome) \/ CloseForConsumer(outcome)
===============================================================================
