------------------------------- MODULE Iterators -------------------------------
(***************************************************************************)
(* The iterator helpers of runtime/iterator.rs together: which method is   *)
(* called is chosen first, everything else by the program.                 *)
(***************************************************************************)
EXTENDS IteratorHelpers, ZippedIterators

Init ==
    /\ phase = "new"
    /\ done = FALSE
    /\ executing = FALSE
    /\ frames = <<>>
    /\ misuse = {}
    /\ lost = FALSE
    /\ departed = {}
    /\ \/ /\ HelperInit
          /\ mode = "shortest" /\ held = {} /\ ended = {} /\ hasYielded = FALSE
       \/ /\ ZipInit
          /\ remaining = 0 /\ current = 0

\* Every program ends; the system stays as it is then.
Next == HelperNext \/ ZipNext

Spec == Init /\ [][Next]_vars

-----------------------------------------------------------------------------
Met(names) == departed \cap names # {}

\* A program that calls the helper from the code that the helper calls finds it
\* executing or done: no two calls of a helper are ever in progress, although
\* return() of most helpers sets no flag but done (iterator.rs:244); and one that
\* is executing has a call in progress, so that the next call is not refused.
OneCallAtATime == Len(frames) <= 1 /\ (executing => frames # <<>>)

\* next() is not called on an iterator that has ended, failed or been closed.
\* Exceptions: a consumer whose callback throws a false value (iterator.rs:345),
\* concat after a failure (iterator.rs:901), zip after an unreadable answer or a
\* return() that threw (iterator.rs:1325), and a thrown undefined (iterator.rs:1132).
AdvancedWhileOpen ==
    "advance" \in misuse =>
       Met({"falsyThrown", "concatFailed", "zipUnfinished", "undefinedThrown"})

\* return() is called at most once for each iterator, and not on one that has ended
\* or failed.  Exceptions: the same and a value that cannot be read (iterator.rs:282).
ClosedWhileOpen ==
    "close" \in misuse =>
       Met({"falsyThrown", "concatFailed", "zipUnfinished", "undefinedThrown", "unreadable"})

\* When a helper is done or could not be made, and when a method that consumes has
\* returned, each iterator that was opened has ended, failed or been closed.
\* Exceptions: flatMap when its inner iterator fails (iterator.rs:481), filter when
\* its second read of a value throws (iterator.rs:328), zip when an answer of the
\* input or the padding cannot be read (iterator.rs:1121, 1144), a thrown undefined.
Finished == frames = <<>> /\ phase # "new" /\ (done \/ phase = "over")
NothingLeftOpen ==
    Finished =>
       \/ \A s \in Slots : iter[s] # "open"
       \/ Met({"innerFailed", "reread", "leaks", "undefinedThrown"})

\* A list of iterators is closed from the last to the first: when one is being
\* closed no later one is open any more, except for the one to be skipped.
ClosedInReverse ==
    \A n \in 1..Len(frames) :
       LET f == frames[n] IN
       f.at = "closeList" =>
          \A s \in Items : s > f.i /\ s # f.skip => iter[s] # "open"

\* Whatever code of the program throws inside a call of a helper or a consumer, the
\* call throws too.  Exceptions: a false value in a callback of a consumer, undefined
\* where zip is made, the return() of an inner iterator of flatMap (iterator.rs:539).
ErrorsAreReported ==
    lost => Met({"falsyThrown", "undefinedThrown", "innerClose"})
===============================================================================
