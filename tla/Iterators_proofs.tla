--------------------------- MODULE Iterators_proofs ---------------------------
(***************************************************************************)
(* Proofs about Iterators: one call of a helper at a time, no iterator is  *)
(* used after its end, none is left open, and errors arrive.               *)
(*                                                                         *)
(* The argument.  Between two calls a helper that is not done has its      *)
(* iterators open (HelperIdle, ZipIdle), and while a call waits for code   *)
(* of the program, the place where it waits says which iterators are open  *)
(* and whether something was thrown (HelperBusy, ZipBusy).  Each clause    *)
(* names the departures under which the code does not keep it.             *)
(***************************************************************************)
EXTENDS Iterators, SequenceTheorems, FiniteSetTheorems, WellFoundedInduction, TLAPS

Then == {"none", "first", "argument", "throw", "finish", "return", "inner",
         "afterElement", "afterPadding"}

FrameType ==
    [call : {"create", "consume", "next", "return"},
     at : AdvanceSites \cup CloseSites \cup OtherSites,
     i : Slots, then : Then, threw : BOOLEAN, error : {"none"} \cup Thrown,
     skip : Slots, closeError : BOOLEAN, pos : 0 .. MaxItems]

IterType == [Slots -> {"none", "open", "ended", "failed", "closed"}]

\* The variables a step other than a call or an answer may change.
Flags ==
    /\ kind \in Kinds
    /\ phase \in {"new", "ready", "over"}
    /\ done \in BOOLEAN
    /\ executing \in BOOLEAN
    /\ remaining \in 0 .. MaxRemaining
    /\ current \in 0 .. MaxItems
    /\ index \in 0 .. MaxItems
    /\ mode \in {"shortest", "longest", "strict"}
    /\ held \subseteq 1 .. index
    /\ ended \subseteq 1 .. index
    /\ hasYielded \in BOOLEAN

TypeInv ==
    /\ Flags
    /\ iter \in IterType
    /\ frames \in Seq(FrameType)
    /\ misuse \subseteq {"advance", "close"}
    /\ lost \in BOOLEAN

NoneOpen == \A s \in Slots : iter[s] # "open"

-----------------------------------------------------------------------------
(* Helpers over one iterator, and concat.                                  *)

\* What next() of a helper relies on.
Good == iter[Source] = "open" /\ (current # 0 => iter[current] = "open")

HelperAlways ==
    /\ current # 0 => kind = "concat" \/ (kind = "flatMap" /\ current = Inner)
    /\ \A s \in Slots : iter[s] = "open" =>
          s # Input /\ IF kind = "concat" THEN s = current ELSE s = Source \/ s = current

HelperIdle ==
    /\ phase = "new" => /\ ~ done /\ current = 0 /\ index = 0
                        /\ kind # "concat" => iter[Source] = "open"
    /\ phase = "ready" => kind \notin Consumers
    /\ phase = "ready" /\ ~ done =>
          IF kind = "concat"
          THEN current # 0 => iter[current] = "open" \/ Met({"concatFailed"})
          ELSE Good
    /\ done \/ phase = "over" => NoneOpen \/ Met({"innerFailed", "reread"})

\* A consumer is waiting.
Consuming(f) ==
    /\ kind \in Consumers /\ phase = "over" /\ f.i = Source
    /\ f.at \in {"advance", "callback", "close"}
    /\ f.at = "close" => f.then \in {"throw", "finish"} /\ iter[Source] # "open"
    /\ f.at # "close" => iter[Source] = "open" \/ Met({"falsyThrown"})
    /\ f.at = "advance" => f.then \in {"none", "first"}
    /\ f.at = "callback" => f.then = "none"
    /\ f.threw => Met({"falsyThrown"}) \/ (f.at = "close" /\ f.then = "throw")

\* A next() of concat is waiting.
NextingConcat(f) ==
    /\ ~ done /\ ~ f.threw
    /\ f.at \in {"advance", "open"}
    /\ f.i \in Items
    /\ f.at = "advance" =>
          f.i = current /\ (iter[current] = "open" \/ Met({"concatFailed"}))
    /\ f.at = "open" => current = 0

\* A next() of another helper is waiting.
NextingOther(f) ==
    /\ kind \in Transformers
    /\ f.threw => f.at = "close" /\ f.then = "throw"
    /\ done => f.at = "close"
    /\ f.at \in {"advance", "callback", "reread", "open", "close"}
    /\ f.at = "advance" => /\ Good /\ f.then = "none"
                           /\ f.i = IF current # 0 THEN current ELSE Source
    /\ f.at # "advance" => current = 0
    /\ f.at \in {"callback", "reread", "open"} => iter[Source] = "open"
    /\ f.at = "callback" => /\ f.i = Source /\ f.then = "none"
                            /\ kind \in {"map", "filter", "flatMap"}
    /\ f.at = "reread" => kind = "filter"
    /\ f.at = "open" => kind = "flatMap" /\ f.i = Inner /\ f.then = "none"
    /\ f.at = "close" => f.i = Source /\ f.then \in {"throw", "finish"} /\ NoneOpen
    /\ f.then = "finish" => done

Nexting(f) ==
    /\ phase = "ready" /\ executing
    /\ IF kind = "concat" THEN NextingConcat(f) ELSE NextingOther(f)

\* A return() is waiting.
Returning(f) ==
    /\ phase = "ready" /\ f.at = "close"
    /\ IF kind = "concat"
       THEN ~ done /\ executing /\ f.then = "return" /\ NoneOpen /\ ~ f.threw
       ELSE /\ kind \in Transformers /\ done
            /\ f.then \in {"inner", "return"}
            /\ f.then = "inner" => /\ ~ f.threw /\ current = Inner /\ f.i = Inner
                                   /\ iter[Source] = "open" /\ iter[Inner] # "open"
            /\ f.then = "return" => NoneOpen /\ (f.threw => Met({"innerClose"}))

\* The argument of a method was rejected.
Rejecting(f) ==
    f.at = "close" /\ f.then = "argument" /\ phase = "over" /\ NoneOpen

HelperBusy(f) ==
    \/ f.call = "create" /\ Rejecting(f)
    \/ f.call = "consume" /\ Consuming(f)
    \/ f.call = "next" /\ Nexting(f)
    \/ f.call = "return" /\ Returning(f)

HelperInv ==
    /\ HelperAlways
    /\ frames = <<>> => HelperIdle
    /\ frames # <<>> => HelperBusy(frames[1])

-----------------------------------------------------------------------------
(* zip and zipKeyed.                                                       *)

Excused == Met({"zipUnfinished", "undefinedThrown"})
Undef == Met({"undefinedThrown"})

\* An open item is held, one that has ended is not open.
ZipAlways ==
    /\ \A s \in Items : iter[s] = "open" => s \in held
    /\ \A s \in ended : iter[s] # "open"

\* A round can begin or go on.
Live ==
    /\ ended # 1 .. index
    /\ mode = "strict" /\ 1 \notin ended => ended = {}
    /\ Excused \/ \A j \in 1 .. index : j \notin ended => iter[j] = "open"
    /\ Excused \/ \A j \in held : iter[j] = "open"

EndsShut == Undef \/ (iter[Input] # "open" /\ iter[Padding] # "open")

ZipIdle ==
    /\ phase = "new" => /\ index = 0 /\ held = {} /\ ended = {} /\ ~ done
                        /\ iter[Padding] # "open"
                        /\ iter[Input] = "open" <=> kind = "zip"
    /\ phase = "ready" /\ ~ done => Live /\ EndsShut
    /\ done \/ phase = "over" => NoneOpen \/ Met({"leaks", "undefinedThrown"})

\* The sites at which items are still being collected.
Collecting == {"input", "element", "padOpen", "padNext", "padClose"}

\* The items are all open, and the input and the padding are where the site says.
MakingItems(f) ==
    \/ Undef
    \/ /\ ~ f.threw
       /\ \A j \in 1 .. index : iter[j] = "open"
       /\ iter[Padding] = "open" <=> f.at = "padNext"
       /\ iter[Input] = "open" <=> f.at = "input" \/ (f.at = "element" /\ kind = "zip")
       /\ f.at \in {"input", "element"} => f.i = Input
       /\ f.at \in {"padOpen", "padNext", "padClose"} => f.i = Padding

\* A list is closed because the helper cannot be made.
MakingFails(f) ==
    /\ f.then \in {"throw", "afterElement", "afterPadding"}
    /\ f.error \in {"error", "undefined"}
    /\ f.closeError => f.error = "undefined"
    /\ \/ Undef
       \/ /\ iter[Padding] # "open"
          /\ iter[Input] = "open" <=> kind = "zip" /\ f.then = "afterElement"
          /\ \A j \in held : j < f.i => iter[j] = "open"

Making(f) ==
    /\ phase = "over" /\ ~ done /\ ended = {} /\ f.skip = Input
    /\ f.at # "closeList" => ~ f.closeError
    /\ f.at \in Collecting \cup {"closeList", "closeInput"}
    /\ f.at \in {"input", "padNext", "closeInput"} => kind = "zip"
    /\ kind = "zipKeyed" /\ (f.at = "padOpen" \/ f.then = "afterPadding") => index # 0
    /\ f.at \in Collecting => MakingItems(f)
    /\ f.at = "closeList" => MakingFails(f)
    /\ f.at = "closeInput" => Undef \/ NoneOpen

\* A round is waiting for an item.
RoundOpen(f) ==
    /\ ~ done /\ Live /\ f.i \in 1 .. index /\ f.i \notin ended /\ f.skip = Input
    /\ Undef \/ ~ f.threw
    /\ f.at = "strict" => mode = "strict" /\ ended = 1 .. (f.i - 1)

\* A round has ended and closes what is held.
RoundOver(f) ==
    /\ done
    /\ f.threw => f.then = "throw" \/ ListThrows(f) \/ Undef
    /\ Excused \/ \A j \in held : j < f.i /\ j # f.skip => iter[j] = "open"

Rounding(f) ==
    /\ phase = "ready" /\ executing /\ EndsShut
    /\ f.at \in {"advance", "strict", "closeList"}
    /\ IF f.at = "closeList" THEN RoundOver(f) ELSE RoundOpen(f)

ZipReturning(f) ==
    /\ phase = "ready" /\ f.at = "closeList" /\ EndsShut /\ (done \/ executing)
    /\ ~ done => ended # 1 .. index /\ (mode = "strict" /\ 1 \notin ended => ended = {})
    /\ f.threw => ListThrows(f)
    /\ Excused \/ \A j \in held : j < f.i => iter[j] = "open"

\* Nothing above the position that is being closed is open.
Listed(f) ==
    f.at = "closeList" =>
      /\ f.i \in held /\ iter[f.i] = "closed"
      /\ \A s \in Items : s > f.i /\ s # f.skip => iter[s] # "open"
      /\ f.skip # Input => iter[f.skip] # "open"

ZipBusy(f) ==
    /\ Listed(f)
    /\ f.call # "create" => f.then \in {"none", "throw"}
    /\ \/ f.call = "create" /\ Making(f)
       \/ f.call = "next" /\ Rounding(f)
       \/ f.call = "return" /\ ZipReturning(f)

ZipInv ==
    /\ ZipAlways
    /\ frames = <<>> => ZipIdle
    /\ frames # <<>> => ZipBusy(frames[1])

Histories == AdvancedWhileOpen /\ ClosedWhileOpen /\ ErrorsAreReported

IInv ==
    /\ TypeInv
    /\ OneCallAtATime
    /\ kind \notin Zips => HelperInv
    /\ kind \in Zips => ZipInv
    /\ Histories

-----------------------------------------------------------------------------
(* What a step does to the frames.                                         *)

\* The iterators after a call at f.
Shut(f, it) == IF f.at \in CloseSites THEN [it EXCEPT ![f.i] = "closed"] ELSE it

\* Code of the program is called at f, and nothing else waits.
Waits(f, it) ==
    /\ frames' \in Seq(FrameType)
    /\ Len(frames') = 1
    /\ frames' # <<>>
    /\ frames'[1] = f
    /\ iter' = Shut(f, it)
    /\ iter' \in IterType
    /\ misuse' \subseteq {"advance", "close"}
    /\ "advance" \in misuse' =>
          "advance" \in misuse \/ (f.at \in AdvanceSites /\ it[f.i] # "open")
    /\ "close" \in misuse' =>
          "close" \in misuse \/ (f.at \in CloseSites /\ it[f.i] # "open")
    /\ lost' = lost

\* What is on the stack when something waits.
LEMMA OneFrame ==
    ASSUME TypeInv, OneCallAtATime, frames # <<>>
    PROVE  Top \in FrameType /\ Top = frames[1] /\ Below = <<>> /\ Len(frames) = 1
<1>1. frames \in Seq(FrameType) /\ Len(frames) <= 1 /\ frames # <<>>
  BY DEF TypeInv, OneCallAtATime
<1>2. Len(frames) = 1
  <2>1. Len(frames) \in Nat /\ Len(frames) # 0
    BY <1>1, EmptySeq
  <2>2. PICK n \in Nat : n = Len(frames)
    BY <2>1
  <2>3. n <= 1 /\ n # 0
    BY <1>1, <2>1, <2>2
  <2> QED BY <2>2, <2>3
<1>3. frames[1] \in FrameType
  BY <1>1, <1>2, SMT
<1>4. SubSeq(frames, 1, 0) = <<>>
  BY <1>1, SMT
<1> QED BY <1>2, <1>3, <1>4 DEF Top, Below

\* A call that is made on top of nothing.
LEMMA CallsWaits ==
    ASSUME TypeInv, NEW f \in FrameType, NEW it \in IterType, Calls(<<>>, f, it)
    PROVE  Waits(f, it)
<1>1. frames' = Append(<<>>, f) /\ lost' = lost
  BY DEF Calls
<1>2. <<f>> \in Seq(FrameType) /\ Len(<<f>>) = 1 /\ <<f>> # <<>> /\ <<f>>[1] = f
      /\ Append(<<>>, f) = <<f>>
  BY SMT
<1>3. iter' = Shut(f, it)
  BY DEF Calls, Shut
<1>4. f.i \in Slots
  BY DEF FrameType
<1>5. Shut(f, it) \in IterType
  BY <1>4 DEF Shut, IterType
<1>6. misuse \subseteq {"advance", "close"}
  BY DEF TypeInv
<1>7. misuse' = IF it[f.i] = "open" THEN misuse
                ELSE misuse \cup (IF f.at \in AdvanceSites THEN {"advance"} ELSE {})
                            \cup (IF f.at \in CloseSites THEN {"close"} ELSE {})
  BY DEF Calls
<1>8. /\ misuse' \subseteq {"advance", "close"}
      /\ "advance" \in misuse' =>
            "advance" \in misuse \/ (f.at \in AdvanceSites /\ it[f.i] # "open")
      /\ "close" \in misuse' =>
            "close" \in misuse \/ (f.at \in CloseSites /\ it[f.i] # "open")
  BY <1>6, <1>7
<1> QED BY <1>1, <1>2, <1>3, <1>5, <1>8 DEF Waits

\* A call that goes on.
LEMMA GoesOnWaits ==
    ASSUME TypeInv, OneCallAtATime, frames # <<>>,
           NEW f \in FrameType, NEW it \in IterType, GoesOn(f, it)
    PROVE  Waits(f, it)
  BY OneFrame, CallsWaits DEF GoesOn

\* A call that begins.
LEMMA BeginsWaits ==
    ASSUME TypeInv, frames = <<>>,
           NEW f \in FrameType, NEW it \in IterType, Begins(f, it)
    PROVE  Waits(f, it)
  BY CallsWaits DEF Begins

\* The departures that excuse a use of an iterator that is not open.
AdvanceExcuses == {"falsyThrown", "concatFailed", "zipUnfinished", "undefinedThrown"}
CloseExcuses == AdvanceExcuses \cup {"unreadable"}

\* Departures are only added.
Remembers == departed \subseteq departed'

\* What is met stays met.
LEMMA MetStays == ASSUME Remembers, NEW S, Met(S) PROVE Met(S)'
  BY DEF Remembers, Met

\* A call at f keeps the invariant when the iterator it uses is open and the
\* place where it waits is as the invariant says.
LEMMA Continued ==
    ASSUME IInv, Remembers, NEW f \in FrameType, NEW it \in IterType, Waits(f, it),
           f.at \in AdvanceSites => it[f.i] = "open" \/ Met(AdvanceExcuses)',
           f.at \in CloseSites => it[f.i] = "open" \/ Met(CloseExcuses)',
           Flags',
           kind' \notin Zips => HelperAlways' /\ HelperBusy(f)',
           kind' \in Zips => ZipAlways' /\ ZipBusy(f)'
    PROVE  IInv'
<1>1. /\ frames' \in Seq(FrameType) /\ Len(frames') = 1 /\ frames' # <<>>
      /\ frames'[1] = f /\ iter' \in IterType /\ misuse' \subseteq {"advance", "close"}
      /\ lost' = lost
  BY DEF Waits
<1>2. TypeInv'
  BY <1>1 DEF TypeInv, IInv
<1>3. OneCallAtATime'
  BY <1>1 DEF OneCallAtATime
<1>4. kind' \notin Zips => HelperInv'
  BY <1>1 DEF HelperInv
<1>5. kind' \in Zips => ZipInv'
  BY <1>1 DEF ZipInv
<1>6. AdvancedWhileOpen'
  <2>1. "advance" \in misuse' =>
           "advance" \in misuse \/ (f.at \in AdvanceSites /\ it[f.i] # "open")
    BY DEF Waits
  <2>2. "advance" \in misuse => Met(AdvanceExcuses)'
    BY MetStays DEF IInv, Histories, AdvancedWhileOpen, AdvanceExcuses
  <2> QED BY <2>1, <2>2 DEF AdvancedWhileOpen, AdvanceExcuses
<1>7. ClosedWhileOpen'
  <2>1. "close" \in misuse' =>
           "close" \in misuse \/ (f.at \in CloseSites /\ it[f.i] # "open")
    BY DEF Waits
  <2>2. CloseExcuses = {"falsyThrown", "concatFailed", "zipUnfinished",
                        "undefinedThrown", "unreadable"}
    BY DEF CloseExcuses, AdvanceExcuses
  <2>3. "close" \in misuse => Met(CloseExcuses)'
    BY <2>2, MetStays DEF IInv, Histories, ClosedWhileOpen
  <2> QED BY <2>1, <2>2, <2>3 DEF ClosedWhileOpen
<1>8. ErrorsAreReported'
  BY <1>1, MetStays DEF IInv, Histories, ErrorsAreReported
<1> QED BY <1>2, <1>3, <1>4, <1>5, <1>6, <1>7, <1>8 DEF IInv, Histories

LossExcuses == {"falsyThrown", "undefinedThrown", "innerClose"}

\* The end of a call keeps the invariant when nothing thrown is lost and the
\* helper is as the invariant says.
LEMMA Ended ==
    ASSUME IInv, Remembers, frames' = <<>>, iter' \in IterType, misuse' = misuse, ~ executing',
           lost' \in BOOLEAN, lost' => lost \/ Met(LossExcuses)', Flags',
           kind' \notin Zips => HelperAlways' /\ HelperIdle',
           kind' \in Zips => ZipAlways' /\ ZipIdle'
    PROVE  IInv'
<1>1. <<>> \in Seq(FrameType) /\ Len(<<>>) = 0
  BY SMT
<1>2. TypeInv'
  BY <1>1 DEF TypeInv, IInv
<1>3. OneCallAtATime'
  <2>1. Len(frames') = 0
    BY <1>1
  <2> QED BY <2>1, SMT DEF OneCallAtATime
<1>4. kind' \notin Zips => HelperInv'
  BY DEF HelperInv
<1>5. kind' \in Zips => ZipInv'
  BY DEF ZipInv
<1>6. AdvancedWhileOpen' /\ ClosedWhileOpen'
  BY MetStays DEF IInv, Histories, AdvancedWhileOpen, ClosedWhileOpen
<1>7. ErrorsAreReported'
  BY MetStays DEF IInv, Histories, ErrorsAreReported, LossExcuses
<1> QED BY <1>2, <1>3, <1>4, <1>5, <1>6, <1>7 DEF IInv, Histories

\* The slots that the helpers name.
LEMMA SlotsAre ==
    /\ Slots = 0 .. MaxItems + 1 /\ Items = 1 .. MaxItems /\ Items \subseteq Slots
    /\ Source \in Slots /\ Inner \in Slots /\ Input \in Slots /\ Padding \in Slots
    /\ Source = 1 /\ Inner = 2 /\ Input = 0
  BY BoundsAssumption DEF Slots, Items, Source, Inner, Input, Padding

\* What the helpers name are slots.
LEMMA AreSlots == Source \in Slots /\ Inner \in Slots /\ Input \in Slots
  BY SlotsAre

\* A call of a helper goes on or begins.
LEMMA HelperContinues ==
    ASSUME IInv, kind \notin Zips, kind' = kind, Remembers,
           NEW f \in FrameType, NEW it \in IterType, Waits(f, it),
           f.at \in AdvanceSites => it[f.i] = "open" \/ Met(AdvanceExcuses)',
           f.at \in CloseSites => it[f.i] = "open" \/ Met(CloseExcuses)',
           Flags', HelperAlways', HelperBusy(f)'
    PROVE  IInv'
  BY Continued

\* A call of a helper ends, or there was none.
LEMMA HelperEnds ==
    ASSUME IInv, kind \notin Zips, kind' = kind, Remembers, frames' = <<>>, iter' \in IterType,
           misuse' = misuse, ~ executing', lost' \in BOOLEAN,
           lost' => lost \/ Met(LossExcuses)', Flags', HelperAlways', HelperIdle'
    PROVE  IInv'
  BY Ended

-----------------------------------------------------------------------------
(* The helpers over one iterator, and concat: one lemma for each action.   *)

\* A site is at the top of a stack that is not empty.
LEMMA Sites == ASSUME NEW site, TypeInv, AtSite(site) PROVE frames # <<>> /\ Top.at = site
<1>1. Len(frames) > 0
  BY DEF AtSite
<1>2. frames # <<>>
  BY <1>1, SMT
<1> QED BY <1>2 DEF AtSite

\* The sites of the helpers and those of zip.
LEMMA HelperSites ==
    ASSUME IInv, NEW site \in {"callback", "reread", "open", "close"}, AtSite(site)
    PROVE  kind \notin Zips
<1>1. frames # <<>> /\ Top.at = site
  BY Sites DEF IInv
<1>2. Top = frames[1]
  BY <1>1, OneFrame DEF IInv
<1> QED BY <1>1, <1>2 DEF IInv, ZipInv, ZipBusy, Making, Rounding, ZipReturning, Collecting

\* What holds of the call that waits.
LEMMA HelperWaits ==
    ASSUME IInv, kind \notin Zips, NEW site, AtSite(site)
    PROVE  /\ frames # <<>> /\ HelperAlways /\ Flags /\ iter \in IterType
           /\ \E t \in FrameType : t = Top /\ t.at = site /\ HelperBusy(t)
<1>1. frames # <<>> /\ Top.at = site
  BY Sites DEF IInv
<1>2. Top \in FrameType /\ Top = frames[1]
  BY <1>1, OneFrame DEF IInv
<1> QED BY <1>1, <1>2 DEF IInv, HelperInv, TypeInv

\* When a helper may be entered or is not yet made, nothing waits.
LEMMA NothingWaits ==
    ASSUME IInv, kind \notin Zips, phase = "new" \/ MayEnter
    PROVE  frames = <<>> /\ ~ executing /\ HelperAlways /\ HelperIdle /\ Flags /\ iter \in IterType
<1>1. ASSUME frames # <<>> PROVE FALSE
  <2>1. HelperBusy(frames[1])
    BY <1>1 DEF IInv, HelperInv
  <2> QED BY <2>1 DEF MayEnter, HelperBusy, Rejecting, Consuming, Nexting, Returning
<1> QED BY <1>1 DEF IInv, HelperInv, TypeInv, OneCallAtATime

\* RejectArgument
LEMMA RejectArgumentStep == ASSUME IInv, RejectArgument PROVE IInv'
<1>1. kind \in Kinds /\ kind \notin Zips /\ kind # "concat"
  BY DEF RejectArgument, TakesArgument, Transformers, Consumers, Zips, Kinds
<1>2. /\ frames = <<>> /\ HelperAlways /\ HelperIdle /\ Flags /\ iter \in IterType /\ TypeInv
      /\ iter[Source] = "open" /\ current = 0
  BY <1>1, NothingWaits DEF RejectArgument, IInv, HelperIdle
<1>a. PICK g : g = Frame("create", "close", Source)
  OBVIOUS
<1>3. /\ g \in FrameType /\ g = Frame("create", "close", Source)
      /\ g.call = "create" /\ g.at = "close" /\ g.i = Source
  BY <1>a, AreSlots, BoundsAssumption
  DEF Frame, FrameType, AdvanceSites, CloseSites, Then
<1>4. PICK f : f = [g EXCEPT !.then = "argument", !.threw = TRUE]
  OBVIOUS
<1>5. /\ f \in FrameType /\ f.call = "create" /\ f.at = "close" /\ f.i = Source
      /\ f.then = "argument"
  BY <1>3, <1>4 DEF FrameType, Then
<1>6. Waits(f, iter)
  BY <1>2, <1>3, <1>4, <1>5, BeginsWaits DEF RejectArgument
<1>7. iter' = [iter EXCEPT ![Source] = "closed"]
  BY <1>5, <1>6 DEF Waits, Shut, CloseSites
<1>8. Flags' /\ Remembers /\ kind' = kind /\ current' = current /\ phase' = "over"
  BY <1>2 DEF Flags, RejectArgument, ofHelpers, ofZips, Stays, Remembers
<1>9. HelperAlways' /\ HelperBusy(f)'
  BY <1>1, <1>2, <1>5, <1>7, <1>8, SlotsAre
  DEF HelperAlways, HelperBusy, Rejecting, NoneOpen, IterType
<1> QED BY <1>1, <1>2, <1>5, <1>6, <1>8, <1>9, HelperContinues DEF AdvanceSites

\* GetIteratorDirect: the iterator is asked for its method next.
LEMMA GetIteratorDirectStep ==
    ASSUME IInv, NEW ok \in BOOLEAN, GetIteratorDirect(ok) PROVE IInv'
<1>1. kind \notin Zips /\ phase = "new"
  BY DEF GetIteratorDirect
<1>2. /\ frames = <<>> /\ ~ executing /\ HelperAlways /\ HelperIdle /\ Flags
      /\ iter \in IterType /\ TypeInv /\ current = 0 /\ index = 0 /\ ~ done
      /\ kind # "concat" => iter[Source] = "open"
  BY <1>1, NothingWaits DEF IInv, HelperIdle
<1>3. /\ Flags' /\ Remembers /\ kind' = kind /\ current' = current /\ done' = done
      /\ phase' = IF ok /\ kind \notin Consumers THEN "ready" ELSE "over"
      /\ index' = index /\ executing' = executing
  BY <1>2 DEF Flags, GetIteratorDirect, ofHelpers, ofZips, Stays, Remembers
<1>4. CASE ok /\ kind \in Consumers
  <2>a. PICK g : g = Frame("consume", "advance", Source)
    OBVIOUS
  <2>1. /\ g \in FrameType /\ g = Frame("consume", "advance", Source)
      /\ g.call = "consume"
           /\ g.at = "advance" /\ g.i = Source /\ g.threw = FALSE
    BY <2>a, AreSlots, BoundsAssumption
    DEF Frame, FrameType, AdvanceSites, CloseSites, Then
  <2>2. PICK f : f = [g EXCEPT !.then = IF kind = "reduce" THEN "first" ELSE "none"]
    OBVIOUS
  <2>3. /\ f \in FrameType /\ f.call = "consume" /\ f.at = "advance" /\ f.i = Source
        /\ f.threw = FALSE /\ f.then \in {"none", "first"}
    BY <2>1, <2>2 DEF FrameType, Then
  <2>4. Waits(f, iter)
    BY <1>2, <1>4, <2>1, <2>2, <2>3, BeginsWaits DEF GetIteratorDirect
  <2>5. iter' = iter
    BY <2>3, <2>4 DEF Waits, Shut, CloseSites
  <2>6. HelperAlways' /\ HelperBusy(f)'
    BY <1>1, <1>2, <1>3, <1>4, <2>3, <2>5
    DEF HelperAlways, HelperBusy, Consuming, Consumers
  <2> QED
    BY <1>1, <1>2, <1>3, <1>4, <2>3, <2>4, <2>6, HelperContinues DEF CloseSites, Consumers
<1>5. CASE ~ (ok /\ kind \in Consumers)
  <2>1. /\ frames' = <<>> /\ misuse' = misuse /\ lost' = lost
        /\ iter' = IF ok \/ kind = "concat" THEN iter ELSE [iter EXCEPT ![Source] = "failed"]
    BY <1>2, <1>5 DEF GetIteratorDirect
  <2>2. iter' \in IterType /\ lost' \in BOOLEAN
    BY <1>2, <2>1, SlotsAre DEF IterType, TypeInv
  <2>3. HelperAlways'
    BY <1>2, <1>3, <2>1, SlotsAre DEF HelperAlways, IterType
  <2>4. HelperIdle'
    BY <1>2, <1>3, <1>5, <2>1, SlotsAre DEF HelperAlways, HelperIdle, Good, NoneOpen, IterType
  <2> QED
    BY <1>1, <1>2, <1>3, <2>1, <2>2, <2>3, <2>4, HelperEnds
<1> QED BY <1>4, <1>5

\* ReduceFromInitial
LEMMA ReduceFromInitialStep == ASSUME IInv, ReduceFromInitial PROVE IInv'
<1>1. kind \notin Zips /\ phase = "new" /\ kind \in Consumers /\ kind # "concat"
  BY DEF ReduceFromInitial, Zips, Consumers
<1>2. /\ frames = <<>> /\ HelperAlways /\ HelperIdle /\ Flags
      /\ iter \in IterType /\ TypeInv /\ current = 0 /\ iter[Source] = "open"
  BY <1>1, NothingWaits DEF IInv, HelperIdle
<1>a. PICK f : f = Frame("consume", "advance", Source)
  OBVIOUS
<1>3. /\ f \in FrameType /\ f = Frame("consume", "advance", Source)
      /\ f.call = "consume"
         /\ f.at = "advance" /\ f.i = Source /\ f.threw = FALSE /\ f.then = "none"
  BY <1>a, AreSlots, BoundsAssumption
  DEF Frame, FrameType, AdvanceSites, CloseSites, Then
<1>4. Waits(f, iter)
  BY <1>2, <1>3, BeginsWaits DEF ReduceFromInitial
<1>5. iter' = iter
  BY <1>3, <1>4 DEF Waits, Shut, CloseSites
<1>6. /\ Flags' /\ Remembers /\ kind' = kind /\ current' = current /\ phase' = "over"
  BY <1>2 DEF Flags, ReduceFromInitial, ofHelpers, ofZips, Stays, Remembers
<1>7. HelperAlways' /\ HelperBusy(f)'
  BY <1>1, <1>2, <1>3, <1>5, <1>6 DEF HelperAlways, HelperBusy, Consuming, Consumers
<1> QED
  BY <1>1, <1>2, <1>3, <1>4, <1>6, <1>7, HelperContinues DEF CloseSites

\* NextOfTransformer
LEMMA NextOfTransformerStep == ASSUME IInv, NextOfTransformer PROVE IInv'
<1>1. /\ kind \notin Zips /\ kind \in Transformers /\ kind # "concat" /\ MayEnter
      /\ phase = "ready" /\ ~ done
  BY DEF NextOfTransformer, Transformers, Zips, MayEnter
<1>2. /\ frames = <<>> /\ HelperAlways /\ HelperIdle /\ Flags
      /\ iter \in IterType /\ TypeInv /\ Good
  BY <1>1, NothingWaits DEF IInv, HelperIdle
<1>3. PICK n : n = IF current # 0 THEN current ELSE Source
  OBVIOUS
<1>4. n \in Slots /\ iter[n] = "open"
  BY <1>2, <1>3, AreSlots DEF Good, HelperAlways, Flags, Slots, Input, Padding
<1>a. PICK f : f = Frame("next", "advance", n)
  OBVIOUS
<1>5. /\ f \in FrameType /\ f = Frame("next", "advance", n)
      /\ f.call = "next" /\ f.at = "advance" /\ f.i = n /\ f.threw = FALSE /\ f.then = "none"
  BY <1>4, <1>a, AreSlots, BoundsAssumption
  DEF Frame, FrameType, AdvanceSites, CloseSites, Then
<1>6. Waits(f, iter)
  BY <1>2, <1>3, <1>5, BeginsWaits DEF NextOfTransformer
<1>7. iter' = iter
  BY <1>5, <1>6 DEF Waits, Shut, CloseSites
<1>8. /\ Remembers /\ kind' = kind /\ current' = current /\ phase' = phase /\ done' = done
      /\ executing' = TRUE /\ UNCHANGED <<index, ofZips>>
  BY DEF NextOfTransformer, Stays, Remembers
<1>9. Flags'
  <2>1. remaining' \in 0 .. MaxRemaining
    <3>1. remaining \in 0 .. MaxRemaining
      BY <1>2 DEF Flags
    <3>2. CASE kind = "take"
      <4>1. remaining # 0 /\ remaining' = remaining - 1
        BY <3>2 DEF NextOfTransformer
      <4> QED BY ONLY <3>1, <4>1, BoundsAssumption
    <3>3. CASE kind # "take"
      BY <3>1, <3>3 DEF NextOfTransformer
    <3> QED BY <3>2, <3>3
  <2> QED BY <1>2, <1>8, <2>1 DEF Flags, ofZips
<1>10. HelperAlways' /\ HelperBusy(f)'
  BY <1>1, <1>2, <1>3, <1>4, <1>5, <1>7, <1>8
  DEF HelperAlways, HelperBusy, Nexting, NextingOther, Good
<1> QED
  BY <1>1, <1>4, <1>5, <1>2, <1>6, <1>8, <1>9, <1>10, HelperContinues DEF CloseSites

\* NextOfSpentTake
LEMMA NextOfSpentTakeStep == ASSUME IInv, NextOfSpentTake PROVE IInv'
<1>1. /\ kind \notin Zips /\ kind \in Transformers /\ kind = "take" /\ MayEnter
      /\ phase = "ready" /\ ~ done
  BY DEF NextOfSpentTake, Transformers, Zips, MayEnter
<1>2. /\ frames = <<>> /\ HelperAlways /\ HelperIdle /\ Flags
      /\ iter \in IterType /\ TypeInv /\ iter[Source] = "open" /\ current = 0
  BY <1>1, NothingWaits DEF IInv, HelperIdle, HelperAlways, Good
<1>a. PICK g : g = Frame("next", "close", Source)
  OBVIOUS
<1>3. /\ g \in FrameType /\ g = Frame("next", "close", Source)
      /\ g.call = "next" /\ g.at = "close" /\ g.i = Source /\ g.threw = FALSE
  BY <1>a, AreSlots, BoundsAssumption DEF Frame, FrameType, AdvanceSites, CloseSites, Then
<1>4. PICK f : f = [g EXCEPT !.then = "finish"]
  OBVIOUS
<1>5. /\ f \in FrameType /\ f.call = "next" /\ f.at = "close" /\ f.i = Source
      /\ f.then = "finish" /\ f.threw = FALSE
  BY <1>3, <1>4 DEF FrameType, Then
<1>6. Waits(f, iter)
  BY <1>2, <1>3, <1>4, <1>5, BeginsWaits DEF NextOfSpentTake
<1>7. iter' = [iter EXCEPT ![Source] = "closed"]
  BY <1>5, <1>6 DEF Waits, Shut, CloseSites
<1>8. /\ Flags' /\ Remembers /\ kind' = kind /\ current' = current /\ phase' = phase
      /\ done' = TRUE /\ executing' = TRUE
  BY <1>2 DEF Flags, NextOfSpentTake, ofHelpers, ofZips, Stays, Remembers
<1>9. HelperAlways' /\ HelperBusy(f)'
  BY <1>1, <1>2, <1>5, <1>7, <1>8, SlotsAre
  DEF HelperAlways, HelperBusy, Nexting, NextingOther, NoneOpen, IterType
<1> QED
  BY <1>1, <1>2, <1>5, <1>6, <1>8, <1>9, HelperContinues DEF AdvanceSites

\* NextOfConcat
LEMMA NextOfConcatStep == ASSUME IInv, NextOfConcat PROVE IInv'
<1>1. /\ kind \notin Zips /\ kind = "concat" /\ MayEnter /\ phase = "ready" /\ ~ done
      /\ current # 0 \/ index < MaxItems
  BY DEF NextOfConcat, Zips, MayEnter
<1>2. /\ frames = <<>> /\ HelperAlways /\ HelperIdle /\ Flags
      /\ iter \in IterType /\ TypeInv
      /\ current # 0 => iter[current] = "open" \/ Met({"concatFailed"})
  BY <1>1, NothingWaits DEF IInv, HelperIdle
<1>3. PICK n : n = IF current # 0 THEN current ELSE index + 1
  OBVIOUS
<1>b. PICK site : site = IF current # 0 THEN "advance" ELSE "open"
  OBVIOUS
<1>4. n \in Slots /\ n \in Items /\ site \in {"advance", "open"}
  <2>1. current \in 0 .. MaxItems /\ index \in 0 .. MaxItems
    BY <1>2 DEF Flags
  <2>2. n \in 1 .. MaxItems
    BY <1>1, <1>3, <2>1, BoundsAssumption
  <2>3. n \in Items
    BY <2>2, SlotsAre
  <2> QED BY <2>3, <1>b, SlotsAre
<1>a. PICK f : f = Frame("next", site, n)
  OBVIOUS
<1>5. /\ f \in FrameType /\ f = Frame("next", site, n)
      /\ f.call = "next" /\ f.at = site /\ f.i = n /\ f.threw = FALSE /\ f.then = "none"
  BY <1>4, <1>a, AreSlots, BoundsAssumption
  DEF Frame, FrameType, AdvanceSites, CloseSites, OtherSites, Then
<1>6. Waits(f, iter)
  BY <1>2, <1>3, <1>b, <1>5, BeginsWaits DEF NextOfConcat
<1>7. iter' = iter
  BY <1>4, <1>5, <1>6 DEF Waits, Shut, CloseSites
<1>8. /\ Remembers /\ kind' = kind /\ current' = current /\ phase' = phase /\ done' = done
      /\ executing' = TRUE /\ departed' = departed
      /\ UNCHANGED <<ofHelpers, ofZips>>
  BY DEF NextOfConcat, Stays, Remembers, ofHelpers
<1>9. Flags'
  <2>1. index' \in 0 .. MaxItems /\ index \in 0 .. MaxItems /\ index <= index'
    <3>1. index \in 0 .. MaxItems
      BY <1>2 DEF Flags
    <3> QED BY <3>1, <1>1, BoundsAssumption DEF NextOfConcat
  <2>2. 1 .. index \subseteq 1 .. index'
    BY <2>1
  <2> QED BY <1>2, <1>8, <2>1, <2>2 DEF Flags, ofZips, ofHelpers
<1>10. HelperAlways' /\ HelperBusy(f)'
  BY <1>1, <1>2, <1>3, <1>b, <1>4, <1>5, <1>7, <1>8
  DEF HelperAlways, HelperBusy, Nexting, NextingConcat, Met
<1>11. f.at \in AdvanceSites => iter[f.i] = "open" \/ Met(AdvanceExcuses)'
  BY <1>2, <1>3, <1>b, <1>5, <1>8 DEF AdvanceSites, AdvanceExcuses, Met
<1> QED
  BY <1>1, <1>4, <1>5, <1>2, <1>6, <1>8, <1>9, <1>10, <1>11, HelperContinues DEF CloseSites

\* ReturnOfTransformer
LEMMA ReturnOfTransformerStep == ASSUME IInv, ReturnOfTransformer PROVE IInv'
<1>1. /\ kind \notin Zips /\ kind \in Transformers /\ kind # "concat" /\ MayEnter
      /\ phase = "ready" /\ ~ done
  BY DEF ReturnOfTransformer, Transformers, Zips, MayEnter
<1>2. /\ frames = <<>> /\ HelperAlways /\ HelperIdle /\ Flags
      /\ iter \in IterType /\ TypeInv /\ Good
  BY <1>1, NothingWaits DEF IInv, HelperIdle
<1>3. PICK n : n = IF current # 0 THEN current ELSE Source
  OBVIOUS
<1>4. n \in Slots /\ iter[n] = "open" /\ iter[Source] = "open"
  BY <1>2, <1>3, AreSlots DEF Good, HelperAlways, Flags, Slots, Input, Padding
<1>a. PICK g : g = Frame("return", "close", n)
  OBVIOUS
<1>5. /\ g \in FrameType /\ g = Frame("return", "close", n)
      /\ g.call = "return" /\ g.at = "close" /\ g.i = n /\ g.threw = FALSE
  BY <1>4, <1>a, AreSlots, BoundsAssumption
  DEF Frame, FrameType, AdvanceSites, CloseSites, Then
<1>6. PICK f : f = [g EXCEPT !.then = IF current # 0 THEN "inner" ELSE "return"]
  OBVIOUS
<1>7. /\ f \in FrameType /\ f.call = "return" /\ f.at = "close" /\ f.i = n /\ f.threw = FALSE
      /\ f.then = IF current # 0 THEN "inner" ELSE "return"
  BY <1>5, <1>6 DEF FrameType, Then
<1>8. Begins(f, iter)
  <2>1. CASE current # 0
    BY <1>3, <1>5, <1>6, <2>1 DEF ReturnOfTransformer
  <2>2. CASE current = 0
    BY <1>3, <1>5, <1>6, <2>2 DEF ReturnOfTransformer
  <2> QED BY <2>1, <2>2
<1>9. Waits(f, iter)
  BY <1>2, <1>7, <1>8, BeginsWaits
<1>10. iter' = [iter EXCEPT ![n] = "closed"]
  BY <1>7, <1>9 DEF Waits, Shut, CloseSites
<1>11. /\ Flags' /\ Remembers /\ kind' = kind /\ current' = current /\ phase' = phase
       /\ done' = TRUE
  BY <1>2 DEF Flags, ReturnOfTransformer, ofHelpers, ofZips, Stays, Remembers
<1>12. HelperAlways'
  BY <1>1, <1>2, <1>10, <1>11 DEF HelperAlways, IterType
<1>13. HelperBusy(f)'
  <2>1. CASE current # 0
    <3>1. n = Inner /\ iter'[Inner] # "open" /\ iter'[Source] = "open"
      BY <1>1, <1>2, <1>3, <1>4, <1>10, <2>1, SlotsAre DEF HelperAlways, IterType
    <3> QED BY <1>1, <1>3, <1>7, <1>11, <2>1, <3>1 DEF HelperBusy, Returning
  <2>2. CASE current = 0
    <3>1. NoneOpen'
      BY <1>1, <1>2, <1>3, <1>10, <2>2, SlotsAre DEF HelperAlways, IterType, NoneOpen
    <3> QED BY <1>1, <1>7, <1>11, <2>2, <3>1 DEF HelperBusy, Returning
  <2> QED BY <2>1, <2>2
<1> QED
  BY <1>1, <1>2, <1>4, <1>7, <1>9, <1>11, <1>12, <1>13, HelperContinues DEF AdvanceSites

\* ReturnOfConcat
LEMMA ReturnOfConcatStep == ASSUME IInv, ReturnOfConcat PROVE IInv'
<1>1. /\ kind \notin Zips /\ kind = "concat" /\ MayEnter /\ phase = "ready" /\ ~ done
      /\ ~ executing
  BY DEF ReturnOfConcat, Zips, MayEnter
<1>2. /\ frames = <<>> /\ HelperAlways /\ HelperIdle /\ Flags
      /\ iter \in IterType /\ TypeInv
      /\ current # 0 => iter[current] = "open" \/ Met({"concatFailed"})
  BY <1>1, NothingWaits DEF IInv, HelperIdle
<1>3. /\ Remembers /\ departed' = departed /\ kind' = kind /\ current' = current
      /\ phase' = phase /\ UNCHANGED <<remaining, index, ofZips>>
  BY DEF ReturnOfConcat, Stays, Remembers, ofHelpers
<1>4. CASE current # 0
  <2>1. current \in Slots
    BY <1>2, SlotsAre DEF Flags
  <2>a. PICK g : g = Frame("return", "close", current)
    OBVIOUS
  <2>2. /\ g \in FrameType /\ g = Frame("return", "close", current)
        /\ g.call = "return" /\ g.at = "close" /\ g.i = current /\ g.threw = FALSE
    BY <2>1, <2>a, AreSlots, BoundsAssumption
    DEF Frame, FrameType, AdvanceSites, CloseSites, Then
  <2>3. PICK f : f = [g EXCEPT !.then = "return"]
    OBVIOUS
  <2>4. /\ f \in FrameType /\ f.call = "return" /\ f.at = "close" /\ f.i = current
        /\ f.threw = FALSE /\ f.then = "return"
    BY <2>2, <2>3 DEF FrameType, Then
  <2>5. Begins(f, iter) /\ executing' = TRUE /\ done' = done
    BY <1>4, <2>2, <2>3 DEF ReturnOfConcat
  <2>6. Waits(f, iter)
    BY <1>2, <2>4, <2>5, BeginsWaits
  <2>7. iter' = [iter EXCEPT ![current] = "closed"]
    BY <2>4, <2>6 DEF Waits, Shut, CloseSites
  <2>8. Flags'
    BY <1>2, <1>3, <2>5 DEF Flags, ofZips
  <2>9. HelperAlways' /\ HelperBusy(f)'
    BY <1>1, <1>2, <1>3, <2>1, <2>4, <2>5, <2>7
    DEF HelperAlways, HelperBusy, Returning, NoneOpen, IterType
  <2>10. f.at \in CloseSites => iter[f.i] = "open" \/ Met(CloseExcuses)'
    BY <1>2, <1>3, <1>4, <2>4 DEF CloseExcuses, AdvanceExcuses, Met
  <2> QED
    BY <1>1, <1>2, <1>3, <2>4, <2>6, <2>8, <2>9, <2>10, HelperContinues DEF AdvanceSites
<1>5. CASE current = 0
  <2>1. /\ done' = TRUE /\ executing' = executing /\ iter' = iter /\ frames' = <<>>
        /\ misuse' = misuse /\ lost' = lost
    BY <1>2, <1>5 DEF ReturnOfConcat
  <2>2. Flags'
    BY <1>2, <1>3, <2>1 DEF Flags, ofZips
  <2>3. HelperAlways' /\ HelperIdle'
    BY <1>1, <1>2, <1>3, <1>5, <2>1, SlotsAre
    DEF HelperAlways, HelperIdle, NoneOpen, Consumers
  <2>4. iter' \in IterType /\ lost' \in BOOLEAN
    BY <1>2, <2>1 DEF TypeInv
  <2> QED
    BY <1>1, <1>3, <2>1, <2>2, <2>3, <2>4, HelperEnds
<1> QED BY <1>4, <1>5

\* A call of the helper that waits goes on.
LEMMA HelperGoes ==
    ASSUME IInv, frames # <<>>, NEW f \in FrameType, NEW it \in IterType, GoesOn(f, it)
    PROVE  Waits(f, it)
  BY GoesOnWaits DEF IInv

\* A call of the helper ends: nothing waits any more, and executing is reset.
LEMMA HelperStops ==
    ASSUME IInv, frames # <<>>, NEW f \in FrameType, NEW answer, NEW it \in IterType,
           Ends(f, answer, it)
    PROVE  /\ frames' = <<>> /\ iter' = it /\ misuse' = misuse /\ executing' = FALSE
           /\ lost' \in BOOLEAN
           /\ lost' => lost \/ (f.threw /\ answer # "error")
<1>1. Below = <<>>
  BY OneFrame DEF IInv
<1>2. f.threw \in BOOLEAN /\ lost \in BOOLEAN
  BY DEF FrameType, IInv, TypeInv
<1> QED BY <1>1, <1>2 DEF Ends

\* AdvanceValue: somebody looks at the value.
LEMMA AdvanceValueStep == ASSUME IInv, AdvanceValue PROVE IInv'
<1>1. kind \notin Zips /\ AtSite("advance")
  BY DEF AdvanceValue, Mine
<1>2. /\ frames # <<>> /\ HelperAlways /\ Flags /\ iter \in IterType /\ TypeInv
      /\ kind \in Kinds
  BY <1>1, HelperWaits DEF IInv, Flags
<1>3. PICK t \in FrameType : t = Top /\ t.at = "advance" /\ HelperBusy(t)
  BY <1>1, HelperWaits
<1>4. /\ kind' = kind /\ current' = current /\ phase' = phase /\ done' = done
      /\ Remembers /\ departed' = departed /\ UNCHANGED <<index, ofZips>>
  BY DEF AdvanceValue, Stays, Remembers
<1>5. PICK toCallback : toCallback = (kind \in {"map", "filter"} \cup (Consumers \ {"toArray"})
                                      \/ (kind = "flatMap" /\ t.i = Source))
  OBVIOUS
<1>6. \/ t.call = "consume" /\ Consuming(t)
      \/ t.call = "next" /\ phase = "ready" /\ executing /\ kind = "concat" /\ NextingConcat(t)
      \/ t.call = "next" /\ phase = "ready" /\ executing /\ kind # "concat" /\ NextingOther(t)
  BY <1>3 DEF HelperBusy, Rejecting, Nexting, Returning
<1>7. ASSUME executing' = executing, remaining' \in 0 .. MaxRemaining PROVE Flags'
  BY <1>2, <1>4, <1>7 DEF Flags, ofZips
<1>8. CASE toCallback /\ t.then # "first" /\ GoesOn([t EXCEPT !.at = "callback"], iter)
           /\ executing' = executing /\ remaining' = remaining
  <2>1. PICK f : f = [t EXCEPT !.at = "callback"]
    OBVIOUS
  <2>2. /\ f \in FrameType /\ f.call = t.call /\ f.at = "callback" /\ f.i = t.i
        /\ f.then = t.then /\ f.threw = t.threw
    BY <1>3, <2>1 DEF FrameType, OtherSites
  <2>3. Waits(f, iter)
    BY <1>2, <1>8, <2>1, <2>2, HelperGoes
  <2>4. iter' = iter
    BY <2>2, <2>3 DEF Waits, Shut, CloseSites
  <2>5. HelperAlways'
    BY <1>2, <1>4, <2>4 DEF HelperAlways
  <2>6. HelperBusy(f)'
    <3>1. CASE t.call = "consume" /\ Consuming(t)
      <4>1. t.then = "none"
        BY <1>3, <1>8, <3>1 DEF Consuming
      <4> QED BY <1>3, <1>4, <2>2, <2>4, <3>1, <4>1 DEF HelperBusy, Consuming, Met
    <3>2. CASE t.call = "next" /\ kind = "concat"
      BY <1>5, <1>8, <3>2 DEF Consumers
    <3>3. CASE t.call = "next" /\ phase = "ready" /\ executing /\ kind # "concat"
               /\ NextingOther(t)
      <4>1. kind \in {"map", "filter", "flatMap"} /\ (kind = "flatMap" => t.i = Source)
        BY <1>5, <1>8, <3>3 DEF NextingOther, Transformers, Consumers
      <4>2. current = 0 /\ t.i = Source /\ t.then = "none" /\ iter[Source] = "open" /\ ~ t.threw
            /\ ~ done /\ kind \in Transformers
        BY <1>2, <1>3, <3>3, <4>1, SlotsAre DEF NextingOther, HelperAlways, Good
      <4> QED
        BY <1>4, <1>8, <2>2, <2>4, <3>3, <4>1, <4>2 DEF HelperBusy, Nexting, NextingOther
    <3> QED BY <1>6, <3>1, <3>2, <3>3
  <2>7. Flags'
    BY <1>2, <1>7, <1>8 DEF Flags
  <2> QED
    BY <1>1, <1>2, <1>4, <2>2, <2>3, <2>5, <2>6, <2>7, HelperContinues
    DEF AdvanceSites, CloseSites
<1>9. CASE (kind = "toArray" \/ t.then = "first") /\ GoesOn([t EXCEPT !.then = "none"], iter)
           /\ executing' = executing /\ remaining' = remaining
  <2>1. PICK f : f = [t EXCEPT !.then = "none"]
    OBVIOUS
  <2>2. /\ f \in FrameType /\ f.call = t.call /\ f.at = "advance" /\ f.i = t.i
        /\ f.then = "none" /\ f.threw = t.threw
    BY <1>3, <2>1 DEF FrameType, Then
  <2>3. Waits(f, iter)
    BY <1>2, <1>9, <2>1, <2>2, HelperGoes
  <2>4. iter' = iter
    BY <2>2, <2>3 DEF Waits, Shut, CloseSites
  <2>5. HelperAlways'
    BY <1>2, <1>4, <2>4 DEF HelperAlways
  <2>6. HelperBusy(f)' /\ (iter[f.i] = "open" \/ Met(AdvanceExcuses)')
    <3>1. CASE t.call = "consume" /\ Consuming(t)
      BY <1>3, <1>4, <2>2, <2>4, <3>1 DEF HelperBusy, Consuming, Met, AdvanceExcuses
    <3>2. CASE t.call = "next" /\ phase = "ready" /\ executing /\ kind = "concat"
               /\ NextingConcat(t)
      BY <1>3, <1>4, <1>9, <2>2, <2>4, <3>2
      DEF HelperBusy, Nexting, NextingConcat, Met, AdvanceExcuses
    <3>3. CASE t.call = "next" /\ phase = "ready" /\ executing /\ kind # "concat"
               /\ NextingOther(t)
      BY <1>3, <1>9, <3>3 DEF NextingOther, Transformers
    <3> QED BY <1>6, <3>1, <3>2, <3>3
  <2>7. Flags'
    BY <1>2, <1>7, <1>9 DEF Flags
  <2> QED
    BY <1>1, <1>2, <1>4, <2>2, <2>3, <2>5, <2>6, <2>7, HelperContinues DEF CloseSites
<1>10. CASE kind = "drop" /\ remaining > 0 /\ remaining' = remaining - 1 /\ GoesOn(t, iter)
            /\ executing' = executing
  <2>3. Waits(t, iter)
    BY <1>2, <1>3, <1>10, HelperGoes
  <2>4. iter' = iter
    BY <1>3, <2>3 DEF Waits, Shut, CloseSites
  <2>5. HelperAlways'
    BY <1>2, <1>4, <2>4 DEF HelperAlways
  <2>6. t.call = "next" /\ phase = "ready" /\ executing /\ NextingOther(t)
    BY <1>6, <1>10 DEF Consuming, Consumers
  <2>7. HelperBusy(t)' /\ iter[t.i] = "open"
    BY <1>3, <1>4, <1>10, <2>4, <2>6 DEF HelperBusy, Nexting, NextingOther, Good
  <2>8. Flags'
    <3>1. remaining \in 0 .. MaxRemaining /\ remaining > 0 /\ remaining' = remaining - 1
      BY <1>2, <1>10 DEF Flags
    <3>2. remaining' \in 0 .. MaxRemaining
      BY ONLY <3>1, BoundsAssumption
    <3> QED BY <1>7, <1>10, <3>2
  <2> QED
    BY <1>1, <1>2, <1>3, <1>4, <2>3, <2>5, <2>7, <2>8, HelperContinues DEF CloseSites
<1>11. CASE ~ toCallback /\ kind # "toArray" /\ Ends(t, "value", iter) /\ remaining' = remaining
  <2>1. /\ frames' = <<>> /\ iter' = iter /\ misuse' = misuse /\ executing' = FALSE
        /\ lost' \in BOOLEAN /\ (lost' => lost \/ t.threw)
    BY <1>2, <1>3, <1>11, HelperStops
  <2>2. Flags'
    BY <1>2, <1>4, <1>11, <2>1 DEF Flags, ofZips
  <2>3. t.call = "next" /\ phase = "ready" /\ executing
    BY <1>5, <1>6, <1>11 DEF Consuming
  <2>4. HelperAlways'
    BY <1>2, <1>4, <2>1 DEF HelperAlways
  <2>5. HelperIdle' /\ ~ t.threw
    <3>1. CASE kind = "concat" /\ NextingConcat(t)
      BY <1>3, <1>4, <2>1, <2>3, <3>1 DEF HelperIdle, NextingConcat, Met, Consumers
    <3>2. CASE kind # "concat" /\ NextingOther(t)
      BY <1>3, <1>4, <2>1, <2>3, <3>2
      DEF HelperIdle, NextingOther, Met, Transformers, Consumers, Good
    <3> QED BY <1>6, <2>3, <3>1, <3>2
  <2> QED
    BY <1>1, <1>2, <1>4, <2>1, <2>2, <2>4, <2>5, HelperEnds
<1>12. \/ toCallback /\ t.then # "first" /\ GoesOn([t EXCEPT !.at = "callback"], iter)
          /\ executing' = executing /\ remaining' = remaining
       \/ (kind = "toArray" \/ t.then = "first") /\ GoesOn([t EXCEPT !.then = "none"], iter)
          /\ executing' = executing /\ remaining' = remaining
       \/ kind = "drop" /\ remaining > 0 /\ remaining' = remaining - 1 /\ GoesOn(t, iter)
          /\ executing' = executing
       \/ ~ toCallback /\ kind # "toArray" /\ Ends(t, "value", iter) /\ remaining' = remaining
  BY <1>3, <1>5 DEF AdvanceValue
<1> QED BY <1>8, <1>9, <1>10, <1>11, <1>12

\* AdvanceDone: the underlying iterator has ended, and the call with it.
LEMMA AdvanceDoneStep == ASSUME IInv, AdvanceDone PROVE IInv'
<1>1. /\ kind \notin Zips /\ AtSite("advance") /\ kind # "concat" /\ kind # "from"
  BY DEF AdvanceDone, Mine
<1>2. /\ frames # <<>> /\ HelperAlways /\ Flags /\ iter \in IterType /\ TypeInv
      /\ kind \in Kinds
  BY <1>1, HelperWaits DEF IInv, Flags
<1>3. PICK t \in FrameType : t = Top /\ t.at = "advance" /\ HelperBusy(t)
  BY <1>1, HelperWaits
<1>4. /\ kind' = kind /\ current' = current /\ phase' = phase
      /\ done' = (done \/ kind \in Transformers)
      /\ Remembers /\ departed' = departed /\ UNCHANGED <<remaining, index, ofZips>>
  BY DEF AdvanceDone, Stays, Remembers, ofHelpers
<1>5. ~ (kind = "flatMap" /\ t.i = Inner)
  BY <1>3 DEF AdvanceDone
<1>6. \/ t.call = "consume" /\ Consuming(t)
      \/ t.call = "next" /\ phase = "ready" /\ executing /\ NextingOther(t)
  BY <1>1, <1>3 DEF HelperBusy, Rejecting, Nexting, Returning
<1>7. PICK it : it = [iter EXCEPT ![Source] = "ended"]
  OBVIOUS
<1>8. it \in IterType
  BY <1>2, <1>7, AreSlots DEF IterType
<1>9. PICK answer : answer = IF t.then = "first" THEN "error" ELSE "done"
  OBVIOUS
<1>10. Ends(t, answer, it)
  BY <1>3, <1>7, <1>9 DEF AdvanceDone
<1>11. /\ frames' = <<>> /\ iter' = it /\ misuse' = misuse /\ executing' = FALSE
       /\ lost' \in BOOLEAN /\ (lost' => lost \/ t.threw)
  BY <1>2, <1>3, <1>8, <1>10, HelperStops
<1>12. Flags'
  BY <1>2, <1>4, <1>11 DEF Flags, ofZips
<1>13. current = 0
  BY <1>2, <1>3, <1>5, <1>6, SlotsAre
  DEF HelperAlways, Consuming, NextingOther, Consumers, Transformers
<1>14. HelperAlways' /\ NoneOpen'
  BY <1>1, <1>2, <1>4, <1>7, <1>11, <1>13, SlotsAre DEF HelperAlways, NoneOpen, IterType
<1>15. HelperIdle' /\ (t.threw => Met(LossExcuses)')
  <2>1. CASE t.call = "consume" /\ Consuming(t)
    BY <1>3, <1>4, <1>11, <1>14, <2>1
    DEF HelperIdle, Consuming, Met, LossExcuses, Consumers, Transformers
  <2>2. CASE t.call = "next" /\ phase = "ready" /\ executing /\ NextingOther(t)
    BY <1>3, <1>4, <1>11, <1>14, <2>2
    DEF HelperIdle, NextingOther, Consumers, Transformers
  <2> QED BY <1>6, <2>1, <2>2
<1> QED
  BY <1>1, <1>2, <1>4, <1>8, <1>11, <1>12, <1>14, <1>15, HelperEnds

\* InnerDone: flatMap goes on with its source.
LEMMA InnerDoneStep == ASSUME IInv, InnerDone PROVE IInv'
<1>1. /\ kind \notin Zips /\ AtSite("advance") /\ kind = "flatMap"
  BY DEF InnerDone, Zips
<1>2. /\ frames # <<>> /\ HelperAlways /\ Flags /\ iter \in IterType /\ TypeInv
  BY <1>1, HelperWaits DEF IInv
<1>3. PICK t \in FrameType : t = Top /\ t.at = "advance" /\ HelperBusy(t)
  BY <1>1, HelperWaits
<1>4. /\ kind' = kind /\ current' = 0 /\ phase' = phase /\ done' = done
      /\ executing' = executing
      /\ Remembers /\ departed' = departed /\ UNCHANGED <<remaining, index, ofZips>>
  BY DEF InnerDone, Stays, Remembers
<1>5. t.i = Inner
  BY <1>3 DEF InnerDone
<1>6. t.call = "next" /\ phase = "ready" /\ executing /\ NextingOther(t)
  BY <1>1, <1>3 DEF HelperBusy, Rejecting, Nexting, Returning, Consuming, Consumers
<1>7. current = Inner /\ Good
  BY <1>3, <1>5, <1>6, SlotsAre DEF NextingOther
<1>8. PICK it : it = [iter EXCEPT ![Inner] = "ended"]
  OBVIOUS
<1>9. it \in IterType /\ it[Source] = "open" /\ it[Inner] # "open"
  BY <1>2, <1>7, <1>8, SlotsAre DEF IterType, Good
<1>10. PICK f : f = [t EXCEPT !.i = Source]
  OBVIOUS
<1>11. /\ f \in FrameType /\ f.call = "next" /\ f.at = "advance" /\ f.i = Source
       /\ f.then = t.then /\ f.threw = t.threw
  BY <1>3, <1>6, <1>10, AreSlots DEF FrameType
<1>12. Waits(f, it)
  BY <1>2, <1>3, <1>8, <1>9, <1>10, <1>11, HelperGoes DEF InnerDone
<1>13. iter' = it
  BY <1>11, <1>12 DEF Waits, Shut, CloseSites
<1>14. Flags'
  BY <1>2, <1>4, BoundsAssumption DEF Flags, ofZips
<1>15. HelperAlways'
  BY <1>1, <1>2, <1>4, <1>7, <1>8, <1>9, <1>13, SlotsAre DEF HelperAlways, IterType
<1>16. HelperBusy(f)'
  BY <1>1, <1>3, <1>4, <1>6, <1>9, <1>11, <1>13 DEF HelperBusy, Nexting, NextingOther, Good
<1> QED
  BY <1>1, <1>2, <1>4, <1>9, <1>11, <1>12, <1>14, <1>15, <1>16, HelperContinues
  DEF CloseSites

\* ConcatDone: concat goes on with the next item, or there is none.
LEMMA ConcatDoneStep == ASSUME IInv, ConcatDone PROVE IInv'
<1>1. /\ kind \notin Zips /\ AtSite("advance") /\ kind = "concat"
  BY DEF ConcatDone, Zips
<1>2. /\ frames # <<>> /\ HelperAlways /\ Flags /\ iter \in IterType /\ TypeInv
  BY <1>1, HelperWaits DEF IInv
<1>3. PICK t \in FrameType : t = Top /\ t.at = "advance" /\ HelperBusy(t)
  BY <1>1, HelperWaits
<1>4. /\ kind' = kind /\ current' = 0 /\ phase' = phase /\ done' = done
      /\ Remembers /\ departed' = departed /\ UNCHANGED <<remaining, ofZips>>
  BY DEF ConcatDone, Stays, Remembers
<1>5. t.call = "next" /\ phase = "ready" /\ executing /\ NextingConcat(t)
  BY <1>1, <1>3 DEF HelperBusy, Rejecting, Nexting, Returning, Consuming, Consumers
<1>6. current \in Items /\ current \in Slots /\ ~ done /\ ~ t.threw
  BY <1>3, <1>5, SlotsAre DEF NextingConcat
<1>7. PICK it : it = [iter EXCEPT ![current] = "ended"]
  OBVIOUS
<1>8. it \in IterType /\ \A s \in Slots : it[s] # "open"
  BY <1>1, <1>2, <1>6, <1>7 DEF IterType, HelperAlways
<1>9. index \in 0 .. MaxItems
  BY <1>2 DEF Flags
<1>10. CASE index < MaxItems
  <2>1. PICK f : f = [t EXCEPT !.at = "open", !.i = index + 1]
    OBVIOUS
  <2>2. index + 1 \in Items /\ index + 1 \in Slots
    BY <1>9, <1>10, SlotsAre, BoundsAssumption
  <2>3. /\ f \in FrameType /\ f.call = "next" /\ f.at = "open" /\ f.i = index + 1
        /\ f.threw = t.threw
    BY <1>3, <1>5, <2>1, <2>2 DEF FrameType, OtherSites
  <2>4. Waits(f, it) /\ executing' = executing /\ index' = index + 1
    BY <1>2, <1>3, <1>7, <1>8, <1>10, <2>1, <2>3, HelperGoes DEF ConcatDone
  <2>5. iter' = it
    BY <2>3, <2>4 DEF Waits, Shut, CloseSites
  <2>6. Flags'
    <3>1. index' \in 0 .. MaxItems /\ 1 .. index \subseteq 1 .. index'
      BY <1>9, <1>10, <2>4, BoundsAssumption
    <3> QED BY <1>2, <1>4, <2>4, <3>1, BoundsAssumption DEF Flags, ofZips
  <2>7. HelperAlways' /\ HelperBusy(f)'
    BY <1>1, <1>4, <1>5, <1>6, <1>8, <2>2, <2>3, <2>4, <2>5
    DEF HelperAlways, HelperBusy, Nexting, NextingConcat
  <2> QED
    BY <1>1, <1>2, <1>4, <1>8, <2>3, <2>4, <2>6, <2>7, HelperContinues
    DEF CloseSites, AdvanceSites
<1>11. CASE ~ (index < MaxItems)
  <2>1. Ends(t, "done", it) /\ index' = index
    BY <1>3, <1>7, <1>11 DEF ConcatDone
  <2>2. /\ frames' = <<>> /\ iter' = it /\ misuse' = misuse /\ executing' = FALSE
        /\ lost' \in BOOLEAN /\ (lost' => lost)
    BY <1>2, <1>3, <1>6, <1>8, <2>1, HelperStops
  <2>3. Flags'
    <3>1. 0 \in 0 .. MaxItems
      BY BoundsAssumption
    <3> QED BY <1>2, <1>4, <2>1, <2>2, <3>1 DEF Flags, ofZips
  <2>4. HelperAlways' /\ HelperIdle'
    BY <1>1, <1>4, <1>5, <1>6, <1>8, <2>1, <2>2
    DEF HelperAlways, HelperIdle, NoneOpen, Consumers
  <2> QED
    BY <1>1, <1>4, <1>8, <2>2, <2>3, <2>4, HelperEnds
<1> QED BY <1>10, <1>11

\* AdvanceFails: the call ends with the error of next().
LEMMA AdvanceFailsStep == ASSUME IInv, AdvanceFails PROVE IInv'
<1>1. /\ kind \notin Zips /\ AtSite("advance")
  BY DEF AdvanceFails, Mine
<1>2. /\ frames # <<>> /\ HelperAlways /\ Flags /\ iter \in IterType /\ TypeInv
      /\ kind \in Kinds
  BY <1>1, HelperWaits DEF IInv, Flags
<1>3. PICK t \in FrameType : t = Top /\ t.at = "advance" /\ HelperBusy(t)
  BY <1>1, HelperWaits
<1>4. /\ kind' = kind /\ current' = current /\ phase' = phase
      /\ done' = (done \/ kind \in Transformers)
      /\ Remembers /\ UNCHANGED <<remaining, index, ofZips>>
      /\ kind = "concat" => "concatFailed" \in departed'
      /\ kind = "flatMap" /\ t.i = Inner => "innerFailed" \in departed'
  BY <1>3 DEF AdvanceFails, Remembers, ofHelpers
<1>5. \/ t.call = "consume" /\ Consuming(t)
      \/ t.call = "next" /\ phase = "ready" /\ executing /\ kind = "concat" /\ NextingConcat(t)
      \/ t.call = "next" /\ phase = "ready" /\ executing /\ kind # "concat" /\ NextingOther(t)
  BY <1>3 DEF HelperBusy, Rejecting, Nexting, Returning
<1>6. PICK it : it = [iter EXCEPT ![t.i] = "failed"]
  OBVIOUS
<1>7. it \in IterType /\ t.i \in Slots
  BY <1>2, <1>3, <1>6 DEF IterType, FrameType
<1>8. PICK f : f = [t EXCEPT !.threw = TRUE]
  OBVIOUS
<1>9. f \in FrameType
  BY <1>3, <1>8 DEF FrameType
<1>10. Ends(f, "error", it)
  BY <1>3, <1>6, <1>8 DEF AdvanceFails
<1>11. /\ frames' = <<>> /\ iter' = it /\ misuse' = misuse /\ executing' = FALSE
       /\ lost' \in BOOLEAN /\ (lost' => lost)
  BY <1>2, <1>9, <1>7, <1>10, HelperStops
<1>12. Flags'
  BY <1>2, <1>4, <1>11 DEF Flags, ofZips
<1>13. HelperAlways'
  BY <1>2, <1>4, <1>6, <1>7, <1>11 DEF HelperAlways, IterType
<1>14. HelperIdle'
  <2>1. CASE t.call = "consume" /\ Consuming(t)
    <3>1. current = 0 /\ kind # "concat" /\ kind \notin Transformers
      BY <1>2, <2>1 DEF HelperAlways, Consuming, Consumers, Transformers
    <3>2. NoneOpen'
      BY <1>2, <1>6, <1>7, <1>11, <2>1, <3>1, SlotsAre
      DEF HelperAlways, NoneOpen, Consuming, IterType
    <3> QED BY <1>4, <2>1, <3>1, <3>2 DEF HelperIdle, Consuming
  <2>2. CASE t.call = "next" /\ phase = "ready" /\ kind = "concat" /\ NextingConcat(t)
    BY <1>4, <2>2 DEF HelperIdle, NextingConcat, Met, Consumers, Transformers
  <2>3. CASE t.call = "next" /\ phase = "ready" /\ kind # "concat" /\ NextingOther(t)
    <3>1. kind \in Transformers /\ kind \notin Consumers /\ done' = TRUE
      BY <1>4, <2>3 DEF NextingOther, Consumers, Transformers
    <3>2. CASE current # 0
      <4>1. kind = "flatMap" /\ t.i = Inner
        BY <1>2, <1>3, <2>3, <3>2, SlotsAre DEF HelperAlways, NextingOther
      <4> QED BY <1>4, <2>3, <3>1, <4>1 DEF HelperIdle, Met
    <3>3. CASE current = 0
      <4>1. t.i = Source
        BY <1>3, <2>3, <3>3 DEF NextingOther
      <4>2. NoneOpen'
        BY <1>2, <1>6, <1>7, <1>11, <2>3, <3>3, <4>1, SlotsAre
        DEF HelperAlways, NoneOpen, IterType
      <4> QED BY <1>4, <2>3, <3>1, <4>2 DEF HelperIdle
    <3> QED BY <3>2, <3>3
  <2> QED BY <1>5, <2>1, <2>2, <2>3
<1> QED
  BY <1>1, <1>2, <1>4, <1>7, <1>11, <1>12, <1>13, <1>14, HelperEnds

\* What a call that waits for a callback relies on.
LEMMA CallbackWaits ==
    ASSUME IInv, AtSite("callback")
    PROVE  /\ kind \notin Zips /\ kind # "concat" /\ kind \in Kinds /\ current = 0
           /\ frames # <<>> /\ HelperAlways /\ Flags /\ iter \in IterType /\ TypeInv
           /\ \E t \in FrameType :
                 /\ t = Top /\ t.at = "callback" /\ t.i = Source /\ t.then = "none"
                 /\ \/ t.call = "consume" /\ Consuming(t)
                    \/ /\ t.call = "next" /\ phase = "ready" /\ executing /\ NextingOther(t)
                       /\ kind \in {"map", "filter", "flatMap"}
<1>1. kind \notin Zips
  BY HelperSites
<1>2. /\ frames # <<>> /\ HelperAlways /\ Flags /\ iter \in IterType /\ TypeInv
      /\ kind \in Kinds
  BY <1>1, HelperWaits DEF IInv, Flags
<1>3. PICK t \in FrameType : t = Top /\ t.at = "callback" /\ HelperBusy(t)
  BY <1>1, HelperWaits
<1>4. \/ t.call = "consume" /\ Consuming(t)
      \/ t.call = "next" /\ phase = "ready" /\ executing /\ NextingOther(t) /\ kind # "concat"
  BY <1>3 DEF HelperBusy, Rejecting, Nexting, NextingConcat, Returning
<1>5. /\ t.i = Source /\ t.then = "none" /\ current = 0 /\ kind # "concat"
  BY <1>2, <1>3, <1>4
  DEF Consuming, NextingOther, HelperAlways, Consumers, Transformers
<1>6. \/ t.call = "consume" /\ Consuming(t)
      \/ /\ t.call = "next" /\ phase = "ready" /\ executing /\ NextingOther(t)
         /\ kind \in {"map", "filter", "flatMap"}
  BY <1>3, <1>4 DEF NextingOther
<1> QED BY <1>1, <1>2, <1>3, <1>5, <1>6

\* The frame that closes the iterator after a failure.
LEMMA CleanupFrame ==
    ASSUME NEW t \in FrameType, t = Top, NEW value \in Thrown,
           NEW f, f = Cleanup(value)
    PROVE  /\ f \in FrameType /\ f.call = t.call /\ f.at = "close" /\ f.i = t.i
           /\ f.then = "throw"
<1>1. PICK e : e = IF kind \in Consumers THEN value ELSE "error"
  OBVIOUS
<1>2. e \in Thrown
  BY <1>1 DEF Thrown
<1>3. f = [t EXCEPT !.at = "close", !.then = "throw", !.threw = TRUE, !.error = e]
  BY <1>1 DEF Cleanup
<1> QED BY <1>2, <1>3 DEF FrameType, CloseSites, Then

\* A callback that throws, and a value that cannot be read: the iterator is closed.
LEMMA CleanupStep ==
    ASSUME IInv, AtSite("callback"), NEW value \in Thrown, NEW it \in IterType,
           \/ it = iter /\ departed' = departed
           \/ /\ it = [iter EXCEPT ![Source] = "failed"]
              /\ departed' = departed \cup {"unreadable"},
           GoesOn(Cleanup(value), it),
           UNCHANGED <<kind, phase, done, executing, ofHelpers, index, ofZips>>
    PROVE  IInv'
<1>1. /\ kind \notin Zips /\ kind # "concat" /\ kind \in Kinds /\ current = 0
      /\ frames # <<>> /\ HelperAlways /\ Flags /\ iter \in IterType /\ TypeInv
  BY CallbackWaits
<1>2. PICK t \in FrameType :
         /\ t = Top /\ t.at = "callback" /\ t.i = Source /\ t.then = "none"
         /\ \/ t.call = "consume" /\ Consuming(t)
            \/ /\ t.call = "next" /\ phase = "ready" /\ executing /\ NextingOther(t)
               /\ kind \in {"map", "filter", "flatMap"}
  BY CallbackWaits
<1>3. PICK f : f = Cleanup(value)
  OBVIOUS
<1>4. /\ f \in FrameType /\ f.call = t.call /\ f.at = "close" /\ f.i = Source
      /\ f.then = "throw"
  BY <1>2, <1>3, CleanupFrame
<1>5. Waits(f, it)
  BY <1>1, <1>3, <1>4, HelperGoes
<1>6. /\ iter' = [it EXCEPT ![Source] = "closed"] /\ iter' \in IterType
      /\ \A s \in Slots : s # Source => it[s] = iter[s]
  BY <1>1, <1>4, <1>5 DEF Waits, Shut, CloseSites, IterType
<1>7. /\ kind' = kind /\ phase' = phase /\ done' = done /\ executing' = executing
      /\ current' = current /\ Remembers
  BY DEF ofHelpers, Remembers
<1>8. Flags'
  BY <1>1 DEF Flags, ofHelpers, ofZips
<1>9. NoneOpen' /\ HelperAlways'
  BY <1>1, <1>6, <1>7, SlotsAre DEF HelperAlways, NoneOpen, IterType
<1>10. HelperBusy(f)'
  <2>1. CASE t.call = "consume" /\ Consuming(t)
    BY <1>4, <1>7, <1>9, <2>1, AreSlots DEF HelperBusy, Consuming, NoneOpen, Met
  <2>2. CASE t.call = "next" /\ phase = "ready" /\ executing /\ NextingOther(t)
    BY <1>1, <1>4, <1>7, <1>9, <2>2 DEF HelperBusy, Nexting, NextingOther
  <2> QED BY <1>2, <2>1, <2>2
<1>11. it[f.i] = "open" \/ Met(CloseExcuses)'
  <2>1. CASE it = iter /\ departed' = departed
    <3>1. iter[Source] = "open" \/ Met({"falsyThrown"})
      BY <1>2 DEF Consuming, NextingOther
    <3> QED BY <1>4, <2>1, <3>1 DEF Met, CloseExcuses, AdvanceExcuses
  <2>2. CASE departed' = departed \cup {"unreadable"}
    BY <2>2 DEF Met, CloseExcuses
  <2> QED BY <2>1, <2>2
<1> QED
  BY <1>1, <1>4, <1>5, <1>7, <1>8, <1>9, <1>10, <1>11, HelperContinues DEF AdvanceSites

\* CallbackThrows
LEMMA CallbackThrowsStep ==
    ASSUME IInv, NEW value \in Thrown, CallbackThrows(value) PROVE IInv'
<1>1. iter \in IterType
  BY DEF IInv, TypeInv
<1> QED BY <1>1, CleanupStep DEF CallbackThrows, Stays

\* ValueUnreadable
LEMMA ValueUnreadableStep ==
    ASSUME IInv, NEW value \in Thrown, ValueUnreadable(value) PROVE IInv'
<1>1. PICK it : it = [iter EXCEPT ![Source] = "failed"]
  OBVIOUS
<1>2. it \in IterType
  BY <1>1, AreSlots DEF IInv, TypeInv, IterType
<1> QED BY <1>1, <1>2, CleanupStep DEF ValueUnreadable, Departs

\* CallbackReturns: the callback has answered.
LEMMA CallbackReturnsStep ==
    ASSUME IInv, NEW true \in BOOLEAN, CallbackReturns(true) PROVE IInv'
<1>0. AtSite("callback")
  BY DEF CallbackReturns
<1>1. /\ kind \notin Zips /\ kind # "concat" /\ kind \in Kinds /\ current = 0
      /\ frames # <<>> /\ HelperAlways /\ Flags /\ iter \in IterType /\ TypeInv
  BY <1>0, CallbackWaits
<1>2. PICK t \in FrameType :
         /\ t = Top /\ t.at = "callback" /\ t.i = Source /\ t.then = "none"
         /\ \/ t.call = "consume" /\ Consuming(t)
            \/ /\ t.call = "next" /\ phase = "ready" /\ executing /\ NextingOther(t)
               /\ kind \in {"map", "filter", "flatMap"}
  BY <1>0, CallbackWaits
<1>3. /\ kind' = kind /\ phase' = phase /\ done' = done /\ current' = current
      /\ Remembers /\ departed' = departed /\ UNCHANGED <<ofHelpers, index, ofZips>>
  BY DEF CallbackReturns, ofHelpers, Remembers, Stays
<1>4. ASSUME executing' \in BOOLEAN PROVE Flags'
  BY <1>1, <1>3, <1>4 DEF Flags, ofHelpers, ofZips
<1>5. ASSUME iter' = iter PROVE HelperAlways'
  BY <1>1, <1>3, <1>5 DEF HelperAlways
<1>6. CASE kind = "map" /\ Ends(t, "value", iter)
  <2>1. /\ frames' = <<>> /\ iter' = iter /\ misuse' = misuse /\ executing' = FALSE
        /\ lost' \in BOOLEAN /\ (lost' => lost \/ t.threw)
    BY <1>1, <1>2, <1>6, HelperStops
  <2>2. t.call = "next" /\ phase = "ready" /\ NextingOther(t)
    BY <1>2, <1>6 DEF Consuming, Consumers
  <2>3. HelperIdle' /\ ~ t.threw
    BY <1>1, <1>2, <1>3, <1>6, <2>1, <2>2
    DEF HelperIdle, NextingOther, Consumers, Good
  <2> QED BY <1>1, <1>3, <1>4, <1>5, <2>1, <2>3, HelperEnds
<1>7. CASE kind = "flatMap" /\ GoesOn([t EXCEPT !.at = "open", !.i = Inner], iter)
           /\ executing' = executing
  <2>1. PICK f : f = [t EXCEPT !.at = "open", !.i = Inner]
    OBVIOUS
  <2>2. /\ f \in FrameType /\ f.call = t.call /\ f.at = "open" /\ f.i = Inner
        /\ f.then = "none" /\ f.threw = t.threw
    BY <1>2, <2>1, AreSlots DEF FrameType, OtherSites
  <2>3. Waits(f, iter)
    BY <1>1, <1>7, <2>1, <2>2, HelperGoes
  <2>4. iter' = iter
    BY <2>2, <2>3 DEF Waits, Shut, CloseSites
  <2>5. t.call = "next" /\ phase = "ready" /\ executing /\ NextingOther(t)
    BY <1>2, <1>7 DEF Consuming, Consumers
  <2>6. HelperBusy(f)'
    BY <1>1, <1>2, <1>3, <1>7, <2>2, <2>4, <2>5 DEF HelperBusy, Nexting, NextingOther
  <2>7. Flags'
    BY <1>1, <1>4, <1>7 DEF Flags
  <2> QED
    BY <1>1, <1>3, <1>5, <2>2, <2>3, <2>4, <2>6, <2>7, HelperContinues
    DEF AdvanceSites, CloseSites
<1>8. CASE kind = "filter" /\ GoesOn([t EXCEPT !.at = "reread"], iter)
           /\ executing' = executing
  <2>1. PICK f : f = [t EXCEPT !.at = "reread"]
    OBVIOUS
  <2>2. /\ f \in FrameType /\ f.call = t.call /\ f.at = "reread" /\ f.i = Source
        /\ f.then = "none" /\ f.threw = t.threw
    BY <1>2, <2>1, AreSlots DEF FrameType, OtherSites
  <2>3. Waits(f, iter)
    BY <1>1, <1>8, <2>1, <2>2, HelperGoes
  <2>4. iter' = iter
    BY <2>2, <2>3 DEF Waits, Shut, CloseSites
  <2>5. t.call = "next" /\ phase = "ready" /\ executing /\ NextingOther(t)
    BY <1>2, <1>8 DEF Consuming, Consumers
  <2>6. HelperBusy(f)'
    BY <1>1, <1>2, <1>3, <1>8, <2>2, <2>4, <2>5 DEF HelperBusy, Nexting, NextingOther
  <2>7. Flags'
    BY <1>1, <1>4, <1>8 DEF Flags
  <2> QED
    BY <1>1, <1>3, <1>5, <2>2, <2>3, <2>4, <2>6, <2>7, HelperContinues
    DEF AdvanceSites, CloseSites
<1>9. CASE kind \in {"some", "find", "every"} /\ executing' = executing
           /\ GoesOn([t EXCEPT !.at = "close", !.then = "finish"], iter)
  <2>1. PICK f : f = [t EXCEPT !.at = "close", !.then = "finish"]
    OBVIOUS
  <2>2. /\ f \in FrameType /\ f.call = t.call /\ f.at = "close" /\ f.i = Source
        /\ f.then = "finish" /\ f.threw = t.threw
    BY <1>2, <2>1, AreSlots DEF FrameType, CloseSites, Then
  <2>3. Waits(f, iter)
    BY <1>1, <1>9, <2>1, <2>2, HelperGoes
  <2>4. iter' = [iter EXCEPT ![Source] = "closed"]
    BY <2>2, <2>3 DEF Waits, Shut, CloseSites
  <2>5. t.call = "consume" /\ Consuming(t)
    BY <1>2, <1>9
  <2>6. HelperAlways' /\ HelperBusy(f)'
    BY <1>1, <1>2, <1>3, <2>2, <2>4, <2>5, AreSlots
    DEF HelperAlways, HelperBusy, Consuming, IterType, Met
  <2>7. Flags'
    BY <1>1, <1>4, <1>9 DEF Flags
  <2>8. iter[f.i] = "open" \/ Met(CloseExcuses)'
    BY <1>2, <1>3, <2>2, <2>5 DEF Consuming, Met, CloseExcuses, AdvanceExcuses
  <2> QED
    BY <1>1, <1>3, <2>2, <2>3, <2>6, <2>7, <2>8, HelperContinues DEF AdvanceSites
<1>10. CASE kind \in {"filter"} \cup Consumers /\ executing' = executing
            /\ GoesOn([t EXCEPT !.at = "advance"], iter)
  <2>1. PICK f : f = [t EXCEPT !.at = "advance"]
    OBVIOUS
  <2>2. /\ f \in FrameType /\ f.call = t.call /\ f.at = "advance" /\ f.i = Source
        /\ f.then = "none" /\ f.threw = t.threw
    BY <1>2, <2>1, AreSlots DEF FrameType, AdvanceSites
  <2>3. Waits(f, iter)
    BY <1>1, <1>10, <2>1, <2>2, HelperGoes
  <2>4. iter' = iter
    BY <2>2, <2>3 DEF Waits, Shut, CloseSites
  <2>6. HelperBusy(f)' /\ (iter[f.i] = "open" \/ Met(AdvanceExcuses)')
    <3>1. CASE t.call = "consume" /\ Consuming(t)
      BY <1>2, <1>3, <2>2, <2>4, <3>1 DEF HelperBusy, Consuming, Met, AdvanceExcuses
    <3>2. CASE t.call = "next" /\ phase = "ready" /\ executing /\ NextingOther(t)
      BY <1>1, <1>2, <1>3, <1>10, <2>2, <2>4, <3>2
      DEF HelperBusy, Nexting, NextingOther, Good
    <3> QED BY <1>2, <3>1, <3>2
  <2>7. Flags'
    BY <1>1, <1>4, <1>10 DEF Flags
  <2> QED
    BY <1>1, <1>3, <1>5, <2>2, <2>3, <2>4, <2>6, <2>7, HelperContinues
    DEF AdvanceSites, CloseSites
<1>11. \/ kind = "map" /\ Ends(t, "value", iter)
       \/ kind = "flatMap" /\ GoesOn([t EXCEPT !.at = "open", !.i = Inner], iter)
          /\ executing' = executing
       \/ kind = "filter" /\ GoesOn([t EXCEPT !.at = "reread"], iter)
          /\ executing' = executing
       \/ kind \in {"some", "find", "every"} /\ executing' = executing
          /\ GoesOn([t EXCEPT !.at = "close", !.then = "finish"], iter)
       \/ kind \in {"filter"} \cup Consumers /\ executing' = executing
          /\ GoesOn([t EXCEPT !.at = "advance"], iter)
  BY <1>2 DEF CallbackReturns
<1> QED BY <1>6, <1>7, <1>8, <1>9, <1>10, <1>11

\* Reread: filter has read the value a second time.
LEMMA RereadStep ==
    ASSUME IInv, NEW outcome \in Outcomes, Reread(outcome) PROVE IInv'
<1>0. AtSite("reread")
  BY DEF Reread
<1>1. kind \notin Zips
  BY <1>0, HelperSites
<1>2. /\ frames # <<>> /\ HelperAlways /\ Flags /\ iter \in IterType /\ TypeInv
  BY <1>0, <1>1, HelperWaits DEF IInv
<1>3. PICK t \in FrameType : t = Top /\ t.at = "reread" /\ HelperBusy(t)
  BY <1>0, <1>1, HelperWaits
<1>4. /\ kind' = kind /\ phase' = phase /\ current' = current
      /\ done' = (done \/ outcome = "throw")
      /\ Remembers /\ (outcome = "throw" => "reread" \in departed')
      /\ UNCHANGED <<ofHelpers, index, ofZips>>
  BY DEF Reread, ofHelpers, Remembers, Stays, Departs
<1>5. /\ t.call = "next" /\ phase = "ready" /\ executing /\ NextingOther(t)
      /\ kind = "filter"
  BY <1>3
  DEF HelperBusy, Rejecting, Consuming, Nexting, NextingConcat, NextingOther, Returning
<1>6. PICK f : f = Threw(t, outcome)
  OBVIOUS
<1>7. f \in FrameType /\ (f.threw => t.threw \/ outcome = "throw")
  BY <1>3, <1>6 DEF FrameType, Threw
<1>8. PICK answer : answer = IF outcome = "throw" THEN "error" ELSE "value"
  OBVIOUS
<1>9. Ends(f, answer, iter)
  BY <1>3, <1>6, <1>8 DEF Reread
<1>10. /\ frames' = <<>> /\ iter' = iter /\ misuse' = misuse /\ executing' = FALSE
       /\ lost' \in BOOLEAN /\ (lost' => lost \/ (f.threw /\ answer # "error"))
  BY <1>2, <1>7, <1>9, HelperStops
<1>11. ~ (f.threw /\ answer # "error")
  BY <1>3, <1>5, <1>7, <1>8 DEF NextingOther
<1>12. Flags'
  BY <1>2, <1>4, <1>10 DEF Flags, ofHelpers, ofZips
<1>13. HelperAlways'
  BY <1>2, <1>4, <1>10 DEF HelperAlways
<1>14. HelperIdle'
  BY <1>3, <1>4, <1>5, <1>10 DEF HelperIdle, NextingOther, Met, Consumers, Good
<1> QED
  BY <1>1, <1>2, <1>4, <1>10, <1>11, <1>12, <1>13, <1>14, HelperEnds

\* OpenInner: flatMap has asked for an iterator.
LEMMA OpenInnerStep ==
    ASSUME IInv, NEW outcome \in Outcomes \cup {"notIterable"}, OpenInner(outcome) PROVE IInv'
<1>0. AtSite("open") /\ kind = "flatMap"
  BY DEF OpenInner
<1>1. kind \notin Zips
  BY <1>0, HelperSites
<1>2. /\ frames # <<>> /\ HelperAlways /\ Flags /\ iter \in IterType /\ TypeInv
  BY <1>0, <1>1, HelperWaits DEF IInv
<1>3. PICK t \in FrameType : t = Top /\ t.at = "open" /\ HelperBusy(t)
  BY <1>0, <1>1, HelperWaits
<1>4. /\ kind' = kind /\ phase' = phase /\ Remembers
      /\ UNCHANGED <<remaining, index, ofZips>>
  BY DEF OpenInner, Remembers, Stays, Departs
<1>5. /\ t.call = "next" /\ phase = "ready" /\ executing /\ NextingOther(t)
      /\ iter[Source] = "open" /\ current = 0 /\ ~ done /\ ~ t.threw
  BY <1>0, <1>3
  DEF HelperBusy, Rejecting, Consuming, Nexting, NextingOther, Returning
<1>6. CASE outcome = "answer"
  <2>1. PICK f : f = [t EXCEPT !.at = "advance"]
    OBVIOUS
  <2>2. PICK it : it = [iter EXCEPT ![Inner] = "open"]
    OBVIOUS
  <2>3. f \in FrameType /\ f.call = "next" /\ f.at = "advance" /\ f.i = t.i
        /\ f.threw = FALSE /\ f.then = t.then
    BY <1>3, <1>5, <2>1 DEF FrameType, AdvanceSites
  <2>4. it \in IterType /\ it[Inner] = "open" /\ it[Source] = "open"
    BY <1>2, <1>5, <2>2, AreSlots DEF IterType
  <2>5. current' = Inner /\ GoesOn(f, it) /\ done' = done /\ executing' = executing
    BY <1>3, <1>6, <2>1, <2>2 DEF OpenInner
  <2>6. Waits(f, it)
    BY <1>2, <2>3, <2>4, <2>5, HelperGoes
  <2>7. iter' = it
    BY <2>3, <2>6 DEF Waits, Shut, CloseSites
  <2>8. Flags'
    <3>1. Inner \in 0 .. MaxItems
      BY SlotsAre, BoundsAssumption
    <3> QED BY <1>2, <1>4, <2>5, <3>1 DEF Flags, ofZips
  <2>9. HelperAlways'
    BY <1>0, <1>2, <1>4, <1>5, <2>2, <2>5, <2>7, SlotsAre DEF HelperAlways, IterType
  <2>10. HelperBusy(f)' /\ it[f.i] = "open"
    <3>1. t.i = Inner /\ t.then = "none" /\ Inner # 0
      BY <1>3, <1>5, SlotsAre DEF NextingOther
    <3> QED
      BY <1>0, <1>3, <1>4, <1>5, <2>3, <2>4, <2>5, <2>7, <3>1
      DEF HelperBusy, Nexting, NextingOther, Good
  <2> QED
    BY <1>1, <1>4, <2>3, <2>4, <2>6, <2>8, <2>9, <2>10, HelperContinues DEF CloseSites
<1>7. CASE outcome = "notIterable"
  <2>1. PICK f : f = [t EXCEPT !.at = "close", !.i = Source, !.then = "throw", !.threw = TRUE]
    OBVIOUS
  <2>2. /\ f \in FrameType /\ f.call = "next" /\ f.at = "close" /\ f.i = Source
        /\ f.then = "throw"
    BY <1>3, <1>5, <2>1, AreSlots DEF FrameType, CloseSites, Then
  <2>3. /\ GoesOn(f, iter) /\ done' = done /\ executing' = executing /\ current' = current
    BY <1>3, <1>7, <2>1 DEF OpenInner
  <2>4. Waits(f, iter)
    BY <1>2, <2>2, <2>3, HelperGoes
  <2>5. iter' = [iter EXCEPT ![Source] = "closed"]
    BY <2>2, <2>4 DEF Waits, Shut, CloseSites
  <2>6. Flags'
    BY <1>2, <1>4, <2>3 DEF Flags, ofZips
  <2>7. HelperAlways' /\ NoneOpen'
    BY <1>0, <1>2, <1>4, <1>5, <2>3, <2>5, SlotsAre DEF HelperAlways, NoneOpen, IterType
  <2>8. HelperBusy(f)'
    BY <1>0, <1>4, <1>5, <2>2, <2>3, <2>7 DEF HelperBusy, Nexting, NextingOther
  <2> QED
    BY <1>1, <1>2, <1>4, <1>5, <2>2, <2>4, <2>6, <2>7, <2>8, HelperContinues DEF AdvanceSites
<1>8. CASE outcome = "throw"
  <2>1. PICK f : f = Threw(t, outcome)
    OBVIOUS
  <2>2. f \in FrameType
    BY <1>3, <2>1 DEF FrameType, Threw
  <2>3. /\ Ends(f, "error", iter) /\ done' = TRUE /\ current' = current
        /\ "innerFailed" \in departed'
    BY <1>3, <1>8, <2>1 DEF OpenInner, Departs
  <2>4. /\ frames' = <<>> /\ iter' = iter /\ misuse' = misuse /\ executing' = FALSE
        /\ lost' \in BOOLEAN /\ (lost' => lost)
    BY <1>2, <2>2, <2>3, HelperStops
  <2>5. Flags'
    BY <1>2, <1>4, <2>3, <2>4 DEF Flags, ofZips
  <2>6. HelperAlways' /\ HelperIdle'
    BY <1>0, <1>2, <1>4, <1>5, <2>3, <2>4 DEF HelperAlways, HelperIdle, Met, Consumers
  <2> QED
    BY <1>1, <1>2, <1>4, <2>4, <2>5, <2>6, HelperEnds
<1> QED BY <1>6, <1>7, <1>8 DEF Outcomes

\* OpenItem: concat has opened its next item.
LEMMA OpenItemStep ==
    ASSUME IInv, NEW outcome \in Outcomes, OpenItem(outcome) PROVE IInv'
<1>0. AtSite("open") /\ kind = "concat"
  BY DEF OpenItem
<1>1. kind \notin Zips
  BY <1>0, HelperSites
<1>2. /\ frames # <<>> /\ HelperAlways /\ Flags /\ iter \in IterType /\ TypeInv
  BY <1>0, <1>1, HelperWaits DEF IInv
<1>3. PICK t \in FrameType : t = Top /\ t.at = "open" /\ HelperBusy(t)
  BY <1>0, <1>1, HelperWaits
<1>4. /\ kind' = kind /\ phase' = phase /\ done' = done /\ Remembers
      /\ UNCHANGED <<remaining, index, ofZips>>
  BY DEF OpenItem, Remembers, Stays, Departs
<1>5. /\ t.call = "next" /\ phase = "ready" /\ executing /\ NextingConcat(t)
      /\ current = 0 /\ ~ done /\ ~ t.threw
  BY <1>0, <1>3
  DEF HelperBusy, Rejecting, Consuming, Consumers, Nexting, NextingConcat, Returning
<1>6. t.i \in Items /\ t.i \in Slots
  BY <1>5, SlotsAre DEF NextingConcat
<1>7. CASE outcome = "answer"
  <2>1. PICK f : f = [t EXCEPT !.at = "advance"]
    OBVIOUS
  <2>2. PICK it : it = [iter EXCEPT ![t.i] = "open"]
    OBVIOUS
  <2>3. f \in FrameType /\ f.call = "next" /\ f.at = "advance" /\ f.i = t.i /\ f.threw = FALSE
    BY <1>3, <1>5, <2>1 DEF FrameType, AdvanceSites
  <2>4. it \in IterType /\ it[t.i] = "open"
    BY <1>2, <1>6, <2>2 DEF IterType
  <2>5. current' = t.i /\ GoesOn(f, it) /\ executing' = executing
    BY <1>3, <1>7, <2>1, <2>2 DEF OpenItem
  <2>6. Waits(f, it)
    BY <1>2, <2>3, <2>4, <2>5, HelperGoes
  <2>7. iter' = it
    BY <2>3, <2>6 DEF Waits, Shut, CloseSites
  <2>8. Flags'
    <3>1. t.i \in 0 .. MaxItems
      BY <1>6, SlotsAre, BoundsAssumption
    <3> QED BY <1>2, <1>4, <2>5, <3>1 DEF Flags, ofZips
  <2>9. HelperAlways'
    <3>1. \A s \in Slots : iter[s] # "open"
      BY <1>0, <1>2, <1>5, SlotsAre DEF HelperAlways
    <3>2. t.i # Input
      BY <1>6, SlotsAre
    <3> QED BY <1>0, <1>2, <1>4, <1>6, <2>2, <2>5, <2>7, <3>1, <3>2 DEF HelperAlways, IterType
  <2>10. HelperBusy(f)'
    BY <1>0, <1>4, <1>5, <1>6, <2>3, <2>4, <2>5, <2>7 DEF HelperBusy, Nexting, NextingConcat
  <2> QED
    BY <1>1, <1>4, <2>3, <2>4, <2>6, <2>8, <2>9, <2>10, HelperContinues DEF CloseSites
<1>8. CASE outcome = "throw"
  <2>1. PICK f : f = Threw(t, "throw")
    OBVIOUS
  <2>2. f \in FrameType
    BY <1>3, <2>1 DEF FrameType, Threw
  <2>3. /\ Ends(f, "error", iter) /\ current' = current
    BY <1>3, <1>8, <2>1 DEF OpenItem
  <2>4. /\ frames' = <<>> /\ iter' = iter /\ misuse' = misuse /\ executing' = FALSE
        /\ lost' \in BOOLEAN /\ (lost' => lost)
    BY <1>2, <2>2, <2>3, HelperStops
  <2>5. Flags'
    BY <1>2, <1>4, <2>3, <2>4 DEF Flags, ofZips
  <2>6. HelperAlways' /\ HelperIdle'
    BY <1>0, <1>2, <1>4, <1>5, <2>3, <2>4 DEF HelperAlways, HelperIdle, Met, Consumers
  <2> QED
    BY <1>1, <1>2, <1>4, <2>4, <2>5, <2>6, HelperEnds
<1> QED BY <1>7, <1>8 DEF Outcomes

\* CloseForHelper: a return() that the helper has called is over.
LEMMA CloseForHelperStep ==
    ASSUME IInv, NEW outcome \in Outcomes, CloseForHelper(outcome) PROVE IInv'
<1>1. kind \notin Zips /\ AtSite("close")
  BY DEF CloseForHelper, Mine
<1>2. /\ frames # <<>> /\ HelperAlways /\ Flags /\ iter \in IterType /\ TypeInv
      /\ kind \in Kinds
  BY <1>1, HelperWaits DEF IInv, Flags
<1>3. PICK t \in FrameType : t = Top /\ t.at = "close" /\ HelperBusy(t)
  BY <1>1, HelperWaits
<1>4. /\ kind' = kind /\ phase' = phase /\ Remembers
      /\ UNCHANGED <<remaining, index, ofZips>>
  BY DEF CloseForHelper, Remembers, Stays, Departs
<1>5. \/ t.call = "create" /\ Rejecting(t)
      \/ t.call = "next" /\ phase = "ready" /\ executing /\ NextingOther(t) /\ kind # "concat"
      \/ t.call = "return" /\ Returning(t)
  BY <1>3 DEF CloseForHelper, HelperBusy, Nexting, NextingConcat
<1>6. PICK f : f = Threw(t, outcome)
  OBVIOUS
<1>7. /\ f \in FrameType /\ f.call = t.call /\ f.at = "close" /\ f.i = t.i /\ f.then = t.then
      /\ (f.threw => t.threw \/ outcome = "throw")
  BY <1>3, <1>6 DEF FrameType, Threw
<1>8. PICK answer : answer = IF outcome = "throw" THEN "error" ELSE "done"
  OBVIOUS
<1>9. CASE /\ t.then \in {"throw", "argument"} /\ Ends(t, "error", iter)
           /\ done' = (done \/ t.then = "throw") /\ current' = current
  <2>1. /\ frames' = <<>> /\ iter' = iter /\ misuse' = misuse /\ executing' = FALSE
        /\ lost' \in BOOLEAN /\ (lost' => lost)
    BY <1>2, <1>3, <1>9, HelperStops
  <2>2. Flags'
    BY <1>2, <1>4, <1>9, <2>1 DEF Flags, ofZips
  <2>3. NoneOpen /\ (phase = "ready" => kind \notin Consumers) /\ phase # "new"
        /\ (phase = "ready" => done')
    <3>1. CASE t.call = "create" /\ Rejecting(t)
      BY <3>1 DEF Rejecting
    <3>2. CASE t.call = "next" /\ phase = "ready" /\ NextingOther(t)
      BY <1>3, <1>9, <3>2 DEF NextingOther, Transformers, Consumers
    <3>3. CASE t.call = "return" /\ Returning(t)
      BY <1>9, <3>3 DEF Returning
    <3> QED BY <1>5, <3>1, <3>2, <3>3
  <2>4. HelperAlways' /\ HelperIdle'
    BY <1>2, <1>4, <1>9, <2>1, <2>3 DEF HelperAlways, HelperIdle, NoneOpen
  <2> QED BY <1>1, <1>2, <1>4, <2>1, <2>2, <2>4, HelperEnds
<1>10. CASE /\ t.then = "finish" \/ (t.then = "return" /\ kind # "concat")
            /\ Ends(f, answer, iter) /\ departed' = departed
            /\ done' = done /\ current' = current
  <2>1. /\ frames' = <<>> /\ iter' = iter /\ misuse' = misuse /\ executing' = FALSE
        /\ lost' \in BOOLEAN /\ (lost' => lost \/ (f.threw /\ answer # "error"))
    BY <1>2, <1>7, <1>10, HelperStops
  <2>2. Flags'
    BY <1>2, <1>4, <1>10, <2>1 DEF Flags, ofZips
  <2>3. /\ NoneOpen /\ phase = "ready" /\ kind \notin Consumers /\ done
        /\ (t.threw => Met({"innerClose"}))
    <3>1. t.call # "create"
      BY <1>5, <1>10 DEF Rejecting
    <3>2. CASE t.call = "next" /\ phase = "ready" /\ NextingOther(t)
      BY <1>3, <1>10, <3>2 DEF NextingOther, Transformers, Consumers
    <3>3. CASE t.call = "return" /\ Returning(t)
      BY <1>10, <3>3 DEF Returning, Transformers, Consumers
    <3> QED BY <1>5, <3>1, <3>2, <3>3
  <2>5. HelperAlways' /\ HelperIdle'
    BY <1>2, <1>4, <1>10, <2>1, <2>3 DEF HelperAlways, HelperIdle, NoneOpen
  <2>6. f.threw /\ answer # "error" => Met(LossExcuses)'
    BY <1>7, <1>8, <1>10, <2>3 DEF Met, LossExcuses
  <2> QED BY <1>1, <1>2, <1>4, <2>1, <2>2, <2>5, <2>6, HelperEnds
<1>11. CASE /\ t.then = "inner" /\ current' = 0 /\ done' = done /\ executing' = executing
            /\ GoesOn([f EXCEPT !.i = Source, !.then = "return"], iter)
            /\ outcome = "throw" => "innerClose" \in departed'
  <2>1. PICK g : g = [f EXCEPT !.i = Source, !.then = "return"]
    OBVIOUS
  <2>2. /\ g \in FrameType /\ g.call = t.call /\ g.at = "close" /\ g.i = Source
        /\ g.then = "return" /\ (g.threw => t.threw \/ outcome = "throw")
    BY <1>7, <2>1, AreSlots DEF FrameType, Then
  <2>3. Waits(g, iter)
    BY <1>2, <1>11, <2>1, <2>2, HelperGoes
  <2>4. iter' = [iter EXCEPT ![Source] = "closed"]
    BY <2>2, <2>3 DEF Waits, Shut, CloseSites
  <2>5. t.call = "return" /\ Returning(t) /\ kind \in Transformers /\ kind # "concat"
    BY <1>3, <1>5, <1>11 DEF Rejecting, NextingOther, Returning
  <2>6. /\ done /\ phase = "ready" /\ ~ t.threw /\ current = Inner
        /\ iter[Source] = "open" /\ iter[Inner] # "open"
    BY <1>11, <2>5 DEF Returning
  <2>7. HelperAlways' /\ NoneOpen'
    BY <1>2, <1>4, <1>11, <2>4, <2>5, <2>6, SlotsAre DEF HelperAlways, NoneOpen, IterType
  <2>8. HelperBusy(g)'
    BY <1>4, <1>11, <2>2, <2>5, <2>6, <2>7 DEF HelperBusy, Returning, Met
  <2>9. Flags'
    <3>1. 0 \in 0 .. MaxItems
      BY BoundsAssumption
    <3> QED BY <1>2, <1>4, <1>11, <3>1 DEF Flags, ofZips
  <2> QED
    BY <1>1, <1>2, <1>4, <2>2, <2>3, <2>6, <2>7, <2>8, <2>9, HelperContinues DEF AdvanceSites
<1>12. CASE /\ t.then = "return" /\ kind = "concat" /\ Ends(f, answer, iter)
            /\ IF outcome = "throw"
               THEN "concatFailed" \in departed' /\ done' = done /\ current' = current
               ELSE departed' = departed /\ done' = TRUE /\ current' = 0
  <2>1. /\ frames' = <<>> /\ iter' = iter /\ misuse' = misuse /\ executing' = FALSE
        /\ lost' \in BOOLEAN /\ (lost' => lost \/ (f.threw /\ answer # "error"))
    BY <1>2, <1>7, <1>12, HelperStops
  <2>2. Flags'
    <3>1. 0 \in 0 .. MaxItems
      BY BoundsAssumption
    <3> QED BY <1>2, <1>4, <1>12, <2>1, <3>1 DEF Flags, ofZips
  <2>3. t.call = "return" /\ Returning(t)
    BY <1>5, <1>12 DEF Rejecting
  <2>4. NoneOpen /\ phase = "ready" /\ ~ done /\ ~ t.threw
    BY <1>12, <2>3 DEF Returning
  <2>5. HelperAlways' /\ HelperIdle'
    BY <1>4, <1>12, <2>1, <2>4 DEF HelperAlways, HelperIdle, NoneOpen, Met, Consumers
  <2>6. ~ (f.threw /\ answer # "error")
    BY <1>7, <1>8, <2>4
  <2> QED BY <1>1, <1>2, <1>4, <2>1, <2>2, <2>5, <2>6, HelperEnds
<1>13. \/ /\ t.then \in {"throw", "argument"} /\ Ends(t, "error", iter)
          /\ done' = (done \/ t.then = "throw") /\ current' = current
       \/ /\ t.then = "finish" \/ (t.then = "return" /\ kind # "concat")
          /\ Ends(f, answer, iter) /\ departed' = departed
          /\ done' = done /\ current' = current
       \/ /\ t.then = "inner" /\ current' = 0 /\ done' = done /\ executing' = executing
          /\ GoesOn([f EXCEPT !.i = Source, !.then = "return"], iter)
          /\ outcome = "throw" => "innerClose" \in departed'
       \/ /\ t.then = "return" /\ kind = "concat" /\ Ends(f, answer, iter)
          /\ IF outcome = "throw"
             THEN "concatFailed" \in departed' /\ done' = done /\ current' = current
             ELSE departed' = departed /\ done' = TRUE /\ current' = 0
  BY <1>3, <1>6, <1>8 DEF CloseForHelper, Departs, Stays
<1> QED BY <1>9, <1>10, <1>11, <1>12, <1>13

\* CloseForConsumer: a return() that a consumer has called is over.
LEMMA CloseForConsumerStep ==
    ASSUME IInv, NEW outcome \in Outcomes, CloseForConsumer(outcome) PROVE IInv'
<1>0. AtSite("close")
  BY DEF CloseForConsumer
<1>1. kind \notin Zips
  BY <1>0, HelperSites
<1>2. /\ frames # <<>> /\ HelperAlways /\ Flags /\ iter \in IterType /\ TypeInv
  BY <1>0, <1>1, HelperWaits DEF IInv
<1>3. PICK t \in FrameType : t = Top /\ t.at = "close" /\ HelperBusy(t)
  BY <1>0, <1>1, HelperWaits
<1>4. /\ kind' = kind /\ phase' = phase /\ done' = done /\ current' = current /\ Remembers
      /\ UNCHANGED <<ofHelpers, index, ofZips>>
  BY DEF CloseForConsumer, Remembers, Stays, Departs, ofHelpers
<1>5. t.call = "consume" /\ Consuming(t)
  BY <1>3 DEF CloseForConsumer, HelperBusy
<1>6. /\ kind \in Consumers /\ phase = "over" /\ t.i = Source /\ t.then \in {"throw", "finish"}
      /\ iter[Source] # "open" /\ (t.threw => Met({"falsyThrown"}) \/ t.then = "throw")
      /\ kind # "concat" /\ current = 0
  BY <1>2, <1>3, <1>5 DEF Consuming, Consumers, HelperAlways
<1>7. NoneOpen
  BY <1>2, <1>6, SlotsAre DEF HelperAlways, NoneOpen
<1>8. PICK f : f = Threw(t, outcome)
  OBVIOUS
<1>9. /\ f \in FrameType /\ f.call = "consume" /\ f.at = "close" /\ f.i = Source
      /\ f.then = t.then /\ f.error = t.error
      /\ (f.threw => t.threw \/ outcome = "throw")
  BY <1>3, <1>5, <1>6, <1>8 DEF FrameType, Threw
<1>10. ASSUME NEW answer, Ends(f, answer, iter),
              f.threw /\ answer # "error" => Met(LossExcuses)'
       PROVE  IInv'
  <2>1. /\ frames' = <<>> /\ iter' = iter /\ misuse' = misuse /\ executing' = FALSE
        /\ lost' \in BOOLEAN /\ (lost' => lost \/ (f.threw /\ answer # "error"))
    BY <1>2, <1>9, <1>10, HelperStops
  <2>2. Flags'
    BY <1>2, <1>4, <2>1 DEF Flags, ofHelpers, ofZips
  <2>3. HelperAlways' /\ HelperIdle'
    BY <1>2, <1>4, <1>6, <1>7, <2>1 DEF HelperAlways, HelperIdle, NoneOpen
  <2> QED BY <1>1, <1>2, <1>4, <1>10, <2>1, <2>2, <2>3, HelperEnds
<1>11. CASE outcome = "throw" \/ (f.then = "throw" /\ f.error = "error")
  <2>1. Ends(f, "error", iter)
    BY <1>3, <1>8, <1>11 DEF CloseForConsumer
  <2> QED BY <1>10, <2>1
<1>12. CASE ~ (outcome = "throw" \/ (f.then = "throw" /\ f.error = "error")) /\ f.then = "finish"
  <2>1. Ends(f, "done", iter) /\ departed' = departed
    BY <1>3, <1>8, <1>12 DEF CloseForConsumer, Stays
  <2>2. f.threw => Met(LossExcuses)'
    BY <1>6, <1>9, <1>12, <2>1 DEF Met, LossExcuses
  <2> QED BY <1>10, <2>1, <2>2
<1>13. CASE ~ (outcome = "throw" \/ (f.then = "throw" /\ f.error = "error")) /\ f.then # "finish"
  <2>1. PICK g : g = IF kind = "every" THEN [f EXCEPT !.then = "finish"]
                     ELSE [f EXCEPT !.at = "advance", !.then = "none"]
    OBVIOUS
  <2>2. GoesOn(g, iter) /\ "falsyThrown" \in departed' /\ executing' = executing
    BY <1>3, <1>8, <1>13, <2>1 DEF CloseForConsumer, Departs
  <2>3. /\ g \in FrameType /\ g.call = "consume" /\ g.i = Source
        /\ \/ g.at = "close" /\ g.then = "finish"
           \/ g.at = "advance" /\ g.then = "none"
    <3>1. CASE kind = "every"
      BY <1>9, <2>1, <3>1 DEF FrameType, Then
    <3>2. CASE kind # "every"
      BY <1>9, <2>1, <3>2 DEF FrameType, Then, AdvanceSites
    <3> QED BY <3>1, <3>2
  <2>4. Waits(g, iter)
    BY <1>2, <2>2, <2>3, HelperGoes
  <2>5. iter' = iter \/ iter' = [iter EXCEPT ![Source] = "closed"]
    BY <2>3, <2>4 DEF Waits, Shut
  <2>6. HelperAlways' /\ NoneOpen'
    BY <1>2, <1>4, <1>6, <1>7, <2>5 DEF HelperAlways, NoneOpen, IterType
  <2>7. HelperBusy(g)'
    BY <1>4, <1>6, <2>2, <2>3, <2>6, AreSlots DEF HelperBusy, Consuming, NoneOpen, Met
  <2>8. Flags'
    BY <1>2, <1>4, <2>2 DEF Flags, ofHelpers, ofZips
  <2>9. Met(AdvanceExcuses)' /\ Met(CloseExcuses)'
    BY <2>2 DEF Met, AdvanceExcuses, CloseExcuses
  <2> QED
    BY <1>1, <1>2, <1>4, <2>3, <2>4, <2>6, <2>7, <2>8, <2>9, HelperContinues
<1> QED BY <1>11, <1>12, <1>13

\* Every step of a helper keeps the invariant.
LEMMA HelperNextKeeps == ASSUME IInv, HelperNext PROVE IInv'
  BY RejectArgumentStep, GetIteratorDirectStep, ReduceFromInitialStep, NextOfTransformerStep,
     NextOfSpentTakeStep, NextOfConcatStep, ReturnOfTransformerStep, ReturnOfConcatStep,
     AdvanceValueStep, AdvanceDoneStep, InnerDoneStep, ConcatDoneStep, AdvanceFailsStep,
     CallbackReturnsStep, CallbackThrowsStep, ValueUnreadableStep, RereadStep, OpenItemStep,
     OpenInnerStep, CloseForHelperStep, CloseForConsumerStep
  DEF HelperNext


-----------------------------------------------------------------------------
(* zip and zipKeyed: positions, the sites, and closing a list.             *)

\* The last of some positions.
LEMMA LastIs ==
    ASSUME NEW n \in Nat, NEW S \in SUBSET (1 .. n), S # {}
    PROVE  Last(S) \in S /\ \A k \in S : k <= Last(S)
<1> DEFINE Above(j) == {k \in S : k > j}
<1> DEFINE R == {Above(j) : j \in S}
<1>1. R \subseteq FiniteSubsetsOf(1 .. n) /\ R # {}
  <2>1. IsFiniteSet(1 .. n)
    BY FS_Interval
  <2>2. FiniteSubsetsOf(1 .. n) = SUBSET (1 .. n)
    BY <2>1, FS_FiniteSubsetsOfFinite
  <2>3. ASSUME NEW j \in S PROVE Above(j) \in SUBSET (1 .. n)
    OBVIOUS
  <2>4. PICK j \in S : TRUE
    OBVIOUS
  <2> HIDE DEF Above
  <2>5. Above(j) \in R
    OBVIOUS
  <2>6. R \subseteq SUBSET (1 .. n)
    BY <2>3
  <2> QED BY <2>2, <2>5, <2>6
<1>2. PICK X \in R : \A Y \in R : ~ (<<Y, X>> \in StrictSubsetOrdering(1 .. n))
  BY <1>1, FS_StrictSubsetOrderingWellFounded, WFMin
<1>3. PICK j \in S : X = Above(j)
  OBVIOUS
<1>4. ASSUME NEW k \in S PROVE k <= j
  <2>1. SUFFICES ASSUME ~ (k <= j) PROVE FALSE
    OBVIOUS
  <2>2. k > j
    BY <2>1
  <2>3. Above(k) \subseteq Above(j) /\ k \in Above(j) /\ k \notin Above(k)
    <3>1. ASSUME NEW m \in S, m > k PROVE m > j
      <4>1. m \in Int /\ k \in Int /\ j \in Int
        OBVIOUS
      <4> QED BY ONLY <2>2, <3>1, <4>1
    <3>2. ~ (k > k)
      <4>1. k \in Int
        OBVIOUS
      <4> QED BY ONLY <4>1
    <3> QED BY <2>2, <3>1, <3>2
  <2>4. Above(k) \in SUBSET (1 .. n) /\ Above(j) \in SUBSET (1 .. n) /\ Above(k) \in R
    OBVIOUS
  <2>5. <<Above(k), X>> \in StrictSubsetOrdering(1 .. n)
    <3> HIDE DEF Above
    <3> QED BY <1>3, <2>3, <2>4 DEF StrictSubsetOrdering
  <2> QED BY <1>2, <2>4, <2>5
<1> QED BY <1>4 DEF Last

\* The first of some positions.
LEMMA FirstIs ==
    ASSUME NEW n \in Nat, NEW S \in SUBSET (1 .. n), S # {}
    PROVE  First(S) \in S /\ \A k \in S : First(S) <= k
<1> DEFINE Under(j) == {k \in S : k < j}
<1> DEFINE R == {Under(j) : j \in S}
<1>1. R \subseteq FiniteSubsetsOf(1 .. n) /\ R # {}
  <2>1. IsFiniteSet(1 .. n)
    BY FS_Interval
  <2>2. FiniteSubsetsOf(1 .. n) = SUBSET (1 .. n)
    BY <2>1, FS_FiniteSubsetsOfFinite
  <2>3. ASSUME NEW j \in S PROVE Under(j) \in SUBSET (1 .. n)
    OBVIOUS
  <2>4. PICK j \in S : TRUE
    OBVIOUS
  <2> HIDE DEF Under
  <2>5. Under(j) \in R
    OBVIOUS
  <2>6. R \subseteq SUBSET (1 .. n)
    BY <2>3
  <2> QED BY <2>2, <2>5, <2>6
<1>2. PICK X \in R : \A Y \in R : ~ (<<Y, X>> \in StrictSubsetOrdering(1 .. n))
  BY <1>1, FS_StrictSubsetOrderingWellFounded, WFMin
<1>3. PICK j \in S : X = Under(j)
  OBVIOUS
<1>4. ASSUME NEW k \in S PROVE j <= k
  <2>1. SUFFICES ASSUME ~ (j <= k) PROVE FALSE
    OBVIOUS
  <2>2. k < j
    BY <2>1
  <2>3. Under(k) \subseteq Under(j) /\ k \in Under(j) /\ k \notin Under(k)
    <3>1. ASSUME NEW m \in S, m < k PROVE m < j
      <4>1. m \in Int /\ k \in Int /\ j \in Int
        OBVIOUS
      <4> QED BY ONLY <2>2, <3>1, <4>1
    <3>2. ~ (k < k)
      <4>1. k \in Int
        OBVIOUS
      <4> QED BY ONLY <4>1
    <3> QED BY <2>2, <3>1, <3>2
  <2>4. Under(k) \in SUBSET (1 .. n) /\ Under(j) \in SUBSET (1 .. n) /\ Under(k) \in R
    OBVIOUS
  <2>5. <<Under(k), X>> \in StrictSubsetOrdering(1 .. n)
    <3> HIDE DEF Under
    <3> QED BY <1>3, <2>3, <2>4 DEF StrictSubsetOrdering
  <2> QED BY <1>2, <2>4, <2>5
<1> QED BY <1>4 DEF First

\* A call of zip goes on or begins.
LEMMA ZipContinues ==
    ASSUME IInv, kind \in Zips, kind' = kind, Remembers,
           NEW f \in FrameType, NEW it \in IterType, Waits(f, it),
           f.at \in AdvanceSites => it[f.i] = "open" \/ Met(AdvanceExcuses)',
           f.at \in CloseSites => it[f.i] = "open" \/ Met(CloseExcuses)',
           Flags', ZipAlways', ZipBusy(f)'
    PROVE  IInv'
  BY Continued

\* A call of zip ends, or there was none.
LEMMA ZipEnds ==
    ASSUME IInv, kind \in Zips, kind' = kind, Remembers, frames' = <<>>, iter' \in IterType,
           misuse' = misuse, ~ executing', lost' \in BOOLEAN,
           lost' => lost \/ Met(LossExcuses)', Flags', ZipAlways', ZipIdle'
    PROVE  IInv'
  BY Ended

\* The sites of zip that no other helper has.
LEMMA ZipSites ==
    ASSUME IInv, NEW site \in {"input", "element", "closeInput", "padOpen", "padNext",
                               "padClose", "strict", "closeList"}, AtSite(site)
    PROVE  kind \in Zips
<1>1. frames # <<>> /\ Top.at = site
  BY Sites DEF IInv
<1>2. Top = frames[1]
  BY <1>1, OneFrame DEF IInv
<1> QED
  BY <1>1, <1>2
  DEF IInv, HelperInv, HelperBusy, Rejecting, Consuming, Nexting, NextingConcat, NextingOther,
      Returning

\* What holds of the call that waits.
LEMMA ZipWaits ==
    ASSUME IInv, kind \in Zips, NEW site, AtSite(site)
    PROVE  /\ frames # <<>> /\ ZipAlways /\ Flags /\ iter \in IterType
           /\ \E t \in FrameType : t = Top /\ t.at = site /\ ZipBusy(t)
<1>1. frames # <<>> /\ Top.at = site
  BY Sites DEF IInv
<1>2. Top \in FrameType /\ Top = frames[1]
  BY <1>1, OneFrame DEF IInv
<1> QED BY <1>1, <1>2 DEF IInv, ZipInv, TypeInv

\* When zip may be entered or is not yet called, nothing waits.
LEMMA NothingZipped ==
    ASSUME IInv, kind \in Zips, phase = "new" \/ MayEnterZip
    PROVE  frames = <<>> /\ ~ executing /\ ZipAlways /\ ZipIdle /\ Flags /\ iter \in IterType
<1>1. ASSUME frames # <<>> PROVE FALSE
  <2>1. ZipBusy(frames[1])
    BY <1>1 DEF IInv, ZipInv
  <2> QED BY <2>1 DEF MayEnterZip, ZipBusy, Making, Rounding, ZipReturning
<1> QED BY <1>1 DEF IInv, ZipInv, TypeInv, OneCallAtATime

\* The input and the padding of iterators it.
BothShut(it) == Undef \/ (it[Input] # "open" /\ it[Padding] # "open")

\* What closing a list relies on, by the call that closes it: list is what is still
\* held, it the iterators, and every position from i on has been dealt with.
ListMaking(f, list, it, i) ==
    /\ phase = "over" /\ ~ done /\ ~ done' /\ ended' = {} /\ f.skip = Input
    /\ f.then \in {"throw", "afterElement", "afterPadding"}
    /\ f.error \in {"error", "undefined"}
    /\ f.closeError => f.error = "undefined"
    /\ kind = "zipKeyed" /\ f.then = "afterPadding" => index # 0
    /\ \/ Undef
       \/ /\ it[Padding] # "open"
          /\ it[Input] = "open" <=> kind = "zip" /\ f.then = "afterElement"
          /\ \A j \in list : j < i => it[j] = "open"

ListRounding(f, list, it, i) ==
    /\ phase = "ready" /\ executing /\ done' /\ BothShut(it)
    /\ f.then \in {"none", "throw"}
    /\ f.threw => f.then = "throw" \/ ListThrows(f) \/ Undef
    /\ Excused \/ \A j \in list : j < i /\ j # f.skip => it[j] = "open"

ListReturning(f, list, it, i) ==
    /\ phase = "ready" /\ (done \/ executing) /\ BothShut(it) /\ ended' = ended
    /\ done' = (done \/ (Left(list, f, i) = {} /\ ~ ListThrows(f)))
    /\ f.then \in {"none", "throw"}
    /\ ~ done => ended # 1 .. index /\ (mode = "strict" /\ 1 \notin ended => ended = {})
    /\ f.threw => ListThrows(f)
    /\ Excused \/ \A j \in list : j < i => it[j] = "open"

ListSound(f, list, it, i) ==
    /\ list \subseteq 1 .. index /\ held' = list /\ ended' \subseteq 1 .. index
    /\ done' \in BOOLEAN
    /\ UNCHANGED <<kind, mode, hasYielded, ofHelpers, index>>
    /\ \A s \in Items : it[s] = "open" => s \in list
    /\ \A s \in ended' : it[s] # "open"
    /\ \A s \in Items : s >= i /\ s # f.skip => it[s] # "open"
    /\ f.skip # Input => it[f.skip] # "open"
    /\ \/ f.call = "create" /\ ListMaking(f, list, it, i)
       \/ f.call = "next" /\ ListRounding(f, list, it, i)
       \/ f.call = "return" /\ ListReturning(f, list, it, i)

\* Positions of items are slots, but not those of the input and the padding.
LEMMA Positions ==
    ASSUME Flags
    PROVE  /\ 1 .. index \subseteq Items /\ Items \subseteq Slots /\ index \in Nat
           /\ \A s \in Items : s \in Nat /\ s # Input /\ s # Padding
<1>1. index \in 0 .. MaxItems
  BY DEF Flags
<1> QED BY <1>1, BoundsAssumption DEF Items, Slots, Input, Padding

\* The list goes on: the last position still to visit is closed.
LEMMA ListCloses ==
    ASSUME IInv, kind \in Zips, frames # <<>>, NEW f \in FrameType, NEW g \in FrameType,
           NEW list, NEW it \in IterType, NEW i \in Slots, ListSound(f, list, it, i),
           Left(list, f, i) # {},
           g.call = f.call, g.at = "closeList", g.i = Down(list, f, i), g.then = f.then,
           g.threw = f.threw, g.error = f.error, g.skip = f.skip, g.closeError = f.closeError,
           GoesOn(g, it), Stays, UNCHANGED <<executing, phase>>
    PROVE  IInv'
<1>1. Flags /\ Flags'
  <2>1. Flags
    BY DEF IInv, TypeInv
  <2> QED BY <2>1 DEF Flags, ListSound, ofHelpers
<1>2. PICK d : d = g.i
  OBVIOUS
<1>3. d \in list /\ d < i /\ d # f.skip /\ \A k \in list : k < i /\ k # f.skip => k <= d
  <2>1. index \in Nat /\ Left(list, f, i) \in SUBSET (1 .. index)
    BY <1>1, Positions DEF Left, ListSound
  <2>2. d \in Left(list, f, i) /\ \A k \in Left(list, f, i) : k <= d
    BY <1>2, <2>1, LastIs DEF Down
  <2> QED BY <2>2 DEF Left
<1>4. /\ d \in Items /\ d \in Slots /\ d # Input /\ d # Padding
      /\ list \subseteq Items
  BY <1>1, <1>3, Positions DEF ListSound
<1>5. Waits(g, it)
  BY HelperGoes
<1>6. iter' = [it EXCEPT ![d] = "closed"]
  BY <1>2, <1>5 DEF Waits, Shut, CloseSites
<1>7. /\ kind' = kind /\ mode' = mode /\ index' = index /\ held' = list /\ departed' = departed
      /\ phase' = phase /\ executing' = executing /\ Remembers
  BY DEF ListSound, Stays, Remembers
<1>8. \A s \in Slots : s # d => iter'[s] = it[s]
  BY <1>4, <1>6 DEF IterType
<1>9. iter'[d] = "closed"
  BY <1>4, <1>6 DEF IterType
<1>10. ZipAlways'
  <2>1. \A s \in Items : iter'[s] = "open" => s \in list
    BY <1>1, <1>8, <1>9, Positions DEF ListSound
  <2>2. \A s \in ended' : iter'[s] # "open"
    BY <1>1, <1>8, <1>9, Positions DEF ListSound
  <2> QED BY <1>7, <2>1, <2>2 DEF ZipAlways
<1>11. Listed(g)'
  <2>1. ASSUME NEW s \in Items, s > d, s # g.skip PROVE iter'[s] # "open"
    <3>1. s # d /\ s \in Slots /\ iter'[s] = it[s]
      BY <1>1, <1>4, <1>8, <2>1, Positions
    <3>2. CASE s >= i
      BY <2>1, <3>1, <3>2 DEF ListSound
    <3>3. CASE s < i
      <4>1. s \notin list
        <5>1. ~ (s <= d)
          <6>1. s \in Nat /\ d \in Nat
            BY <1>1, <1>4, Positions
          <6> QED BY ONLY <2>1, <6>1
        <5> QED BY <1>3, <2>1, <3>3, <5>1
      <4> QED BY <3>1, <4>1 DEF ListSound
    <3>4. s \in Nat /\ i \in Nat
      BY <1>1, Positions, SlotsAre, BoundsAssumption
    <3> QED BY <3>2, <3>3, <3>4
  <2>2. g.skip # Input => iter'[g.skip] # "open"
    <3>1. g.skip \in Slots
      BY DEF FrameType
    <3> QED BY <1>3, <1>8, <3>1 DEF ListSound
  <2> QED BY <1>2, <1>3, <1>7, <1>9, <2>1, <2>2 DEF Listed
<1>12. iter'[Input] = it[Input] /\ iter'[Padding] = it[Padding]
  BY <1>4, <1>8, SlotsAre
<1>13. ASSUME NEW j \in list, j < d, j # f.skip PROVE j < i /\ iter'[j] = it[j]
  <2>1. j \in Nat /\ d \in Nat /\ i \in Nat /\ j \in Slots
    BY <1>1, <1>4, <1>13, Positions, SlotsAre, BoundsAssumption
  <2>2. j < i /\ j # d
    BY ONLY <1>3, <1>13, <2>1
  <2> QED BY <1>8, <2>1, <2>2
<1>14. CASE f.call = "create" /\ ListMaking(f, list, it, i)
  <2>1. ASSUME NEW j \in list, j < d PROVE j < i /\ iter'[j] = it[j]
    <3>1. j \in Nat /\ d \in Nat /\ i \in Nat /\ j \in Slots
      BY <1>1, <1>4, <2>1, Positions, SlotsAre, BoundsAssumption
    <3>2. j < i /\ j # d
      BY ONLY <1>3, <2>1, <3>1
    <3> QED BY <1>8, <3>1, <3>2
  <2>2. MakingFails(g)'
    BY <1>2, <1>7, <1>12, <1>14, <2>1 DEF MakingFails, ListMaking, Undef, Met
  <2>3. Making(g)'
    BY <1>7, <1>14, <2>2 DEF Making, ListMaking, Collecting
  <2>4. ZipBusy(g)'
    BY <1>11, <1>14, <2>3 DEF ZipBusy
  <2>5. it[g.i] = "open" \/ Met(CloseExcuses)'
    BY <1>2, <1>3, <1>7, <1>14 DEF ListMaking, Undef, Met, CloseExcuses, AdvanceExcuses
  <2> QED BY <1>1, <1>5, <1>7, <1>10, <2>4, <2>5, ZipContinues DEF AdvanceSites
<1>15. CASE f.call = "next" /\ ListRounding(f, list, it, i)
  <2>1. RoundOver(g)'
    BY <1>2, <1>7, <1>13, <1>15 DEF RoundOver, ListRounding, ListThrows, NoError, Undef, Excused, Met
  <2>2. Rounding(g)'
    BY <1>7, <1>12, <1>15, <2>1 DEF Rounding, ListRounding, BothShut, EndsShut, Undef, Met
  <2>3. ZipBusy(g)'
    BY <1>11, <1>15, <2>2 DEF ZipBusy, ListRounding
  <2>4. it[g.i] = "open" \/ Met(CloseExcuses)'
    BY <1>2, <1>3, <1>7, <1>15 DEF ListRounding, Excused, Met, CloseExcuses, AdvanceExcuses
  <2> QED BY <1>1, <1>5, <1>7, <1>10, <2>3, <2>4, ZipContinues DEF AdvanceSites
<1>16. CASE f.call = "return" /\ ListReturning(f, list, it, i)
  <2>1. ASSUME NEW j \in list, j < d PROVE j < i /\ iter'[j] = it[j]
    <3>1. j \in Nat /\ d \in Nat /\ i \in Nat /\ j \in Slots
      BY <1>1, <1>4, <2>1, Positions, SlotsAre, BoundsAssumption
    <3>2. j < i /\ j # d
      BY ONLY <1>3, <2>1, <3>1
    <3> QED BY <1>8, <3>1, <3>2
  <2>2. done' = done /\ ended' = ended
    BY <1>1, <1>16 DEF ListReturning, Flags
  <2>3. ZipReturning(g)'
    BY <1>2, <1>7, <1>12, <1>16, <2>1, <2>2
    DEF ZipReturning, ListReturning, ListThrows, NoError, BothShut, EndsShut, Undef, Excused, Met
  <2>4. ZipBusy(g)'
    BY <1>11, <1>16, <2>3 DEF ZipBusy, ListReturning
  <2>5. it[g.i] = "open" \/ Met(CloseExcuses)'
    BY <1>2, <1>3, <1>7, <1>16 DEF ListReturning, Excused, Met, CloseExcuses, AdvanceExcuses
  <2> QED BY <1>1, <1>5, <1>7, <1>10, <2>4, <2>5, ZipContinues DEF AdvanceSites
<1> QED BY <1>14, <1>15, <1>16 DEF ListSound

\* The list is over: what the caller does then.
LEMMA ListEnds ==
    ASSUME IInv, kind \in Zips, frames # <<>>, NEW f \in FrameType,
           NEW list, NEW it \in IterType, NEW i \in Slots, ListSound(f, list, it, i),
           Left(list, f, i) = {}, AfterList(f, it)
    PROVE  IInv'
<1>1. Flags /\ index \in 0 .. MaxItems /\ (executing' \in BOOLEAN /\ phase' \in {"new", "ready", "over"} => Flags')
  <2>1. Flags
    BY DEF IInv, TypeInv
  <2> QED BY <2>1 DEF Flags, ListSound, ofHelpers
<1>2. /\ kind' = kind /\ mode' = mode /\ index' = index /\ held' = list /\ list \subseteq Items
      /\ list \subseteq 1 .. index
  BY <1>1, Positions DEF ListSound
<1>3. \A s \in Items : it[s] # "open"
  <2>1. ASSUME NEW s \in Items, it[s] = "open" PROVE FALSE
    <3>1. s \in list /\ s \in Nat /\ i \in Nat /\ s # Input
      BY <1>1, <2>1, Positions, SlotsAre, BoundsAssumption DEF ListSound
    <3>2. s # f.skip
      BY <2>1, <3>1 DEF ListSound
    <3>3. CASE s >= i
      BY <2>1, <3>2, <3>3 DEF ListSound
    <3>4. CASE s < i
      BY <3>1, <3>2, <3>4 DEF Left
    <3> QED BY <3>1, <3>3, <3>4
  <2> QED BY <2>1
<1>4. Remembers
  BY DEF AfterList, Departs, Stays, Remembers
<1>5. ASSUME iter' = it PROVE ZipAlways'
  BY <1>2, <1>3, <1>5 DEF ZipAlways, ListSound
<1>6. ASSUME it[Input] # "open", it[Padding] # "open" PROVE \A s \in Slots : it[s] # "open"
  <2>1. \A s \in Slots : s = Input \/ s = Padding \/ s \in Items
    BY BoundsAssumption DEF Slots, Input, Padding, Items
  <2> QED BY <1>3, <1>6, <2>1
<1>7. ASSUME f.call # "create",
             Ends(f, IF ListThrows(f) \/ f.then = "throw" THEN "error" ELSE "done", it),
             IF f.call = "return" /\ ListThrows(f) /\ ~ done THEN Departs("zipUnfinished") ELSE Stays,
             phase' = phase
      PROVE  IInv'
  <2>1. PICK answer : answer = IF ListThrows(f) \/ f.then = "throw" THEN "error" ELSE "done"
    OBVIOUS
  <2>2. /\ frames' = <<>> /\ iter' = it /\ misuse' = misuse /\ executing' = FALSE
        /\ lost' \in BOOLEAN /\ (lost' => lost \/ (f.threw /\ answer # "error"))
    BY <1>7, <2>1, HelperStops
  <2>3. Flags'
    BY <1>1, <1>7, <2>2 DEF Flags
  <2>4. ASSUME f.threw, answer # "error" PROVE Met(LossExcuses)'
    <3>1. Undef
      BY <1>7, <2>1, <2>4 DEF ListSound, ListRounding, ListReturning
    <3> QED BY <1>4, <3>1 DEF Undef, Met, LossExcuses, Remembers
  <2>5. phase = "ready" /\ BothShut(it)
    BY <1>7 DEF ListSound, ListRounding, ListReturning
  <2>6. EndsShut' /\ (NoneOpen' \/ Met({"leaks", "undefinedThrown"})')
    <3>1. CASE Undef
      BY <1>4, <3>1 DEF EndsShut, Undef, Met, Remembers
    <3>2. CASE it[Input] # "open" /\ it[Padding] # "open"
      BY <1>6, <2>2, <3>2 DEF EndsShut, NoneOpen
    <3> QED BY <2>5, <3>1, <3>2 DEF BothShut
  <2>7. ~ done' => Live'
    <3>1. ASSUME ~ done' PROVE Live'
      <4>1. f.call = "return" /\ ListReturning(f, list, it, i) /\ ~ done /\ ListThrows(f)
        BY <1>7, <3>1 DEF ListSound, ListRounding, ListReturning
      <4>2. "zipUnfinished" \in departed'
        BY <1>7, <4>1 DEF Departs
      <4>3. Excused'
        BY <4>2 DEF Excused, Met
      <4> QED BY <1>2, <4>1, <4>3 DEF ListReturning, Live
    <3> QED BY <3>1
  <2>8. ZipIdle'
    BY <1>7, <2>5, <2>6, <2>7 DEF ZipIdle
  <2> QED BY <1>2, <1>4, <1>5, <2>2, <2>3, <2>4, <2>8, ZipEnds
<1>8. ASSUME f.call = "create", f.then = "afterElement", kind = "zip", ~ f.closeError,
             GoesOn([f EXCEPT !.at = "closeInput", !.i = Input], it),
             departed' = departed, executing' = executing, phase' = phase
      PROVE  IInv'
  <2>1. PICK g : g = [f EXCEPT !.at = "closeInput", !.i = Input]
    OBVIOUS
  <2>2. g \in FrameType /\ g.call = "create" /\ g.at = "closeInput" /\ g.i = Input
        /\ g.then = f.then /\ g.skip = f.skip /\ g.closeError = f.closeError
    BY <1>8, <2>1, AreSlots DEF FrameType, CloseSites
  <2>3. Waits(g, it)
    BY <1>8, <2>1, <2>2, HelperGoes
  <2>4. iter' = [it EXCEPT ![Input] = "closed"]
    BY <2>2, <2>3 DEF Waits, Shut, CloseSites
  <2>5. Flags'
    BY <1>1, <1>8 DEF Flags
  <2>6. ListMaking(f, list, it, i)
    BY <1>8 DEF ListSound
  <2>7. /\ \A s \in Slots : s # Input => iter'[s] = it[s]
        /\ iter'[Input] = "closed"
    BY <2>4, AreSlots DEF IterType
  <2>8. ZipAlways'
    <3>1. \A s \in Items : iter'[s] # "open"
      BY <1>1, <1>3, <2>7, Positions
    <3>2. ended' = {}
      BY <2>6 DEF ListMaking
    <3> QED BY <3>1, <3>2 DEF ZipAlways
  <2>9. Undef' \/ NoneOpen'
    <3>1. CASE Undef
      BY <1>8, <3>1 DEF Undef, Met
    <3>2. CASE it[Padding] # "open"
      <4>1. \A s \in Slots : s = Input \/ s = Padding \/ s \in Items
        BY BoundsAssumption DEF Slots, Input, Padding, Items
      <4> QED BY <1>3, <2>7, <3>2, <4>1 DEF NoneOpen
    <3> QED BY <2>6, <3>1, <3>2 DEF ListMaking
  <2>10. ZipBusy(g)'
    BY <1>2, <1>8, <2>2, <2>6, <2>9 DEF ZipBusy, Listed, Making, ListMaking, Collecting
  <2>11. it[g.i] = "open" \/ Met(CloseExcuses)'
    BY <1>8, <2>2, <2>6 DEF ListMaking, Undef, Met, CloseExcuses, AdvanceExcuses
  <2> QED BY <1>2, <1>4, <2>2, <2>3, <2>5, <2>8, <2>10, <2>11, ZipContinues DEF AdvanceSites
<1>9. ASSUME f.call = "create", f.then \in {"afterElement", "afterPadding"}, kind = "zipKeyed",
             ~ ListThrows(f), "undefinedThrown" \in departed'
      PROVE  /\ Undef' /\ Excused' /\ EndsShut' /\ Met(LossExcuses)'
             /\ Met(AdvanceExcuses)' /\ Met(CloseExcuses)' /\ ListMaking(f, list, it, i)
  BY <1>9
  DEF ListSound, Undef, Excused, EndsShut, Met, LossExcuses, AdvanceExcuses, CloseExcuses
<1>10. ASSUME f.call = "create", f.then \in {"afterElement", "afterPadding"}, kind = "zipKeyed",
              ~ ListThrows(f), "undefinedThrown" \in departed',
              f.then = "afterElement" \/ f.pos < Count,
              GoesOn([f EXCEPT !.at = IF f.then = "afterElement" THEN "element" ELSE "padOpen",
                               !.pos = IF f.then = "afterElement" THEN 0 ELSE @ + 1,
                               !.then = "none", !.error = "none"], it),
              executing' = executing, phase' = phase
       PROVE  IInv'
  <2>1. PICK site : site = IF f.then = "afterElement" THEN "element" ELSE "padOpen"
    OBVIOUS
  <2>2. PICK pos : pos = IF f.then = "afterElement" THEN 0 ELSE f.pos + 1
    OBVIOUS
  <2>3. pos \in 0 .. MaxItems
    <3>1. f.pos \in 0 .. MaxItems
      BY DEF FrameType
    <3>2. CASE f.then = "afterElement"
      BY <2>2, <3>2, BoundsAssumption
    <3>3. CASE f.then # "afterElement"
      <4>1. f.pos < index /\ pos = f.pos + 1
        BY <1>10, <2>2, <3>3 DEF Count
      <4> QED BY ONLY <1>1, <3>1, <4>1, BoundsAssumption
    <3> QED BY <3>2, <3>3
  <2>4. PICK g : g = [f EXCEPT !.at = site, !.pos = pos, !.then = "none", !.error = "none"]
    OBVIOUS
  <2>5. /\ g \in FrameType /\ g.call = "create" /\ g.at = site /\ g.then = "none"
        /\ g.skip = f.skip /\ g.closeError = f.closeError
    BY <1>10, <2>1, <2>3, <2>4 DEF FrameType, OtherSites, Then
  <2>6. GoesOn(g, it)
    BY <1>10, <2>1, <2>2, <2>4
  <2>7. Waits(g, it)
    BY <2>5, <2>6, HelperGoes
  <2>8. iter' = it
    BY <2>1, <2>5, <2>7 DEF Waits, Shut, CloseSites
  <2>9. ListMaking(f, list, it, i) /\ Undef'
    BY <1>9, <1>10
  <2>10. Flags'
    BY <1>1, <1>10 DEF Flags
  <2>11. Making(g)'
    <3>1. ~ f.closeError
      BY <1>10 DEF ListThrows
    <3> QED
      BY <1>2, <1>10, <2>1, <2>5, <2>9, <3>1 DEF Making, ListMaking, MakingItems, Collecting
  <2>12. ZipBusy(g)'
    BY <2>1, <2>5, <2>11 DEF ZipBusy, Listed
  <2> QED
    BY <1>2, <1>4, <1>5, <2>1, <2>5, <2>7, <2>8, <2>10, <2>12, ZipContinues
    DEF AdvanceSites, CloseSites
<1>11. ASSUME f.call = "create", f.then \in {"afterElement", "afterPadding"}, kind = "zipKeyed",
              ~ ListThrows(f), "undefinedThrown" \in departed',
              ~ (f.then = "afterElement" \/ f.pos < Count),
              Ends(f, "value", it), phase' = "ready"
       PROVE  IInv'
  <2>1. /\ frames' = <<>> /\ iter' = it /\ misuse' = misuse /\ executing' = FALSE
        /\ lost' \in BOOLEAN
    BY <1>11, HelperStops
  <2>2. Flags'
    BY <1>1, <1>11, <2>1 DEF Flags
  <2>3. ListMaking(f, list, it, i) /\ Excused' /\ EndsShut' /\ Met(LossExcuses)' /\ Undef'
    BY <1>9, <1>11
  <2>4. ended' # 1 .. index' /\ ended' = {} /\ ~ done'
    <3>1. index # 0 /\ ended' = {} /\ ~ done'
      BY <1>11, <2>3 DEF ListMaking
    <3>2. 1 \in 1 .. index
      BY <1>1, <3>1, BoundsAssumption
    <3> QED BY <1>2, <3>1, <3>2
  <2>5. ZipIdle'
    BY <1>11, <2>3, <2>4 DEF ZipIdle, Live
  <2> QED BY <1>2, <1>4, <1>5, <2>1, <2>2, <2>3, <2>5, ZipEnds
<1>12. ASSUME f.call = "create",
              ~ (f.then = "afterElement" /\ kind = "zip" /\ ~ f.closeError),
              Ends(f, "error", it), phase' = phase,
              f.then = "afterElement" /\ kind = "zip" /\ f.error = "undefined" =>
                 "undefinedThrown" \in departed'
       PROVE  IInv'
  <2>1. /\ frames' = <<>> /\ iter' = it /\ misuse' = misuse /\ executing' = FALSE
        /\ lost' \in BOOLEAN /\ (lost' => lost)
    BY <1>12, HelperStops
  <2>2. Flags'
    BY <1>1, <1>12, <2>1 DEF Flags
  <2>3. ListMaking(f, list, it, i)
    BY <1>12 DEF ListSound
  <2>4. NoneOpen' \/ Met({"leaks", "undefinedThrown"})'
    <3>1. CASE Undef
      BY <1>4, <3>1 DEF Undef, Met, Remembers
    <3>2. CASE f.then = "afterElement" /\ kind = "zip"
      <4>1. f.error = "undefined"
        BY <1>12, <2>3, <3>2 DEF ListMaking
      <4> QED BY <1>12, <3>2, <4>1 DEF Met
    <3>3. CASE ~ Undef /\ ~ (f.then = "afterElement" /\ kind = "zip")
      BY <1>6, <2>1, <2>3, <3>3 DEF ListMaking, NoneOpen
    <3> QED BY <3>1, <3>2, <3>3
  <2>5. ZipIdle'
    BY <1>12, <2>3, <2>4 DEF ZipIdle, ListMaking
  <2> QED BY <1>2, <1>4, <1>5, <2>1, <2>2, <2>5, ZipEnds
<1>13. CASE /\ f.call # "create"
            /\ Ends(f, IF ListThrows(f) \/ f.then = "throw" THEN "error" ELSE "done", it)
            /\ IF f.call = "return" /\ ListThrows(f) /\ ~ done
               THEN Departs("zipUnfinished") ELSE Stays
            /\ phase' = phase
  BY <1>7, <1>13
<1>14. CASE /\ f.then = "afterElement" /\ kind = "zip" /\ ~ f.closeError
            /\ GoesOn([f EXCEPT !.at = "closeInput", !.i = Input], it)
            /\ Stays /\ executing' = executing /\ phase' = phase
  <2>1. f.call = "create"
    BY <1>14 DEF ListSound, ListRounding, ListReturning
  <2> QED BY <1>8, <1>14, <2>1 DEF Stays
<1>15. CASE /\ f.then \in {"afterElement", "afterPadding"} /\ kind = "zipKeyed"
            /\ ~ ListThrows(f) /\ Departs("undefinedThrown")
            /\ IF f.then = "afterElement" \/ f.pos < Count
               THEN /\ GoesOn([f EXCEPT !.at = IF f.then = "afterElement" THEN "element" ELSE "padOpen",
                                        !.pos = IF f.then = "afterElement" THEN 0 ELSE @ + 1,
                                        !.then = "none", !.error = "none"], it)
                    /\ executing' = executing /\ phase' = phase
               ELSE Ends(f, "value", it) /\ phase' = "ready"
  <2>1. f.call = "create" /\ "undefinedThrown" \in departed'
    BY <1>15 DEF ListSound, ListRounding, ListReturning, Departs
  <2> QED BY <1>10, <1>11, <1>15, <2>1
<1>16. CASE /\ f.call = "create"
            /\ ~ (f.then = "afterElement" /\ kind = "zip" /\ ~ f.closeError)
            /\ Ends(f, "error", it) /\ phase' = phase
            /\ IF f.then = "afterElement" /\ kind = "zip" /\ f.error = "undefined"
               THEN Departs("undefinedThrown") ELSE Stays
  BY <1>12, <1>16 DEF Departs
<1>17. \/ /\ f.call # "create"
          /\ Ends(f, IF ListThrows(f) \/ f.then = "throw" THEN "error" ELSE "done", it)
          /\ IF f.call = "return" /\ ListThrows(f) /\ ~ done
             THEN Departs("zipUnfinished") ELSE Stays
          /\ phase' = phase
       \/ /\ f.then = "afterElement" /\ kind = "zip" /\ ~ f.closeError
          /\ GoesOn([f EXCEPT !.at = "closeInput", !.i = Input], it)
          /\ Stays /\ executing' = executing /\ phase' = phase
       \/ /\ f.then \in {"afterElement", "afterPadding"} /\ kind = "zipKeyed"
          /\ ~ ListThrows(f) /\ Departs("undefinedThrown")
          /\ IF f.then = "afterElement" \/ f.pos < Count
             THEN /\ GoesOn([f EXCEPT !.at = IF f.then = "afterElement" THEN "element" ELSE "padOpen",
                                      !.pos = IF f.then = "afterElement" THEN 0 ELSE @ + 1,
                                      !.then = "none", !.error = "none"], it)
                  /\ executing' = executing /\ phase' = phase
             ELSE Ends(f, "value", it) /\ phase' = "ready"
       \/ /\ f.call = "create"
          /\ ~ (f.then = "afterElement" /\ kind = "zip" /\ ~ f.closeError)
          /\ Ends(f, "error", it) /\ phase' = phase
          /\ IF f.then = "afterElement" /\ kind = "zip" /\ f.error = "undefined"
             THEN Departs("undefinedThrown") ELSE Stays
  BY DEF AfterList
<1> QED BY <1>13, <1>14, <1>15, <1>16, <1>17

-----------------------------------------------------------------------------
(* zip and zipKeyed: making the helper.                                    *)

\* The code on top comes to closeIteratorList.
LEMMA ListStarts ==
    ASSUME IInv, kind \in Zips, frames # <<>>, NEW f \in FrameType,
           NEW list, NEW it \in IterType, ListSound(f, list, it, Padding),
           ClosesList(f, list, it)
    PROVE  IInv'
<1>1. Padding \in Slots
  BY SlotsAre
<1>2. CASE Left(list, f, Padding) = {}
  BY <1>1, <1>2, ListEnds DEF ClosesList
<1>3. CASE Left(list, f, Padding) # {}
  <2>1. PICK d : d = Down(list, f, Padding)
    OBVIOUS
  <2>2. d \in Slots
    <3>1. Flags
      BY DEF IInv, TypeInv
    <3>2. index \in Nat /\ Left(list, f, Padding) \in SUBSET (1 .. index)
      BY <3>1, Positions DEF Left, ListSound
    <3>3. d \in Left(list, f, Padding)
      BY <1>3, <2>1, <3>2, LastIs DEF Down
    <3> QED BY <3>1, <3>2, <3>3, Positions
  <2>3. PICK g : g = [f EXCEPT !.at = "closeList", !.i = d]
    OBVIOUS
  <2>4. /\ g \in FrameType
        /\ g.call = f.call /\ g.at = "closeList" /\ g.i = d /\ g.then = f.then
        /\ g.threw = f.threw /\ g.error = f.error /\ g.skip = f.skip
        /\ g.closeError = f.closeError
    BY <2>2, <2>3 DEF FrameType, CloseSites
  <2>5. GoesOn(g, it) /\ Stays /\ UNCHANGED <<executing, phase>>
    BY <1>3, <2>1, <2>3 DEF ClosesList
  <2> QED BY <1>1, <1>3, <2>1, <2>4, <2>5, ListCloses
<1> QED BY <1>2, <1>3

\* What a call that collects the items relies on.
LEMMA MakingWaits ==
    ASSUME IInv, NEW site \in Collecting, AtSite(site)
    PROVE  /\ kind \in Zips /\ frames # <<>> /\ ZipAlways /\ Flags /\ iter \in IterType
           /\ phase = "over" /\ ~ done /\ ended = {}
           /\ \E t \in FrameType :
                 /\ t = Top /\ t.at = site /\ t.call = "create" /\ t.skip = Input
                 /\ ~ t.closeError /\ MakingItems(t)
                 /\ site \in {"input", "padNext"} => kind = "zip"
                 /\ kind = "zipKeyed" /\ site = "padOpen" => index # 0
<1>1. kind \in Zips
  BY ZipSites DEF Collecting
<1>2. frames # <<>> /\ ZipAlways /\ Flags /\ iter \in IterType
  BY <1>1, ZipWaits
<1>3. PICK t \in FrameType : t = Top /\ t.at = site /\ ZipBusy(t)
  BY <1>1, ZipWaits
<1>4. t.call = "create" /\ Making(t)
  BY <1>3 DEF ZipBusy, Rounding, ZipReturning, Collecting
<1>5. phase = "over" /\ ~ done /\ ended = {} /\ t.skip = Input
  BY <1>4 DEF Making
<1>6. ~ t.closeError /\ MakingItems(t) /\ (site \in {"input", "padNext"} => kind = "zip")
  BY <1>3, <1>4 DEF Making, Collecting
<1>7. kind = "zipKeyed" /\ site = "padOpen" => index # 0
  BY <1>3, <1>4 DEF Making
<1> QED BY <1>1, <1>2, <1>3, <1>4, <1>5, <1>6, <1>7

\* A call that collects goes on collecting, in frame g with iterators it.
LEMMA MakingGoes ==
    ASSUME IInv, kind \in Zips, frames # <<>>, phase = "over", ~ done, ended = {},
           UNCHANGED <<kind, mode, phase, done, executing, ended, hasYielded, ofHelpers>>,
           NEW g \in FrameType, NEW it \in IterType, GoesOn(g, it), Remembers,
           index' \in 0 .. MaxItems, held' \subseteq 1 .. index',
           \A s \in Items : it[s] = "open" => s \in held',
           g.call = "create", g.at \in Collecting, g.skip = Input, ~ g.closeError,
           g.at \in {"input", "padNext"} => kind = "zip",
           kind = "zipKeyed" /\ (g.at = "padOpen" \/ g.then = "afterPadding") => index' # 0,
           \/ Undef'
           \/ /\ ~ g.threw
              /\ \A j \in 1 .. index' : it[j] = "open"
              /\ it[Padding] = "open" <=> g.at \in {"padNext", "padClose"}
              /\ it[Input] = "open" <=> g.at = "input" \/ (g.at = "element" /\ kind = "zip")
              /\ g.at \in {"input", "element"} => g.i = Input
              /\ g.at \in {"padOpen", "padNext", "padClose"} => g.i = Padding
    PROVE  IInv'
<1>1. Waits(g, it)
  BY HelperGoes
<1>2. iter' = IF g.at = "padClose" THEN [it EXCEPT ![g.i] = "closed"] ELSE it
  BY <1>1 DEF Waits, Shut, CloseSites, Collecting
<1>3. Flags /\ Flags'
  <2>1. Flags
    BY DEF IInv, TypeInv
  <2>2. ended' \subseteq 1 .. index'
    OBVIOUS
  <2> QED BY <2>1, <2>2 DEF Flags, ofHelpers
<1>4. g.i \in Slots
  BY DEF FrameType
<1>5. \A s \in Slots : iter'[s] = "open" => it[s] = "open"
  BY <1>2, <1>4 DEF IterType
<1>6. ZipAlways'
  BY <1>3, <1>5, Positions DEF ZipAlways
<1>7. MakingItems(g)'
  <2>1. CASE Undef'
    BY <2>1 DEF MakingItems
  <2>2. CASE /\ ~ g.threw
             /\ \A j \in 1 .. index' : it[j] = "open"
             /\ it[Padding] = "open" <=> g.at \in {"padNext", "padClose"}
             /\ it[Input] = "open" <=> g.at = "input" \/ (g.at = "element" /\ kind = "zip")
             /\ g.at \in {"input", "element"} => g.i = Input
             /\ g.at \in {"padOpen", "padNext", "padClose"} => g.i = Padding
    <3>1. CASE g.at # "padClose"
      BY <1>2, <2>2, <3>1 DEF MakingItems
    <3>2. CASE g.at = "padClose"
      <4>1. iter' = [it EXCEPT ![Padding] = "closed"]
        BY <1>2, <2>2, <3>2
      <4>2. \A j \in 1 .. index' : j \in Slots /\ j # Padding
        BY SlotsAre, BoundsAssumption DEF Padding
      <4>3. Padding \in Slots /\ Input \in Slots /\ Input # Padding
        BY SlotsAre, BoundsAssumption DEF Padding
      <4>4. \A j \in 1 .. index' : iter'[j] = "open"
        BY <2>2, <4>1, <4>2 DEF IterType
      <4>5. iter'[Padding] = "closed" /\ iter'[Input] = it[Input]
        BY <4>1, <4>3 DEF IterType
      <4> QED BY <2>2, <3>2, <4>4, <4>5 DEF MakingItems
    <3> QED BY <3>1, <3>2
  <2> QED BY <2>1, <2>2
<1>8. Making(g)'
  BY <1>7 DEF Making, Collecting
<1>9. ZipBusy(g)'
  BY <1>8 DEF ZipBusy, Listed, Collecting
<1>10. /\ g.at \in AdvanceSites => it[g.i] = "open" \/ Met(AdvanceExcuses)'
       /\ g.at \in CloseSites => it[g.i] = "open" \/ Met(CloseExcuses)'
  <2>1. CASE Undef'
    BY <2>1 DEF Undef, Met, AdvanceExcuses, CloseExcuses
  <2>2. CASE /\ it[Padding] = "open" <=> g.at \in {"padNext", "padClose"}
             /\ it[Input] = "open" <=> g.at = "input" \/ (g.at = "element" /\ kind = "zip")
             /\ g.at \in {"input", "element"} => g.i = Input
             /\ g.at \in {"padOpen", "padNext", "padClose"} => g.i = Padding
    BY <2>2 DEF AdvanceSites, CloseSites, Collecting
  <2> QED BY <2>1, <2>2
<1> QED BY <1>1, <1>3, <1>6, <1>9, <1>10, ZipContinues

\* The helper is made.
LEMMA HelperMade ==
    ASSUME IInv, kind \in Zips, frames # <<>>, phase = "over", ended = {},
           UNCHANGED <<kind, mode, index, held, ended, hasYielded, ofHelpers>>, Remembers,
           NEW f \in FrameType, NEW it \in IterType, MakesHelper(f, it),
           \A s \in Items : it[s] = "open" => s \in held,
           \/ Undef
           \/ /\ ~ f.threw
              /\ \A j \in 1 .. index : it[j] = "open"
              /\ it[Input] # "open" /\ it[Padding] # "open"
    PROVE  IInv'
<1>1. /\ frames' = <<>> /\ iter' = it /\ misuse' = misuse /\ executing' = FALSE
      /\ lost' \in BOOLEAN /\ (lost' => lost \/ f.threw)
      /\ phase' = "ready" /\ done' = (index = 0)
  BY HelperStops DEF MakesHelper, Count
<1>2. Flags
  BY DEF IInv, TypeInv
<1>3. Flags'
  BY <1>1, <1>2 DEF Flags, ofHelpers
<1>4. ZipAlways'
  BY <1>1 DEF ZipAlways
<1>5. lost' => lost \/ Met(LossExcuses)'
  BY <1>1 DEF Undef, Met, LossExcuses, Remembers
<1>6. EndsShut'
  BY <1>1 DEF EndsShut, Undef, Met, Remembers
<1>7. ~ done' => Live'
  <2>1. ASSUME index # 0 PROVE 1 .. index # {}
    <3>1. 1 \in 1 .. index
      BY <1>2, <2>1, BoundsAssumption DEF Flags
    <3> QED BY <3>1
  <2>2. held \subseteq 1 .. index
    BY <1>2 DEF Flags
  <2>3. Excused' \/ \A j \in 1 .. index : it[j] = "open"
    BY DEF Undef, Excused, Met, Remembers
  <2> QED BY <1>1, <2>1, <2>2, <2>3 DEF Live
<1>8. done' => NoneOpen' \/ Met({"leaks", "undefinedThrown"})'
  <2>1. ASSUME index = 0 PROVE \A s \in Items : it[s] # "open"
    <3>1. held = {}
      BY <1>2, <2>1 DEF Flags
    <3> QED BY <3>1
  <2>2. \A s \in Slots : s = Input \/ s = Padding \/ s \in Items
    BY BoundsAssumption DEF Slots, Input, Padding, Items
  <2>3. CASE Undef
    BY <2>3 DEF Undef, Met, Remembers
  <2>4. CASE it[Input] # "open" /\ it[Padding] # "open"
    BY <1>1, <2>1, <2>2, <2>4 DEF NoneOpen
  <2> QED BY <2>3, <2>4
<1>9. ZipIdle'
  BY <1>1, <1>6, <1>7, <1>8 DEF ZipIdle
<1> QED BY <1>1, <1>3, <1>4, <1>5, <1>9, ZipEnds

\* All items are open.
LEMMA ItemsAreOpen ==
    ASSUME IInv, kind \in Zips, frames # <<>>, phase = "over", ~ done, ended = {},
           UNCHANGED <<kind, mode, index, held, ended, hasYielded, ofHelpers>>, Remembers,
           NEW f \in FrameType, NEW it \in IterType, AfterItems(f, it),
           f.call = "create", f.skip = Input, ~ f.closeError,
           \A s \in Items : it[s] = "open" => s \in held,
           \/ Undef
           \/ /\ ~ f.threw
              /\ \A j \in 1 .. index : it[j] = "open"
              /\ it[Input] # "open" /\ it[Padding] # "open"
    PROVE  IInv'
<1>1. CASE MakesHelper(f, it)
  BY <1>1, HelperMade
<1>2. CASE /\ GoesOn([f EXCEPT !.at = "padOpen", !.i = Padding, !.pos = 1], it)
           /\ kind = "zip" \/ Count > 0
           /\ UNCHANGED <<executing, phase, done>>
  <2>1. PICK g : g = [f EXCEPT !.at = "padOpen", !.i = Padding, !.pos = 1]
    OBVIOUS
  <2>2. 1 \in 0 .. MaxItems /\ Padding \in Slots
    BY SlotsAre, BoundsAssumption
  <2>3. /\ g \in FrameType /\ g.call = "create" /\ g.at = "padOpen" /\ g.i = Padding
        /\ g.skip = Input /\ ~ g.closeError /\ g.threw = f.threw
    BY <2>1, <2>2 DEF FrameType, OtherSites
  <2>4. GoesOn(g, it)
    BY <1>2, <2>1
  <2>5. /\ index \in 0 .. MaxItems /\ held \subseteq 1 .. index
    BY DEF IInv, TypeInv, Flags
  <2>6. kind = "zipKeyed" => index # 0
    <3>1. kind = "zipKeyed" => index > 0
      BY <1>2 DEF Count
    <3> QED BY <2>5, <3>1
  <2>7. \/ Undef'
        \/ /\ ~ g.threw
           /\ \A j \in 1 .. index : it[j] = "open"
           /\ it[Input] # "open" /\ it[Padding] # "open"
    BY <2>3 DEF Undef, Met, Remembers
  <2> QED BY <1>2, <2>3, <2>4, <2>5, <2>6, <2>7, MakingGoes DEF Collecting
<1> QED BY <1>1, <1>2 DEF AfterItems

\* Something has thrown while the helper was made: what is held is closed.
LEMMA MakingStops ==
    ASSUME IInv, kind \in Zips, frames # <<>>, phase = "over", ~ done, ended = {},
           UNCHANGED <<kind, mode, done, index, ended, hasYielded, ofHelpers>>,
           NEW f \in FrameType, NEW it \in IterType, ClosesList(f, held, it),
           f.call = "create", f.skip = Input, ~ f.closeError,
           f.then \in {"throw", "afterElement", "afterPadding"},
           f.error \in {"error", "undefined"},
           kind = "zipKeyed" /\ f.then = "afterPadding" => index # 0,
           \A s \in Items : it[s] = "open" => s \in held,
           \/ Undef
           \/ /\ \A j \in 1 .. index : it[j] = "open"
              /\ it[Padding] # "open"
              /\ it[Input] = "open" <=> kind = "zip" /\ f.then = "afterElement"
    PROVE  IInv'
<1>1. PICK list : list = held
  OBVIOUS
<1>2. /\ list \subseteq 1 .. index /\ held' = list /\ Flags
  BY <1>1 DEF IInv, TypeInv, Flags, ClosesList
<1>3. ListMaking(f, list, it, Padding)
  BY <1>2 DEF ListMaking
<1>4. \A s \in Items : ~ (s >= Padding)
  BY BoundsAssumption DEF Items, Padding
<1>5. ListSound(f, list, it, Padding)
  <2>1. done' \in BOOLEAN /\ ended' = {} /\ ended' \subseteq 1 .. index
    BY <1>2 DEF Flags
  <2>2. \A s \in ended' : it[s] # "open"
    BY <2>1
  <2>3. \A s \in Items : s >= Padding /\ s # f.skip => it[s] # "open"
    BY <1>4
  <2> QED BY <1>1, <1>2, <1>3, <2>1, <2>2, <2>3 DEF ListSound
<1> QED BY <1>1, <1>5, ListStarts


\* The call that makes the helper ends without one.
LEMMA MakingEnds ==
    ASSUME IInv, kind \in Zips, frames # <<>>, phase = "over",
           UNCHANGED <<kind, phase, done, mode, index, held, ended, hasYielded, ofHelpers>>,
           Remembers, NEW f \in FrameType, NEW it \in IterType, Ends(f, "error", it),
           \A s \in Slots : it[s] = "open" => iter[s] = "open",
           (\A s \in Slots : it[s] # "open") \/ Met({"leaks", "undefinedThrown"})'
    PROVE  IInv'
<1>1. /\ frames' = <<>> /\ iter' = it /\ misuse' = misuse /\ executing' = FALSE
      /\ lost' \in BOOLEAN /\ (lost' => lost)
  BY HelperStops
<1>2. Flags /\ Flags' /\ ZipAlways
  <2>1. Flags /\ ZipAlways
    BY DEF IInv, TypeInv, ZipInv
  <2> QED BY <1>1, <2>1 DEF Flags, ofHelpers
<1>3. ZipAlways'
  <2>1. \A s \in Items : it[s] = "open" => iter[s] = "open"
    BY <1>2, Positions
  <2>2. \A s \in ended : it[s] = "open" => iter[s] = "open"
    <3>1. ended \subseteq 1 .. index
      BY <1>2 DEF Flags
    <3> QED BY <1>2, <3>1, Positions
  <2> QED BY <1>1, <1>2, <2>1, <2>2 DEF ZipAlways
<1>4. ZipIdle'
  BY <1>1 DEF ZipIdle, NoneOpen
<1> QED BY <1>1, <1>2, <1>3, <1>4, ZipEnds

\* StartZip: the first thing to be read.
LEMMA StartZipStep == ASSUME IInv, StartZip PROVE IInv'
<1>1. /\ kind \in Zips /\ phase = "new" /\ phase' = "over" /\ Stays /\ Remembers
      /\ UNCHANGED <<kind, done, executing, ofHelpers, index, ofZips>>
      /\ UNCHANGED <<mode, held, ended, hasYielded>>
  BY DEF StartZip, Stays, Remembers, ofZips
<1>2. /\ frames = <<>> /\ ~ executing /\ ZipAlways /\ ZipIdle /\ Flags /\ iter \in IterType
  BY <1>1, NothingZipped
<1>3. /\ index = 0 /\ held = {} /\ ended = {} /\ ~ done /\ iter[Padding] # "open"
      /\ (iter[Input] = "open" <=> kind = "zip")
  BY <1>1, <1>2 DEF ZipIdle
<1>4. PICK g : g = Frame("create", IF kind = "zip" THEN "input" ELSE "element", Input)
  OBVIOUS
<1>5. /\ g \in FrameType /\ g.call = "create" /\ g.i = Input /\ g.then = "none" /\ ~ g.threw
      /\ g.skip = Input /\ ~ g.closeError
      /\ g.at = IF kind = "zip" THEN "input" ELSE "element"
  <2>1. 0 \in 0 .. MaxItems
    BY BoundsAssumption
  <2> QED BY <1>4, <2>1, AreSlots
          DEF Frame, FrameType, AdvanceSites, CloseSites, OtherSites, Then
<1>6. Waits(g, iter)
  BY <1>2, <1>4, <1>5, BeginsWaits DEF StartZip, IInv
<1>7. iter' = iter
  BY <1>5, <1>6 DEF Waits, Shut, CloseSites
<1>8. Flags'
  BY <1>1, <1>2 DEF Flags, ofHelpers
<1>9. ZipAlways'
  BY <1>1, <1>2, <1>7 DEF ZipAlways
<1>10. MakingItems(g)'
  BY <1>1, <1>3, <1>5, <1>7 DEF MakingItems, Zips
<1>11. ZipBusy(g)'
  BY <1>1, <1>3, <1>5, <1>10 DEF ZipBusy, Listed, Making, Collecting, Zips
<1> QED BY <1>1, <1>2, <1>3, <1>5, <1>6, <1>8, <1>9, <1>11, ZipContinues
        DEF AdvanceSites, CloseSites

\* InputAnswers: next() of the input iterator.
LEMMA InputAnswersStep ==
    ASSUME IInv, NEW outcome \in ZipOutcomes, InputAnswers(outcome) PROVE IInv'
<1>1. AtSite("input") /\ UNCHANGED <<kind, mode, ended, hasYielded, ofHelpers, index>>
  BY DEF InputAnswers
<1>2. /\ kind = "zip" /\ kind \in Zips /\ frames # <<>> /\ ZipAlways /\ Flags /\ iter \in IterType
      /\ phase = "over" /\ ~ done /\ ended = {}
  BY <1>1, MakingWaits DEF Collecting
<1>3. PICK t \in FrameType : t = Top /\ t.at = "input" /\ t.call = "create" /\ t.skip = Input
                             /\ ~ t.closeError /\ MakingItems(t)
  BY <1>1, MakingWaits DEF Collecting
<1>4. /\ index \in 0 .. MaxItems /\ held \subseteq 1 .. index
      /\ \A s \in Items : iter[s] = "open" => s \in held
  BY <1>2 DEF Flags, ZipAlways
<1>5. ASSUME NEW state, state \in {"ended", "failed"}, NEW it, it = [iter EXCEPT ![Input] = state]
      PROVE  /\ it \in IterType /\ it[Input] # "open"
             /\ \A s \in Slots : s # Input => it[s] = iter[s]
             /\ \A s \in Slots : it[s] = "open" => iter[s] = "open"
             /\ \A s \in Items : it[s] = "open" => s \in held
             /\ Undef \/ (/\ ~ t.threw
                          /\ \A j \in 1 .. index : it[j] = "open"
                          /\ it[Padding] # "open")
  <2>1. it \in IterType /\ it[Input] # "open" /\ \A s \in Slots : s # Input => it[s] = iter[s]
    BY <1>2, <1>5, AreSlots DEF IterType
  <2>2. /\ \A s \in Items : it[s] = iter[s]
        /\ \A s \in 1 .. index : it[s] = iter[s]
    BY <1>2, <2>1, Positions
  <2>3. it[Padding] = iter[Padding]
    BY <2>1, SlotsAre, BoundsAssumption DEF Padding
  <2> QED BY <1>3, <1>4, <2>1, <2>2, <2>3 DEF MakingItems
<1>6. CASE /\ outcome = "value" /\ index < MaxItems
           /\ GoesOn([Top EXCEPT !.at = "element"], iter) /\ Stays
           /\ UNCHANGED <<executing, phase, done, held>>
  <2>1. PICK g : g = [t EXCEPT !.at = "element"]
    OBVIOUS
  <2>2. /\ g \in FrameType /\ g.call = "create" /\ g.at = "element" /\ g.skip = Input
        /\ ~ g.closeError /\ g.threw = t.threw /\ g.i = t.i /\ GoesOn(g, iter)
    BY <1>3, <1>6, <2>1 DEF FrameType, OtherSites
  <2>3. Remembers
    BY <1>6 DEF Stays, Remembers
  <2>4. Undef => Undef'
    BY <2>3 DEF Undef, Met, Remembers
  <2>5. \/ Undef'
        \/ /\ ~ g.threw
           /\ \A j \in 1 .. index' : iter[j] = "open"
           /\ iter[Padding] # "open" /\ iter[Input] = "open" /\ g.i = Input
    BY <1>1, <1>3, <2>2, <2>4 DEF MakingItems
  <2> QED BY <1>1, <1>2, <1>4, <1>6, <2>2, <2>3, <2>5, MakingGoes DEF Collecting
<1>7. CASE /\ outcome = "done"
           /\ AfterItems(Top, [iter EXCEPT ![Input] = "ended"])
           /\ Stays /\ UNCHANGED held
  <2>1. PICK it : it = [iter EXCEPT ![Input] = "ended"]
    OBVIOUS
  <2>2. Remembers
    BY <1>7 DEF Stays, Remembers
  <2>3. AfterItems(t, it)
    BY <1>3, <1>7, <2>1
  <2> QED BY <1>1, <1>2, <1>3, <1>5, <1>7, <2>1, <2>2, <2>3, ItemsAreOpen
<1>8. CASE /\ outcome = "throw" /\ UNCHANGED done
           /\ \E value \in {"error", "undefined"} :
                 ClosesList([Raised(Top, value) EXCEPT !.then = "throw"], held,
                            [iter EXCEPT ![Input] = "failed"])
  <2>1. PICK value \in {"error", "undefined"} :
                 ClosesList([Raised(Top, value) EXCEPT !.then = "throw"], held,
                            [iter EXCEPT ![Input] = "failed"])
    BY <1>8
  <2>2. PICK it : it = [iter EXCEPT ![Input] = "failed"]
    OBVIOUS
  <2>3. PICK f : f = [Raised(t, value) EXCEPT !.then = "throw"]
    OBVIOUS
  <2>4. /\ f \in FrameType /\ f.call = "create" /\ f.skip = Input /\ ~ f.closeError
        /\ f.then = "throw" /\ f.error = value
    BY <1>3, <2>3 DEF Raised, FrameType, Then, Thrown
  <2>5. ClosesList(f, held, it)
    BY <1>3, <2>1, <2>2, <2>3
  <2> QED BY <1>1, <1>2, <1>5, <1>8, <2>2, <2>4, <2>5, MakingStops
<1>9. CASE /\ outcome = "unreadable"
           /\ Ends(Raised(Top, "error"), "error", [iter EXCEPT ![Input] = "failed"])
           /\ Departs("leaks") /\ UNCHANGED <<phase, done, held>>
  <2>1. PICK it : it = [iter EXCEPT ![Input] = "failed"]
    OBVIOUS
  <2>2. PICK f : f = Raised(t, "error")
    OBVIOUS
  <2>3. f \in FrameType /\ Ends(f, "error", it)
    BY <1>3, <1>9, <2>1, <2>2 DEF Raised, FrameType, Thrown
  <2>4. Remembers /\ Met({"leaks", "undefinedThrown"})'
    BY <1>9 DEF Departs, Remembers, Met
  <2> QED BY <1>1, <1>2, <1>5, <1>9, <2>1, <2>3, <2>4, MakingEnds
<1> QED BY <1>6, <1>7, <1>8, <1>9 DEF InputAnswers

\* ElementAnswers: an item of zip, or a property of zipKeyed.
LEMMA ElementAnswersStep ==
    ASSUME IInv, NEW outcome \in {"value", "done", "throw"}, ElementAnswers(outcome) PROVE IInv'
<1>1. AtSite("element") /\ UNCHANGED <<kind, mode, ended, hasYielded, ofHelpers>>
  BY DEF ElementAnswers
<1>2. /\ kind \in Zips /\ frames # <<>> /\ ZipAlways /\ Flags /\ iter \in IterType
      /\ phase = "over" /\ ~ done /\ ended = {}
  BY <1>1, MakingWaits DEF Collecting
<1>3. PICK t \in FrameType : t = Top /\ t.at = "element" /\ t.call = "create" /\ t.skip = Input
                             /\ ~ t.closeError /\ MakingItems(t)
  BY <1>1, MakingWaits DEF Collecting
<1>4. /\ index \in 0 .. MaxItems /\ held \subseteq 1 .. index
      /\ \A s \in Items : iter[s] = "open" => s \in held
  BY <1>2 DEF Flags, ZipAlways
<1>5. \/ Undef
      \/ /\ ~ t.threw /\ t.i = Input
         /\ \A j \in 1 .. index : iter[j] = "open"
         /\ iter[Padding] # "open"
         /\ iter[Input] = "open" <=> kind = "zip"
  BY <1>3 DEF MakingItems
<1>6. CASE /\ outcome = "value" /\ index < MaxItems
           /\ index' = index + 1
           /\ held' = held \cup {index + 1}
           /\ GoesOn([Top EXCEPT !.at = IF kind = "zip" THEN "input" ELSE "element"],
                     [iter EXCEPT ![index + 1] = "open"])
           /\ Stays
           /\ UNCHANGED <<executing, phase, done>>
  <2>1. PICK g : g = [t EXCEPT !.at = IF kind = "zip" THEN "input" ELSE "element"]
    OBVIOUS
  <2>2. PICK n : n = index + 1
    OBVIOUS
  <2>3. PICK it : it = [iter EXCEPT ![n] = "open"]
    OBVIOUS
  <2>4. /\ g \in FrameType /\ g.call = "create" /\ g.skip = Input
        /\ ~ g.closeError /\ g.threw = t.threw /\ g.i = t.i
        /\ g.at = (IF kind = "zip" THEN "input" ELSE "element")
        /\ g.at \in Collecting /\ g.at # "padOpen" /\ g.then = t.then
    BY <1>3, <2>1 DEF FrameType, AdvanceSites, OtherSites, Collecting
  <2>5. GoesOn(g, it)
    BY <1>3, <1>6, <2>1, <2>2, <2>3
  <2>6. n \in Items /\ n \in Slots /\ n # Input /\ n # Padding /\ n # 0
    <3>1. n \in 1 .. MaxItems
      BY <1>4, <1>6, <2>2, BoundsAssumption
    <3>2. n # 0
      BY <3>1, BoundsAssumption
    <3> QED BY <1>2, <3>1, <3>2, Positions DEF Items
  <2>7. /\ it \in IterType /\ it[n] = "open"
        /\ \A s \in Slots : s # n => it[s] = iter[s]
    BY <1>2, <2>3, <2>6 DEF IterType
  <2>8. index' \in 0 .. MaxItems /\ held' \subseteq 1 .. index'
        /\ 1 .. index' = (1 .. index) \cup {n} /\ index' # 0
    BY <1>4, <1>6, <2>2, BoundsAssumption
  <2>9. \A s \in Items : it[s] = "open" => s \in held'
    BY <1>2, <1>4, <1>6, <2>2, <2>7, Positions
  <2>10. Remembers
    BY <1>6 DEF Stays, Remembers
  <2>11. Undef => Undef'
    BY <2>10 DEF Undef, Met, Remembers
  <2>12. it[Input] = iter[Input] /\ it[Padding] = iter[Padding]
    BY <2>6, <2>7, SlotsAre
  <2>13. ASSUME \A j \in 1 .. index : iter[j] = "open"
         PROVE  \A j \in 1 .. index' : it[j] = "open"
    BY <1>2, <2>7, <2>8, <2>13, Positions
  <2>14. \/ Undef'
         \/ /\ ~ g.threw
            /\ \A j \in 1 .. index' : it[j] = "open"
            /\ it[Padding] # "open" /\ it[Input] = "open" <=> kind = "zip"
            /\ g.i = Input
    BY <1>5, <2>4, <2>11, <2>12, <2>13
  <2>15. \/ Undef'
         \/ /\ ~ g.threw
            /\ \A j \in 1 .. index' : it[j] = "open"
            /\ it[Padding] = "open" <=> g.at \in {"padNext", "padClose"}
            /\ it[Input] = "open" <=> g.at = "input" \/ (g.at = "element" /\ kind = "zip")
            /\ g.at \in {"input", "element"} => g.i = Input
            /\ g.at \in {"padOpen", "padNext", "padClose"} => g.i = Padding
    BY <1>5, <2>4, <2>11, <2>12, <2>13
  <2>16. g.at \in {"input", "padNext"} => kind = "zip"
    BY <2>4
  <2> QED BY <1>1, <1>2, <1>6, <2>4, <2>5, <2>7, <2>8, <2>9, <2>10, <2>15, <2>16, MakingGoes
<1>7. CASE /\ outcome = "done" /\ kind = "zipKeyed"
           /\ AfterItems(Top, iter)
           /\ Stays /\ UNCHANGED <<index, held>>
  <2>1. Remembers
    BY <1>7 DEF Stays, Remembers
  <2>2. AfterItems(t, iter)
    BY <1>3, <1>7
  <2> QED BY <1>1, <1>2, <1>3, <1>4, <1>5, <1>7, <2>1, <2>2, ItemsAreOpen
<1>8. CASE /\ outcome = "throw" /\ UNCHANGED <<index, done>>
           /\ \E value \in {"error", "undefined"} :
                 ClosesList([Raised(Top, value) EXCEPT !.then = "afterElement"], held, iter)
  <2>1. PICK value \in {"error", "undefined"} :
                 ClosesList([Raised(Top, value) EXCEPT !.then = "afterElement"], held, iter)
    BY <1>8
  <2>2. PICK f : f = [Raised(t, value) EXCEPT !.then = "afterElement"]
    OBVIOUS
  <2>3. /\ f \in FrameType /\ f.call = "create" /\ f.skip = Input /\ ~ f.closeError
        /\ f.then = "afterElement" /\ f.error = value
    BY <1>3, <2>2 DEF Raised, FrameType, Then, Thrown
  <2>4. ClosesList(f, held, iter)
    BY <1>3, <2>1, <2>2
  <2> QED BY <1>1, <1>2, <1>4, <1>5, <1>8, <2>3, <2>4, MakingStops
<1> QED BY <1>6, <1>7, <1>8 DEF ElementAnswers

\* CloseInput: return() of the input iterator.
LEMMA CloseInputStep ==
    ASSUME IInv, NEW outcome, CloseInput(outcome) PROVE IInv'
<1>1. AtSite("closeInput") /\ UNCHANGED <<kind, phase, done, ofHelpers, index, ofZips>>
      /\ UNCHANGED <<mode, held, ended, hasYielded>>
  BY DEF CloseInput, ofZips
<1>2. kind \in Zips
  BY <1>1, ZipSites
<1>3. frames # <<>> /\ ZipAlways /\ Flags /\ iter \in IterType
  BY <1>1, <1>2, ZipWaits
<1>4. PICK t \in FrameType : t = Top /\ t.at = "closeInput" /\ ZipBusy(t)
  BY <1>1, <1>2, ZipWaits
<1>5. t.call = "create" /\ Making(t)
  BY <1>4 DEF ZipBusy, Rounding, ZipReturning
<1>6. /\ kind = "zip" /\ phase = "over" /\ ~ done /\ ended = {} /\ t.skip = Input
      /\ ~ t.closeError /\ (Undef \/ NoneOpen)
  BY <1>4, <1>5 DEF Making
<1>7. CASE Ends(Top, "error", iter) /\ Stays
  <2>1. Remembers
    BY <1>7 DEF Stays, Remembers
  <2>2. (\A s \in Slots : iter[s] # "open") \/ Met({"leaks", "undefinedThrown"})'
    BY <1>6, <2>1 DEF NoneOpen, Undef, Met, Remembers
  <2> QED BY <1>1, <1>2, <1>3, <1>4, <1>6, <1>7, <2>1, <2>2, MakingEnds
<1>8. CASE /\ GoesOn([Top EXCEPT !.at = "input", !.then = "none", !.error = "none"], iter)
           /\ Departs("undefinedThrown")
           /\ UNCHANGED executing
  <2>1. PICK g : g = [t EXCEPT !.at = "input", !.then = "none", !.error = "none"]
    OBVIOUS
  <2>2. /\ g \in FrameType /\ g.call = "create" /\ g.at = "input" /\ g.skip = Input
        /\ ~ g.closeError /\ g.then = "none" /\ GoesOn(g, iter)
    BY <1>4, <1>5, <1>6, <1>8, <2>1 DEF FrameType, AdvanceSites, Then
  <2>3. Remembers /\ Undef'
    BY <1>8 DEF Departs, Remembers, Undef, Met
  <2>4. index' \in 0 .. MaxItems /\ held' \subseteq 1 .. index'
        /\ \A s \in Items : iter[s] = "open" => s \in held'
    BY <1>1, <1>3 DEF Flags, ZipAlways
  <2> QED BY <1>1, <1>2, <1>3, <1>6, <1>8, <2>2, <2>3, <2>4, MakingGoes DEF Collecting
<1> QED BY <1>7, <1>8 DEF CloseInput

\* OpenPadding: the padding is read.
LEMMA OpenPaddingStep ==
    ASSUME IInv, NEW outcome, OpenPadding(outcome) PROVE IInv'
<1>1. AtSite("padOpen") /\ UNCHANGED <<kind, mode, ended, hasYielded, ofHelpers, index>>
  BY DEF OpenPadding
<1>2. /\ kind \in Zips /\ frames # <<>> /\ ZipAlways /\ Flags /\ iter \in IterType
      /\ phase = "over" /\ ~ done /\ ended = {}
  BY <1>1, MakingWaits DEF Collecting
<1>3. PICK t \in FrameType : /\ t = Top /\ t.at = "padOpen" /\ t.call = "create"
                             /\ t.skip = Input /\ ~ t.closeError /\ MakingItems(t)
                             /\ kind = "zipKeyed" => index # 0
  BY <1>1, MakingWaits DEF Collecting
<1>4. /\ index \in 0 .. MaxItems /\ held \subseteq 1 .. index
      /\ \A s \in Items : iter[s] = "open" => s \in held
  BY <1>2 DEF Flags, ZipAlways
<1>5. \/ Undef
      \/ /\ ~ t.threw /\ t.i = Padding
         /\ \A j \in 1 .. index : iter[j] = "open"
         /\ iter[Padding] # "open" /\ iter[Input] # "open"
  BY <1>3 DEF MakingItems
<1>6. CASE /\ outcome = "value" /\ kind = "zip"
           /\ GoesOn([Top EXCEPT !.at = IF Count = 0 THEN "padClose" ELSE "padNext"],
                     [iter EXCEPT ![Padding] = "open"])
           /\ Stays /\ UNCHANGED <<executing, phase, done, held>>
  <2>1. PICK g : g = [t EXCEPT !.at = IF Count = 0 THEN "padClose" ELSE "padNext"]
    OBVIOUS
  <2>2. PICK it : it = [iter EXCEPT ![Padding] = "open"]
    OBVIOUS
  <2>3. /\ g \in FrameType /\ g.call = "create" /\ g.skip = Input
        /\ ~ g.closeError /\ g.threw = t.threw /\ g.i = t.i
        /\ g.at \in {"padNext", "padClose"} /\ g.then = t.then
    BY <1>3, <2>1 DEF FrameType, AdvanceSites, CloseSites
  <2>4. GoesOn(g, it)
    BY <1>3, <1>6, <2>1, <2>2
  <2>5. /\ it \in IterType /\ it[Padding] = "open"
        /\ \A s \in Slots : s # Padding => it[s] = iter[s]
    BY <1>2, <2>2, SlotsAre DEF IterType
  <2>6. Input \in Slots /\ Input # Padding
    BY SlotsAre, BoundsAssumption DEF Padding
  <2>7. /\ \A s \in Items : it[s] = iter[s]
        /\ \A s \in 1 .. index : it[s] = iter[s]
        /\ it[Input] = iter[Input]
    BY <1>2, <2>5, <2>6, Positions
  <2>8. Remembers
    BY <1>6 DEF Stays, Remembers
  <2>9. Undef => Undef'
    BY <2>8 DEF Undef, Met, Remembers
  <2>10. \/ Undef'
         \/ /\ ~ g.threw
            /\ \A j \in 1 .. index' : it[j] = "open"
            /\ it[Padding] = "open" <=> g.at \in {"padNext", "padClose"}
            /\ it[Input] = "open" <=> g.at = "input" \/ (g.at = "element" /\ kind = "zip")
            /\ g.at \in {"input", "element"} => g.i = Input
            /\ g.at \in {"padOpen", "padNext", "padClose"} => g.i = Padding
    BY <1>1, <1>5, <2>3, <2>5, <2>7, <2>9
  <2>11. \A s \in Items : it[s] = "open" => s \in held'
    BY <1>4, <1>6, <2>7
  <2>12. /\ index' \in 0 .. MaxItems /\ held' \subseteq 1 .. index'
         /\ ~ (kind = "zipKeyed" /\ (g.at = "padOpen" \/ g.then = "afterPadding"))
    BY <1>1, <1>4, <1>6
  <2> QED BY <1>1, <1>2, <1>6, <2>3, <2>4, <2>5, <2>8, <2>10, <2>11, <2>12, MakingGoes
          DEF Collecting
<1>7. CASE /\ outcome = "value" /\ kind = "zipKeyed"
           /\ IF Top.pos < Count
              THEN GoesOn([Top EXCEPT !.pos = @ + 1], iter) /\ UNCHANGED <<executing, phase, done>>
              ELSE MakesHelper(Top, iter)
           /\ Stays /\ UNCHANGED held
  <2>1. Remembers
    BY <1>7 DEF Stays, Remembers
  <2>2. Undef => Undef'
    BY <2>1 DEF Undef, Met, Remembers
  <2>3. CASE /\ Top.pos < Count
             /\ GoesOn([Top EXCEPT !.pos = @ + 1], iter)
             /\ UNCHANGED <<executing, phase, done>>
    <3>1. PICK g : g = [t EXCEPT !.pos = @ + 1]
      OBVIOUS
    <3>2. t.pos + 1 \in 0 .. MaxItems
      <4>1. t.pos \in 0 .. MaxItems /\ t.pos < index
        BY <1>3, <2>3 DEF FrameType, Count
      <4> QED BY <1>4, <4>1, BoundsAssumption
    <3>3. /\ g \in FrameType /\ g.call = "create" /\ g.skip = Input
          /\ ~ g.closeError /\ g.threw = t.threw /\ g.i = t.i /\ g.at = "padOpen"
          /\ GoesOn(g, iter)
      BY <1>3, <2>3, <3>1, <3>2 DEF FrameType
    <3>4. \/ Undef'
          \/ /\ ~ g.threw
             /\ \A j \in 1 .. index' : iter[j] = "open"
             /\ iter[Padding] # "open" /\ iter[Input] # "open" /\ g.i = Padding
      BY <1>1, <1>5, <2>2, <3>3
    <3>5. /\ index' \in 0 .. MaxItems /\ held' \subseteq 1 .. index' /\ index' # 0
          /\ \A s \in Items : iter[s] = "open" => s \in held'
      BY <1>1, <1>3, <1>4, <1>7
    <3> QED BY <1>1, <1>2, <2>1, <2>3, <3>3, <3>4, <3>5, MakingGoes DEF Collecting
  <2>4. CASE MakesHelper(Top, iter)
    BY <1>1, <1>2, <1>3, <1>4, <1>5, <1>7, <2>1, <2>4, HelperMade
  <2> QED BY <1>7, <2>3, <2>4
<1>8. CASE /\ outcome = "throw" /\ UNCHANGED done
           /\ \E value \in {"error", "undefined"} :
                 ClosesList([Raised(Top, value) EXCEPT !.then = "afterPadding"], held, iter)
  <2>1. PICK value \in {"error", "undefined"} :
                 ClosesList([Raised(Top, value) EXCEPT !.then = "afterPadding"], held, iter)
    BY <1>8
  <2>2. PICK f : f = [Raised(t, value) EXCEPT !.then = "afterPadding"]
    OBVIOUS
  <2>3. /\ f \in FrameType /\ f.call = "create" /\ f.skip = Input /\ ~ f.closeError
        /\ f.then = "afterPadding" /\ f.error = value
    BY <1>3, <2>2 DEF Raised, FrameType, Then, Thrown
  <2>4. ClosesList(f, held, iter)
    BY <1>3, <2>1, <2>2
  <2>5. /\ kind = "zipKeyed" => index # 0
        /\ \/ Undef
           \/ /\ \A j \in 1 .. index : iter[j] = "open"
              /\ iter[Padding] # "open"
              /\ iter[Input] = "open" <=> kind = "zip" /\ f.then = "afterElement"
    BY <1>3, <1>5, <2>3
  <2> QED BY <1>1, <1>2, <1>4, <1>8, <2>3, <2>4, <2>5, MakingStops
<1>9. CASE /\ outcome = "leak"
           /\ Ends(Raised(Top, "error"), "error", iter)
           /\ Departs("leaks") /\ UNCHANGED <<phase, done, held>>
  <2>1. PICK f : f = Raised(t, "error")
    OBVIOUS
  <2>2. f \in FrameType /\ Ends(f, "error", iter)
    BY <1>3, <1>9, <2>1 DEF Raised, FrameType, Thrown
  <2>3. Remembers /\ Met({"leaks", "undefinedThrown"})'
    BY <1>9 DEF Departs, Remembers, Met
  <2> QED BY <1>1, <1>2, <1>9, <2>2, <2>3, MakingEnds
<1> QED BY <1>6, <1>7, <1>8, <1>9 DEF OpenPadding

\* NextPadding: next() of the padding of zip.
LEMMA NextPaddingStep ==
    ASSUME IInv, NEW outcome, NextPadding(outcome) PROVE IInv'
<1>1. AtSite("padNext") /\ UNCHANGED <<kind, mode, ended, hasYielded, ofHelpers, index>>
  BY DEF NextPadding
<1>2. /\ kind = "zip" /\ kind \in Zips /\ frames # <<>> /\ ZipAlways /\ Flags
      /\ iter \in IterType /\ phase = "over" /\ ~ done /\ ended = {}
  BY <1>1, MakingWaits DEF Collecting
<1>3. PICK t \in FrameType : /\ t = Top /\ t.at = "padNext" /\ t.call = "create"
                             /\ t.skip = Input /\ ~ t.closeError /\ MakingItems(t)
  BY <1>1, MakingWaits DEF Collecting
<1>4. /\ index \in 0 .. MaxItems /\ held \subseteq 1 .. index
      /\ \A s \in Items : iter[s] = "open" => s \in held
  BY <1>2 DEF Flags, ZipAlways
<1>5. \/ Undef
      \/ /\ ~ t.threw /\ t.i = Padding
         /\ \A j \in 1 .. index : iter[j] = "open"
         /\ iter[Padding] = "open" /\ iter[Input] # "open"
  BY <1>3 DEF MakingItems
<1>6. ASSUME NEW state, state \in {"ended", "failed"}, NEW it, it = [iter EXCEPT ![Padding] = state]
      PROVE  /\ it \in IterType /\ it[Padding] # "open"
             /\ \A s \in Items : it[s] = "open" => s \in held
             /\ Undef \/ (/\ ~ t.threw
                          /\ \A j \in 1 .. index : it[j] = "open"
                          /\ it[Input] # "open")
  <2>1. /\ it \in IterType /\ it[Padding] # "open"
        /\ \A s \in Slots : s # Padding => it[s] = iter[s]
    BY <1>2, <1>6, SlotsAre DEF IterType
  <2>2. /\ \A s \in Items : it[s] = iter[s]
        /\ \A s \in 1 .. index : it[s] = iter[s]
    BY <1>2, <2>1, Positions
  <2>3. it[Input] = iter[Input]
    BY <2>1, SlotsAre, BoundsAssumption DEF Padding
  <2> QED BY <1>4, <1>5, <2>1, <2>2, <2>3
<1>7. CASE /\ outcome = "value"
           /\ GoesOn(IF Top.pos < Count THEN [Top EXCEPT !.pos = @ + 1]
                     ELSE [Top EXCEPT !.at = "padClose"], iter)
           /\ Stays /\ UNCHANGED <<executing, phase, done, held>>
  <2>1. PICK g : g = IF t.pos < Count THEN [t EXCEPT !.pos = @ + 1]
                     ELSE [t EXCEPT !.at = "padClose"]
    OBVIOUS
  <2>2. t.pos < Count => t.pos + 1 \in 0 .. MaxItems
    <3>1. t.pos \in 0 .. MaxItems
      BY DEF FrameType
    <3> QED BY <1>4, <3>1, BoundsAssumption DEF Count
  <2>3. /\ g \in FrameType /\ g.call = "create" /\ g.skip = Input
        /\ ~ g.closeError /\ g.threw = t.threw /\ g.i = t.i
        /\ g.at \in {"padNext", "padClose"}
    <3>1. CASE t.pos < Count
      BY <1>3, <2>1, <2>2, <3>1 DEF FrameType
    <3>2. CASE ~ (t.pos < Count)
      BY <1>3, <2>1, <3>2 DEF FrameType, CloseSites
    <3> QED BY <3>1, <3>2
  <2>4. GoesOn(g, iter)
    BY <1>3, <1>7, <2>1
  <2>5. Remembers
    BY <1>7 DEF Stays, Remembers
  <2>6. Undef => Undef'
    BY <2>5 DEF Undef, Met, Remembers
  <2>7. \/ Undef'
        \/ /\ ~ g.threw
           /\ \A j \in 1 .. index' : iter[j] = "open"
           /\ iter[Padding] = "open" /\ iter[Input] # "open" /\ g.i = Padding
    BY <1>1, <1>5, <2>3, <2>6
  <2>8. /\ index' \in 0 .. MaxItems /\ held' \subseteq 1 .. index'
        /\ \A s \in Items : iter[s] = "open" => s \in held'
        /\ kind # "zipKeyed"
    BY <1>1, <1>2, <1>4, <1>7
  <2> QED BY <1>1, <1>2, <1>7, <2>3, <2>4, <2>5, <2>7, <2>8, MakingGoes DEF Collecting
<1>8. CASE /\ outcome = "done"
           /\ MakesHelper(Top, [iter EXCEPT ![Padding] = "ended"])
           /\ Stays /\ UNCHANGED held
  <2>1. PICK it : it = [iter EXCEPT ![Padding] = "ended"]
    OBVIOUS
  <2>2. Remembers
    BY <1>8 DEF Stays, Remembers
  <2>3. MakesHelper(t, it)
    BY <1>3, <1>8, <2>1
  <2> QED BY <1>1, <1>2, <1>6, <1>8, <2>1, <2>2, <2>3, HelperMade
<1>9. CASE /\ outcome = "throw" /\ UNCHANGED done
           /\ ClosesList([Raised(Top, "error") EXCEPT !.then = "throw"], held,
                         [iter EXCEPT ![Padding] = "failed"])
  <2>1. PICK it : it = [iter EXCEPT ![Padding] = "failed"]
    OBVIOUS
  <2>2. PICK f : f = [Raised(t, "error") EXCEPT !.then = "throw"]
    OBVIOUS
  <2>3. /\ f \in FrameType /\ f.call = "create" /\ f.skip = Input /\ ~ f.closeError
        /\ f.then = "throw" /\ f.error = "error"
    BY <1>3, <2>2 DEF Raised, FrameType, Then, Thrown
  <2>4. ClosesList(f, held, it)
    BY <1>3, <1>9, <2>1, <2>2
  <2> QED BY <1>1, <1>2, <1>6, <1>9, <2>1, <2>3, <2>4, MakingStops
<1>10. CASE /\ outcome = "throwUndefined"
            /\ GoesOn([Raised(Top, "undefined") EXCEPT !.at = "padClose"],
                      [iter EXCEPT ![Padding] = "failed"])
            /\ Departs("undefinedThrown")
            /\ UNCHANGED <<executing, phase, done, held>>
  <2>1. PICK it : it = [iter EXCEPT ![Padding] = "failed"]
    OBVIOUS
  <2>2. PICK g : g = [Raised(t, "undefined") EXCEPT !.at = "padClose"]
    OBVIOUS
  <2>3. /\ g \in FrameType /\ g.call = "create" /\ g.at = "padClose" /\ g.skip = Input
        /\ ~ g.closeError
    BY <1>3, <2>2 DEF Raised, FrameType, CloseSites, Thrown
  <2>4. GoesOn(g, it)
    BY <1>3, <1>10, <2>1, <2>2
  <2>5. Remembers /\ Undef'
    BY <1>10 DEF Departs, Remembers, Undef, Met
  <2>6. /\ index' \in 0 .. MaxItems /\ held' \subseteq 1 .. index' /\ kind # "zipKeyed"
    BY <1>1, <1>2, <1>4, <1>10
  <2>7. it \in IterType /\ \A s \in Items : it[s] = "open" => s \in held'
    BY <1>6, <1>10, <2>1
  <2> QED BY <1>1, <1>2, <1>10, <2>3, <2>4, <2>5, <2>6, <2>7, MakingGoes DEF Collecting
<1> QED BY <1>7, <1>8, <1>9, <1>10 DEF NextPadding

\* ClosePadding: return() of the padding of zip.
LEMMA ClosePaddingStep ==
    ASSUME IInv, NEW outcome, ClosePadding(outcome) PROVE IInv'
<1>1. AtSite("padClose") /\ UNCHANGED <<kind, mode, ended, hasYielded, ofHelpers, index>>
  BY DEF ClosePadding
<1>2. /\ kind \in Zips /\ frames # <<>> /\ ZipAlways /\ Flags
      /\ iter \in IterType /\ phase = "over" /\ ~ done /\ ended = {}
  BY <1>1, MakingWaits DEF Collecting
<1>3. PICK t \in FrameType : /\ t = Top /\ t.at = "padClose" /\ t.call = "create"
                             /\ t.skip = Input /\ ~ t.closeError /\ MakingItems(t)
  BY <1>1, MakingWaits DEF Collecting
<1>4. /\ held \subseteq 1 .. index
      /\ \A s \in Items : iter[s] = "open" => s \in held
  BY <1>2 DEF Flags, ZipAlways
<1>5. \/ Undef
      \/ /\ ~ t.threw /\ t.i = Padding
         /\ \A j \in 1 .. index : iter[j] = "open"
         /\ iter[Padding] # "open" /\ iter[Input] # "open"
  BY <1>3 DEF MakingItems
<1>6. CASE MakesHelper(Top, iter) /\ Stays /\ UNCHANGED held
  <2>1. Remembers
    BY <1>6 DEF Stays, Remembers
  <2> QED BY <1>1, <1>2, <1>3, <1>4, <1>5, <1>6, <2>1, HelperMade
<1>7. CASE /\ \E value \in {"error", "undefined"} :
                 ClosesList([Raised(Top, value) EXCEPT !.then = "throw"], held, iter)
           /\ UNCHANGED done
  <2>1. PICK value \in {"error", "undefined"} :
                 ClosesList([Raised(Top, value) EXCEPT !.then = "throw"], held, iter)
    BY <1>7
  <2>2. PICK f : f = [Raised(t, value) EXCEPT !.then = "throw"]
    OBVIOUS
  <2>3. /\ f \in FrameType /\ f.call = "create" /\ f.skip = Input /\ ~ f.closeError
        /\ f.then = "throw" /\ f.error = value
    BY <1>3, <2>2 DEF Raised, FrameType, Then, Thrown
  <2>4. ClosesList(f, held, iter)
    BY <1>3, <2>1, <2>2
  <2> QED BY <1>1, <1>2, <1>4, <1>5, <1>7, <2>3, <2>4, MakingStops
<1> QED BY <1>6, <1>7 DEF ClosePadding

-----------------------------------------------------------------------------
(* zip and zipKeyed: a round.                                              *)

\* A round waits for an item that has not ended.
LEMMA RoundWaits ==
    ASSUME IInv, kind \in Zips, kind' = kind, Remembers,
           NEW g \in FrameType, NEW it \in IterType, Waits(g, it),
           g.call = "next", g.at \in {"advance", "strict"}, g.then \in {"none", "throw"},
           phase' = "ready", executing', EndsShut', RoundOpen(g)', Flags', ZipAlways'
    PROVE  IInv'
<1>1. iter' = it
  BY DEF Waits, Shut, CloseSites
<1>2. Rounding(g)'
  BY DEF Rounding
<1>3. ZipBusy(g)'
  BY <1>2 DEF ZipBusy, Listed
<1>4. it[g.i] = "open" \/ Met(AdvanceExcuses)'
  <2>1. Excused' \/ iter'[g.i] = "open"
    BY DEF RoundOpen, Live
  <2> QED BY <1>1, <2>1 DEF Excused, Met, AdvanceExcuses
<1> QED BY <1>3, <1>4, ZipContinues DEF CloseSites

\* What a round that waits relies on.
LEMMA RoundIs ==
    ASSUME IInv, kind \in Zips, NEW site \in {"advance", "strict"}, AtSite(site)
    PROVE  /\ frames # <<>> /\ ZipAlways /\ Flags /\ iter \in IterType
           /\ phase = "ready" /\ executing /\ EndsShut
           /\ \E t \in FrameType : /\ t = Top /\ t.at = site /\ t.call = "next"
                                   /\ t.then \in {"none", "throw"} /\ RoundOpen(t)
<1>1. frames # <<>> /\ ZipAlways /\ Flags /\ iter \in IterType
  BY ZipWaits
<1>2. PICK t \in FrameType : t = Top /\ t.at = site /\ ZipBusy(t)
  BY ZipWaits
<1>3. t.call = "next" /\ t.then \in {"none", "throw"} /\ Rounding(t)
  BY <1>2 DEF ZipBusy, Making, ZipReturning, Collecting
<1>4. phase = "ready" /\ executing /\ EndsShut /\ RoundOpen(t)
  BY <1>2, <1>3 DEF Rounding
<1> QED BY <1>1, <1>2, <1>3, <1>4

\* The iterators when one has ended or failed.
After(i, state) == [iter EXCEPT ![i] = state]

\* An item that a round waited for is not open any more.
LEMMA ItemLeaves ==
    ASSUME IInv, kind \in Zips, Live, ZipAlways, NEW i \in 1 .. index,
           NEW state \in {"ended", "failed"}, NEW it, it = After(i, state)
    PROVE  /\ it \in IterType /\ it[Input] = iter[Input] /\ it[Padding] = iter[Padding]
           /\ \A s \in Items : it[s] = "open" => s \in held /\ s # i
           /\ \A s \in ended \cup {i} : it[s] # "open"
           /\ Excused \/ \A j \in 1 .. index : j \notin ended \cup {i} => it[j] = "open"
           /\ Excused \/ \A j \in held \ {i} : it[j] = "open"
<1>1. Flags /\ iter \in IterType
  BY DEF IInv, TypeInv
<1>2. i \in Items /\ i \in Slots /\ i # Input /\ i # Padding
  BY <1>1, Positions
<1>3. it \in IterType /\ it[i] # "open" /\ \A s \in Slots : s # i => it[s] = iter[s]
  BY <1>1, <1>2 DEF IterType, After
<1>4. it[Input] = iter[Input] /\ it[Padding] = iter[Padding]
  BY <1>2, <1>3, SlotsAre
<1>5. held \subseteq 1 .. index /\ ended \subseteq 1 .. index
  BY <1>1 DEF Flags
<1>6. /\ \A s \in Items : s # i => it[s] = iter[s]
      /\ \A s \in 1 .. index : s # i => it[s] = iter[s]
  BY <1>1, <1>3, Positions
<1>7. \A s \in Items : it[s] = "open" => s \in held /\ s # i
  BY <1>3, <1>6 DEF ZipAlways
<1>8. \A s \in ended \cup {i} : it[s] # "open"
  BY <1>3, <1>5, <1>6 DEF ZipAlways
<1>9. /\ Excused \/ \A j \in 1 .. index : j \notin ended \cup {i} => it[j] = "open"
      /\ Excused \/ \A j \in held \ {i} : it[j] = "open"
  BY <1>5, <1>6 DEF Live
<1> QED BY <1>3, <1>4, <1>7, <1>8, <1>9

\* NextOfZip: a round begins.
LEMMA NextOfZipStep == ASSUME IInv, NextOfZip PROVE IInv'
<1>1. /\ kind \in Zips /\ MayEnterZip /\ phase = "ready" /\ ~ done /\ executing' /\ Stays
      /\ executing' \in BOOLEAN
      /\ Remembers /\ UNCHANGED <<kind, phase, done, ofHelpers, index, ofZips>>
      /\ UNCHANGED <<mode, held, ended, hasYielded>>
  BY DEF NextOfZip, MayEnterZip, Stays, Remembers, ofZips
<1>2. /\ frames = <<>> /\ ZipAlways /\ ZipIdle /\ Flags /\ iter \in IterType
  BY <1>1, NothingZipped
<1>3. Live /\ EndsShut
  BY <1>1, <1>2 DEF ZipIdle
<1>4. PICK d : d = First(ToAdvance(0, ended))
  OBVIOUS
<1>5. d \in 1 .. index /\ d \notin ended
  <2>1. index \in Nat /\ ToAdvance(0, ended) \in SUBSET (1 .. index)
    BY <1>2, Positions DEF ToAdvance, Count
  <2>2. ended \subseteq 1 .. index /\ ended # 1 .. index
    BY <1>2, <1>3 DEF Flags, Live
  <2>3. PICK j \in 1 .. index : j \notin ended
    BY <2>2
  <2>4. j > 0
    BY <2>1
  <2>5. ToAdvance(0, ended) # {}
    BY <2>3, <2>4 DEF ToAdvance, Count
  <2>6. d \in ToAdvance(0, ended)
    BY <1>4, <2>1, <2>5, FirstIs
  <2> QED BY <2>6 DEF ToAdvance, Count
<1>6. d \in Slots
  BY <1>2, <1>5, Positions
<1>7. PICK g : g = Frame("next", "advance", d)
  OBVIOUS
<1>8. /\ g \in FrameType /\ g.call = "next" /\ g.at = "advance" /\ g.i = d /\ g.then = "none"
      /\ ~ g.threw /\ g.skip = Input
  <2>1. 0 \in 0 .. MaxItems
    BY BoundsAssumption
  <2> QED BY <1>6, <1>7, <2>1, AreSlots DEF Frame, FrameType, AdvanceSites, Then
<1>9. Waits(g, iter)
  <2>1. Begins(g, iter)
    BY <1>4, <1>7 DEF NextOfZip
  <2> QED BY <1>2, <1>8, <2>1, BeginsWaits DEF IInv
<1>10. iter' = iter /\ departed' = departed
  BY <1>1, <1>8, <1>9 DEF Waits, Shut, CloseSites, Stays
<1>11. Flags' /\ ZipAlways' /\ EndsShut' /\ Live'
  <2>1. Flags'
    BY <1>1, <1>2 DEF Flags, ofHelpers
  <2>2. ZipAlways'
    BY <1>1, <1>2, <1>10 DEF ZipAlways
  <2>3. EndsShut'
    BY <1>3, <1>10 DEF EndsShut, Undef, Met
  <2>4. Live'
    BY <1>1, <1>3, <1>10 DEF Live, Excused, Met
  <2> QED BY <2>1, <2>2, <2>3, <2>4
<1>12. RoundOpen(g)'
  BY <1>1, <1>5, <1>8, <1>11 DEF RoundOpen
<1> QED BY <1>1, <1>2, <1>8, <1>9, <1>11, <1>12, RoundWaits

\* A round ends, and the helper with it: no item is left.
LEMMA RoundEnds ==
    ASSUME IInv, kind \in Zips, frames # <<>>, phase = "ready", EndsShut, Remembers,
           UNCHANGED <<kind, mode, phase, ofHelpers, index>>,
           NEW f \in FrameType, NEW answer, NEW it \in IterType, Ends(f, answer, it),
           answer = "error" \/ Undef \/ ~ f.threw,
           done' = TRUE, hasYielded' \in BOOLEAN,
           held' \subseteq 1 .. index, ended' \subseteq 1 .. index,
           it[Input] = iter[Input], it[Padding] = iter[Padding],
           \A s \in Items : it[s] # "open"
    PROVE  IInv'
<1>1. /\ frames' = <<>> /\ iter' = it /\ misuse' = misuse /\ executing' = FALSE
      /\ lost' \in BOOLEAN /\ (lost' => lost \/ (f.threw /\ answer # "error"))
  BY HelperStops
<1>2. Flags /\ Flags'
  <2>1. Flags
    BY DEF IInv, TypeInv
  <2> QED BY <1>1, <2>1 DEF Flags, ofHelpers
<1>3. lost' => lost \/ Met(LossExcuses)'
  BY <1>1 DEF Undef, Met, LossExcuses, Remembers
<1>4. ZipAlways'
  BY <1>1, <1>2, Positions DEF ZipAlways
<1>5. NoneOpen' \/ Met({"leaks", "undefinedThrown"})'
  <2>1. \A s \in Slots : s = Input \/ s = Padding \/ s \in Items
    BY BoundsAssumption DEF Slots, Input, Padding, Items
  <2>2. CASE Undef
    BY <2>2 DEF Undef, Met, Remembers
  <2>3. CASE iter[Input] # "open" /\ iter[Padding] # "open"
    BY <1>1, <2>1, <2>3 DEF NoneOpen
  <2> QED BY <2>2, <2>3 DEF EndsShut
<1>6. ZipIdle'
  BY <1>5 DEF ZipIdle
<1> QED BY <1>1, <1>2, <1>3, <1>4, <1>6, ZipEnds

\* A round goes on to the next item that has not ended, or is over.
LEMMA RoundGoesOnKeeps ==
    ASSUME IInv, kind \in Zips, frames # <<>>, phase = "ready", executing, ~ done, EndsShut,
           UNCHANGED <<kind, mode, ofHelpers, index>>,
           NEW t \in FrameType, t = Top, t.call = "next", t.at = "advance", t.skip = Input,
           t.then \in {"none", "throw"}, Undef \/ ~ t.threw,
           NEW i, NEW over, NEW it \in IterType, RoundGoesOn(i, over, it),
           held' \subseteq 1 .. index, over \subseteq 1 .. index,
           it[Input] = iter[Input], it[Padding] = iter[Padding],
           \A s \in Items : it[s] = "open" => s \in held',
           \A s \in over : it[s] # "open",
           mode = "strict" /\ 1 \notin over => over = {},
           over = 1 .. index => mode = "longest",
           Excused \/ \A j \in 1 .. index : j \notin over => it[j] = "open",
           Excused \/ \A j \in held' : it[j] = "open"
    PROVE  IInv'
<1>1. /\ ended' = over /\ phase' = phase /\ Remembers /\ departed' = departed
  BY DEF RoundGoesOn, Stays, Remembers
<1>2. Flags
  BY DEF IInv, TypeInv
<1>3. CASE ToAdvance(i, over) # {}
  <2>1. PICK d : d = First(ToAdvance(i, over))
    OBVIOUS
  <2>2. d \in 1 .. index /\ d \notin over
    <3>1. index \in Nat /\ ToAdvance(i, over) \in SUBSET (1 .. index)
      BY <1>2, Positions DEF ToAdvance, Count
    <3>2. d \in ToAdvance(i, over)
      BY <1>3, <2>1, <3>1, FirstIs
    <3> QED BY <3>2 DEF ToAdvance, Count
  <2>3. PICK g : g = [t EXCEPT !.i = d]
    OBVIOUS
  <2>4. d \in Slots
    BY <1>2, <2>2, Positions
  <2>5. /\ g \in FrameType /\ g.call = "next" /\ g.at = "advance" /\ g.i = d
        /\ g.then = t.then /\ g.threw = t.threw /\ g.skip = Input
    BY <2>3, <2>4 DEF FrameType
  <2>6. GoesOn(g, it) /\ UNCHANGED <<executing, done, hasYielded>>
    BY <1>3, <2>1, <2>3 DEF RoundGoesOn
  <2>7. Waits(g, it)
    BY <2>5, <2>6, HelperGoes
  <2>8. iter' = it
    BY <2>5, <2>7 DEF Waits, Shut, CloseSites
  <2>9. Flags'
    BY <1>1, <1>2, <2>6 DEF Flags, ofHelpers
  <2>10. ZipAlways'
    BY <1>1, <2>8 DEF ZipAlways
  <2>11. EndsShut'
    BY <1>1, <2>8 DEF EndsShut, Undef, Met
  <2>12. Live'
    <3>1. over # 1 .. index
      BY <2>2
    <3> QED BY <1>1, <2>8, <3>1 DEF Live, Excused, Met
  <2>13. RoundOpen(g)'
    BY <1>1, <2>2, <2>5, <2>6, <2>12 DEF RoundOpen, Undef, Met
  <2> QED BY <1>1, <2>5, <2>6, <2>7, <2>9, <2>10, <2>11, <2>13, RoundWaits
<1>4. CASE ToAdvance(i, over) = {}
  <2>1. /\ done' = (mode = "longest" /\ over = 1 .. index)
        /\ hasYielded' = (hasYielded \/ ~ done')
        /\ Ends(t, IF done' THEN "done" ELSE "value", it)
    BY <1>4 DEF RoundGoesOn, Count
  <2>2. hasYielded' \in BOOLEAN /\ done' \in BOOLEAN
    BY <1>2, <2>1 DEF Flags
  <2>3. CASE done' = TRUE
    <3>1. over = 1 .. index
      BY <2>1, <2>3
    <3>2. \A s \in Items : it[s] # "open"
      BY <3>1
    <3>3. Ends(t, "done", it)
      BY <2>1, <2>3
    <3> QED BY <1>1, <2>2, <2>3, <3>2, <3>3, RoundEnds
  <2>4. CASE done' = FALSE
    <3>1. Ends(t, "value", it)
      BY <2>1, <2>4
    <3>2. /\ frames' = <<>> /\ iter' = it /\ misuse' = misuse /\ executing' = FALSE
          /\ lost' \in BOOLEAN /\ (lost' => lost \/ t.threw)
      BY <3>1, HelperStops
    <3>3. over # 1 .. index
      BY <2>1, <2>4
    <3>4. Flags'
      BY <1>1, <1>2, <2>2, <2>4, <3>2 DEF Flags, ofHelpers
    <3>5. ZipAlways'
      BY <1>1, <3>2 DEF ZipAlways
    <3>6. EndsShut'
      BY <1>1, <3>2 DEF EndsShut, Undef, Met
    <3>7. Live'
      BY <1>1, <3>2, <3>3 DEF Live, Excused, Met
    <3>8. ZipIdle'
      BY <1>1, <2>4, <3>6, <3>7 DEF ZipIdle
    <3>9. lost' => lost \/ Met(LossExcuses)'
      BY <1>1, <3>2 DEF Undef, Met, LossExcuses, Remembers
    <3> QED BY <1>1, <3>2, <3>4, <3>5, <3>8, <3>9, ZipEnds
  <2> QED BY <2>2, <2>3, <2>4
<1> QED BY <1>3, <1>4

\* An answer that cannot be read.
LEMMA UnreadableKeeps ==
    ASSUME IInv, kind \in Zips, frames # <<>>, phase = "ready", EndsShut,
           UNCHANGED <<kind, mode, ofHelpers, index>>,
           NEW t \in FrameType, t = Top, RoundOpen(t), Unreadable
    PROVE  IInv'
<1>1. PICK it : it = [iter EXCEPT ![t.i] = "failed"]
  OBVIOUS
<1>2. Live /\ ZipAlways /\ t.i \in 1 .. index /\ ~ done /\ Flags
  BY DEF RoundOpen, IInv, ZipInv, TypeInv
<1>3. /\ it \in IterType /\ it[Input] = iter[Input] /\ it[Padding] = iter[Padding]
      /\ \A s \in Items : it[s] = "open" => s \in held /\ s # t.i
      /\ \A s \in ended \cup {t.i} : it[s] # "open"
  <2>1. PICK i \in 1 .. index : i = t.i
    BY <1>2
  <2>2. PICK state \in {"ended", "failed"} : state = "failed"
    OBVIOUS
  <2>3. it = After(i, state)
    BY <1>1, <2>1, <2>2 DEF After
  <2>4. /\ it \in IterType /\ it[Input] = iter[Input] /\ it[Padding] = iter[Padding]
        /\ \A s \in Items : it[s] = "open" => s \in held /\ s # i
        /\ \A s \in ended \cup {i} : it[s] # "open"
    BY <1>2, <2>3, ItemLeaves
  <2> QED BY <2>1, <2>4
<1>4. PICK f : f = Raised(t, "error")
  OBVIOUS
<1>5. f \in FrameType /\ Ends(f, "error", it)
  BY <1>1, <1>4 DEF Unreadable, Raised, FrameType, Thrown
<1>6. /\ frames' = <<>> /\ iter' = it /\ misuse' = misuse /\ executing' = FALSE
      /\ lost' \in BOOLEAN /\ (lost' => lost)
  BY <1>3, <1>5, HelperStops
<1>7. /\ UNCHANGED <<phase, done, held, ended, hasYielded>> /\ Remembers
      /\ "zipUnfinished" \in departed'
  BY DEF Unreadable, Departs, Remembers
<1>8. Excused'
  BY <1>7 DEF Excused, Met
<1>9. Flags'
  BY <1>2, <1>6, <1>7 DEF Flags, ofHelpers
<1>10. ZipAlways'
  BY <1>3, <1>6, <1>7 DEF ZipAlways
<1>11. EndsShut' /\ Live'
  <2>1. EndsShut'
    BY <1>3, <1>6, <1>7 DEF EndsShut, Undef, Met, Remembers
  <2>2. Live'
    BY <1>2, <1>7, <1>8 DEF Live
  <2> QED BY <2>1, <2>2
<1>12. ZipIdle'
  BY <1>2, <1>7, <1>11 DEF ZipIdle
<1> QED BY <1>3, <1>6, <1>7, <1>9, <1>10, <1>12, ZipEnds

\* A round ends the helper and closes what is held.
LEMMA RoundStops ==
    ASSUME IInv, kind \in Zips, frames # <<>>, phase = "ready", executing, EndsShut,
           UNCHANGED <<kind, mode, ofHelpers, index>>,
           NEW f \in FrameType, NEW list, NEW it \in IterType, Finishes(f, list, it),
           f.call = "next", f.then \in {"none", "throw"}, f.then = "throw" \/ Undef \/ ~ f.threw,
           list \subseteq 1 .. index, ended' \subseteq 1 .. index,
           it[Input] = iter[Input], it[Padding] = iter[Padding],
           \A s \in Items : it[s] = "open" => s \in list,
           \A s \in ended' : it[s] # "open",
           f.skip # Input => it[f.skip] # "open",
           Excused \/ \A j \in list : j # f.skip => it[j] = "open"
    PROVE  IInv'
<1>1. done' = TRUE /\ hasYielded' = hasYielded /\ ClosesList(f, list, it) /\ held' = list
  BY DEF Finishes, ClosesList
<1>2. BothShut(it)
  BY DEF BothShut, EndsShut
<1>3. ListRounding(f, list, it, Padding)
  BY <1>1, <1>2 DEF ListRounding
<1>4. \A s \in Items : ~ (s >= Padding)
  BY BoundsAssumption DEF Items, Padding
<1>5. ListSound(f, list, it, Padding)
  BY <1>1, <1>3, <1>4 DEF ListSound
<1> QED BY <1>1, <1>5, ListStarts

\* AdvanceZipped: an item answers or throws.
LEMMA AdvanceZippedStep ==
    ASSUME IInv, NEW outcome, AdvanceZipped(outcome) PROVE IInv'
<1>1. kind \in Zips /\ AtSite("advance") /\ UNCHANGED <<kind, mode, ofHelpers, index>>
  BY DEF AdvanceZipped
<1>2. /\ frames # <<>> /\ ZipAlways /\ Flags /\ iter \in IterType
      /\ phase = "ready" /\ executing /\ EndsShut
  BY <1>1, RoundIs
<1>3. PICK t \in FrameType : /\ t = Top /\ t.at = "advance" /\ t.call = "next"
                             /\ t.then \in {"none", "throw"} /\ RoundOpen(t)
  BY <1>1, RoundIs
<1>4. PICK i : i = t.i
  OBVIOUS
<1>5. /\ ~ done /\ Live /\ i \in 1 .. index /\ i \notin ended /\ t.skip = Input
      /\ (Undef \/ ~ t.threw)
  BY <1>3, <1>4 DEF RoundOpen
<1>6. /\ held \subseteq 1 .. index /\ ended \subseteq 1 .. index /\ hasYielded \in BOOLEAN
      /\ mode \in {"shortest", "longest", "strict"}
  BY <1>2 DEF Flags
<1>7. i \in Slots /\ i # Input
  BY <1>2, <1>5, Positions
<1>8. ASSUME NEW state \in {"ended", "failed"}, NEW it, it = After(i, state)
      PROVE  /\ it \in IterType /\ it[Input] = iter[Input] /\ it[Padding] = iter[Padding]
             /\ \A s \in Items : it[s] = "open" => s \in held /\ s # i
             /\ \A s \in ended \cup {i} : it[s] # "open"
             /\ Excused \/ \A j \in 1 .. index : j \notin ended \cup {i} => it[j] = "open"
             /\ Excused \/ \A j \in held \ {i} : it[j] = "open"
  BY <1>1, <1>2, <1>5, <1>8, ItemLeaves
<1>9. PICK over : over = After(i, "ended")
  OBVIOUS
<1>10. PICK failed : failed = After(i, "failed")
  OBVIOUS
<1>11. over = [iter EXCEPT ![Top.i] = "ended"] /\ failed = [iter EXCEPT ![Top.i] = "failed"]
  BY <1>3, <1>4, <1>9, <1>10 DEF After
<1>12. PICK now : now = ended \cup {i}
  OBVIOUS
<1>13. PICK rest : rest = held \ {i}
  OBVIOUS
<1>14. /\ rest = HeldAfterEnd(i) /\ rest \subseteq 1 .. index /\ now \subseteq 1 .. index
       /\ \A s \in Items : s \in held /\ s # i => s \in rest
  BY <1>5, <1>6, <1>12, <1>13 DEF HeldAfterEnd
<1>15. /\ over \in IterType /\ over[Input] = iter[Input] /\ over[Padding] = iter[Padding]
       /\ \A s \in Items : over[s] = "open" => s \in rest
       /\ \A s \in now : over[s] # "open"
       /\ Excused \/ \A j \in 1 .. index : j \notin now => over[j] = "open"
       /\ Excused \/ \A j \in rest : over[j] = "open"
       /\ over[i] # "open"
  BY <1>8, <1>9, <1>12, <1>13, <1>14
<1>16. /\ failed \in IterType /\ failed[Input] = iter[Input] /\ failed[Padding] = iter[Padding]
       /\ \A s \in Items : failed[s] = "open" => s \in held
       /\ \A s \in ended : failed[s] # "open"
       /\ Excused \/ \A j \in held : j # i => failed[j] = "open"
       /\ failed[i] # "open"
  BY <1>8, <1>10
<1>17. CASE /\ outcome = "value"
            /\ RoundGoesOn(Top.i, ended, iter)
            /\ UNCHANGED held
  <2>1. RoundGoesOn(i, ended, iter)
    BY <1>3, <1>4, <1>17
  <2>2. held' \subseteq 1 .. index /\ ended # 1 .. index
    BY <1>5, <1>6, <1>17 DEF Live
  <2>3. /\ \A s \in Items : iter[s] = "open" => s \in held'
        /\ \A s \in ended : iter[s] # "open"
    BY <1>2, <1>17 DEF ZipAlways
  <2>4. /\ mode = "strict" /\ 1 \notin ended => ended = {}
        /\ Excused \/ \A j \in 1 .. index : j \notin ended => iter[j] = "open"
        /\ Excused \/ \A j \in held' : iter[j] = "open"
    BY <1>5, <1>17 DEF Live
  <2> QED BY <1>1, <1>2, <1>3, <1>5, <1>6, <2>1, <2>2, <2>3, <2>4, RoundGoesOnKeeps
<1>18. CASE outcome = "unreadable" /\ Unreadable
  BY <1>1, <1>2, <1>3, <1>18, UnreadableKeeps
<1>19. CASE /\ outcome = "throw"
            /\ Finishes([Raised(Top, "error") EXCEPT !.then = "throw", !.skip = Top.i], held,
                        [iter EXCEPT ![Top.i] = "failed"])
            /\ UNCHANGED ended
  <2>1. PICK f : f = [Raised(t, "error") EXCEPT !.then = "throw", !.skip = i]
    OBVIOUS
  <2>2. /\ f \in FrameType /\ f.call = "next" /\ f.then = "throw" /\ f.skip = i
    BY <1>3, <1>7, <2>1 DEF Raised, FrameType, Then, Thrown
  <2>3. Finishes(f, held, failed)
    BY <1>3, <1>4, <1>11, <1>19, <2>1
  <2>4. /\ ended' \subseteq 1 .. index /\ \A s \in ended' : failed[s] # "open"
    BY <1>6, <1>16, <1>19
  <2> QED BY <1>1, <1>2, <1>6, <1>16, <2>2, <2>3, <2>4, RoundStops
<1>20. CASE /\ outcome = "done" /\ mode = "shortest"
            /\ ended' = ended \cup {Top.i}
            /\ Finishes([Top EXCEPT !.skip = Top.i], HeldAfterEnd(Top.i),
                        [iter EXCEPT ![Top.i] = "ended"])
  <2>1. PICK f : f = [t EXCEPT !.skip = i]
    OBVIOUS
  <2>2. /\ f \in FrameType /\ f.call = "next" /\ f.then = t.then /\ f.skip = i
        /\ f.threw = t.threw
    BY <1>3, <1>7, <2>1 DEF FrameType
  <2>3. Finishes(f, rest, over)
    BY <1>3, <1>4, <1>11, <1>14, <1>20, <2>1
  <2>4. /\ ended' \subseteq 1 .. index /\ \A s \in ended' : over[s] # "open"
    BY <1>3, <1>4, <1>12, <1>14, <1>15, <1>20
  <2> QED BY <1>1, <1>2, <1>3, <1>5, <1>14, <1>15, <2>2, <2>3, <2>4, RoundStops
<1>21. CASE /\ outcome = "done" /\ mode = "strict" /\ Top.i # 1
            /\ ended' = ended \cup {Top.i}
            /\ Finishes([Top EXCEPT !.error = "error", !.then = "throw"], HeldAfterEnd(Top.i),
                        [iter EXCEPT ![Top.i] = "ended"])
  <2>1. PICK f : f = [t EXCEPT !.error = "error", !.then = "throw"]
    OBVIOUS
  <2>2. /\ f \in FrameType /\ f.call = "next" /\ f.then = "throw" /\ f.skip = Input
    BY <1>3, <1>5, <2>1 DEF FrameType, Then, Thrown
  <2>3. Finishes(f, rest, over)
    BY <1>3, <1>4, <1>11, <1>14, <1>21, <2>1
  <2>4. /\ ended' \subseteq 1 .. index /\ \A s \in ended' : over[s] # "open"
    BY <1>3, <1>4, <1>12, <1>14, <1>15, <1>21
  <2> QED BY <1>1, <1>2, <1>14, <1>15, <2>2, <2>3, <2>4, RoundStops
<1>22. CASE /\ outcome = "done" /\ mode = "strict" /\ Top.i = 1
            /\ ended' = ended \cup {Top.i}
            /\ held' = HeldAfterEnd(Top.i)
            /\ IF Count = 1 THEN Ends(Top, "done", [iter EXCEPT ![Top.i] = "ended"]) /\ done' = TRUE
               ELSE /\ GoesOn([Top EXCEPT !.at = "strict", !.i = 2],
                              [iter EXCEPT ![Top.i] = "ended"])
                    /\ UNCHANGED <<executing, done>>
            /\ Stays
            /\ UNCHANGED <<phase, hasYielded>>
  <2>1. /\ i = 1 /\ ended' = now /\ held' = rest /\ Remembers /\ departed' = departed
        /\ phase' = phase /\ hasYielded' = hasYielded
    BY <1>3, <1>4, <1>12, <1>14, <1>22 DEF Stays, Remembers
  <2>2. CASE index = 1 /\ Ends(t, "done", over) /\ done' = TRUE
    <3>1. rest = {}
      BY <1>13, <1>14, <2>1, <2>2
    <3>2. \A s \in Items : over[s] # "open"
      BY <1>15, <3>1
    <3> QED BY <1>1, <1>2, <1>3, <1>5, <1>6, <1>14, <1>15, <2>1, <2>2, <3>2, RoundEnds
  <2>3. CASE /\ index # 1 /\ GoesOn([t EXCEPT !.at = "strict", !.i = 2], over)
             /\ UNCHANGED <<executing, done>>
    <3>1. 2 \in 1 .. index /\ now = {1} /\ 2 \notin now /\ now = 1 .. (2 - 1)
      <4>1. ended = {}
        BY <1>5, <1>22, <2>1 DEF Live
      <4>2. index \in 0 .. MaxItems /\ 1 \in 1 .. index
        BY <1>2, <1>5, <2>1 DEF Flags
      <4>3. 2 \in 1 .. index
        BY <2>3, <4>2, BoundsAssumption
      <4>4. 1 .. (2 - 1) = {1}
        OBVIOUS
      <4> QED BY <1>12, <2>1, <4>1, <4>3, <4>4
    <3>2. 2 \in Slots
      BY <1>2, <3>1, Positions
    <3>3. PICK g : g = [t EXCEPT !.at = "strict", !.i = 2]
      OBVIOUS
    <3>4. /\ g \in FrameType /\ g.call = "next" /\ g.at = "strict" /\ g.i = 2
          /\ g.then = t.then /\ g.threw = t.threw /\ g.skip = Input
      BY <1>3, <1>5, <3>2, <3>3 DEF FrameType, AdvanceSites
    <3>5. Waits(g, over)
      BY <1>2, <1>15, <2>3, <3>3, <3>4, HelperGoes
    <3>6. iter' = over
      BY <3>4, <3>5 DEF Waits, Shut, CloseSites
    <3>7. Flags'
      BY <1>1, <1>2, <1>14, <2>1, <2>3 DEF Flags, ofHelpers
    <3>8. ZipAlways'
      BY <1>15, <2>1, <3>6 DEF ZipAlways
    <3>9. EndsShut'
      BY <1>2, <1>15, <2>1, <3>6 DEF EndsShut, Undef, Met
    <3>10. Live'
      <4>1. now # 1 .. index /\ 1 \in now
        BY <3>1
      <4> QED BY <1>1, <1>15, <2>1, <3>6, <4>1 DEF Live, Excused, Met
    <3>11. RoundOpen(g)'
      BY <1>1, <1>5, <1>22, <2>1, <2>3, <3>1, <3>4, <3>10 DEF RoundOpen, Undef, Met
    <3> QED BY <1>1, <1>2, <1>3, <1>15, <2>1, <2>3, <3>4, <3>5, <3>7, <3>8, <3>9, <3>11, RoundWaits
  <2> QED BY <1>3, <1>11, <1>22, <2>2, <2>3 DEF Count
<1>23. CASE /\ outcome = "done" /\ mode = "longest"
            /\ held' = HeldAfterEnd(Top.i)
            /\ RoundGoesOn(Top.i, ended \cup {Top.i}, [iter EXCEPT ![Top.i] = "ended"])
  <2>1. held' = rest /\ RoundGoesOn(i, now, over) /\ mode # "strict"
    BY <1>3, <1>4, <1>11, <1>12, <1>14, <1>23
  <2>2. /\ held' \subseteq 1 .. index
        /\ \A s \in Items : over[s] = "open" => s \in held'
        /\ Excused \/ \A j \in held' : over[j] = "open"
        /\ mode = "strict" /\ 1 \notin now => now = {}
        /\ now = 1 .. index => mode = "longest"
    BY <1>14, <1>15, <1>23, <2>1
  <2>3. /\ now \subseteq 1 .. index /\ over \in IterType
        /\ over[Input] = iter[Input] /\ over[Padding] = iter[Padding]
        /\ \A s \in now : over[s] # "open"
        /\ Excused \/ \A j \in 1 .. index : j \notin now => over[j] = "open"
    BY <1>14, <1>15
  <2> QED BY <1>1, <1>2, <1>3, <1>5, <2>1, <2>2, <2>3, RoundGoesOnKeeps
<1> QED BY <1>17, <1>18, <1>19, <1>20, <1>21, <1>22, <1>23 DEF AdvanceZipped

\* AdvanceStrict: the first item has ended, the others must end.
LEMMA AdvanceStrictStep ==
    ASSUME IInv, NEW outcome, AdvanceStrict(outcome) PROVE IInv'
<1>1. kind \in Zips /\ AtSite("strict") /\ UNCHANGED <<kind, mode, ofHelpers, index>>
  BY ZipSites DEF AdvanceStrict
<1>2. /\ frames # <<>> /\ ZipAlways /\ Flags /\ iter \in IterType
      /\ phase = "ready" /\ executing /\ EndsShut
  BY <1>1, RoundIs
<1>3. PICK t \in FrameType : /\ t = Top /\ t.at = "strict" /\ t.call = "next"
                             /\ t.then \in {"none", "throw"} /\ RoundOpen(t)
  BY <1>1, RoundIs
<1>4. PICK i : i = t.i
  OBVIOUS
<1>5. /\ ~ done /\ Live /\ i \in 1 .. index /\ i \notin ended /\ t.skip = Input
      /\ (Undef \/ ~ t.threw) /\ mode = "strict" /\ ended = 1 .. (i - 1)
  BY <1>3, <1>4 DEF RoundOpen
<1>6. /\ held \subseteq 1 .. index /\ ended \subseteq 1 .. index /\ hasYielded \in BOOLEAN
      /\ index \in Nat
  BY <1>2, Positions DEF Flags
<1>7. i \in Slots /\ i # Input
  BY <1>2, <1>5, Positions
<1>8. ASSUME NEW state \in {"ended", "failed"}, NEW it, it = After(i, state)
      PROVE  /\ it \in IterType /\ it[Input] = iter[Input] /\ it[Padding] = iter[Padding]
             /\ \A s \in Items : it[s] = "open" => s \in held /\ s # i
             /\ \A s \in ended \cup {i} : it[s] # "open"
             /\ Excused \/ \A j \in 1 .. index : j \notin ended \cup {i} => it[j] = "open"
             /\ Excused \/ \A j \in held \ {i} : it[j] = "open"
  BY <1>1, <1>2, <1>5, <1>8, ItemLeaves
<1>9. PICK over : over = After(i, "ended")
  OBVIOUS
<1>10. PICK failed : failed = After(i, "failed")
  OBVIOUS
<1>11. over = [iter EXCEPT ![Top.i] = "ended"] /\ failed = [iter EXCEPT ![Top.i] = "failed"]
  BY <1>3, <1>4, <1>9, <1>10 DEF After
<1>12. CASE /\ outcome = "done"
            /\ ended' = ended \cup {Top.i}
            /\ held' = HeldAfterEnd(Top.i)
            /\ IF Top.i < Count
               THEN /\ GoesOn([Top EXCEPT !.i = Top.i + 1], [iter EXCEPT ![Top.i] = "ended"])
                    /\ UNCHANGED <<executing, done>>
               ELSE Ends(Top, "done", [iter EXCEPT ![Top.i] = "ended"]) /\ done' = TRUE
            /\ Stays
            /\ UNCHANGED <<phase, hasYielded>>
  <2>1. PICK now : now = ended \cup {i}
    OBVIOUS
  <2>2. PICK rest : rest = held \ {i}
    OBVIOUS
  <2>3. /\ ended' = now /\ held' = rest /\ Remembers /\ departed' = departed
        /\ phase' = phase /\ hasYielded' = hasYielded
        /\ rest \subseteq 1 .. index /\ now \subseteq 1 .. index
    BY <1>3, <1>4, <1>5, <1>6, <1>12, <2>1, <2>2 DEF Stays, Remembers, HeldAfterEnd
  <2>4. now = 1 .. i
    <3>1. i \in Nat /\ i >= 1
      BY <1>5, <1>6
    <3>2. (1 .. (i - 1)) \cup {i} = 1 .. i
      BY ONLY <3>1
    <3> QED BY <1>5, <2>1, <3>2
  <2>5. /\ over \in IterType /\ over[Input] = iter[Input] /\ over[Padding] = iter[Padding]
        /\ \A s \in Items : over[s] = "open" => s \in rest
        /\ \A s \in now : over[s] # "open"
        /\ Excused \/ \A j \in 1 .. index : j \notin now => over[j] = "open"
        /\ Excused \/ \A j \in rest : over[j] = "open"
    BY <1>8, <1>9, <2>1, <2>2
  <2>6. CASE i < index /\ GoesOn([t EXCEPT !.i = i + 1], over) /\ UNCHANGED <<executing, done>>
    <3>1. PICK n : n = i + 1
      OBVIOUS
    <3>2. /\ n \in 1 .. index /\ n \notin now /\ 1 \in now /\ n - 1 = i
      <4>1. i \in Nat /\ i >= 1 /\ index \in Nat /\ i < index
        BY <1>5, <1>6, <2>6
      <4>2. n \in 1 .. index /\ n \notin 1 .. i /\ 1 \in 1 .. i /\ n - 1 = i
        BY ONLY <3>1, <4>1
      <4> QED BY <2>4, <4>2
    <3>3. n \in Slots
      BY <1>2, <3>2, Positions
    <3>4. PICK g : g = [t EXCEPT !.i = n]
      OBVIOUS
    <3>5. /\ g \in FrameType /\ g.call = "next" /\ g.at = "strict" /\ g.i = n
          /\ g.then = t.then /\ g.threw = t.threw /\ g.skip = Input
      BY <1>3, <1>5, <3>3, <3>4 DEF FrameType
    <3>6. Waits(g, over)
      <4>1. GoesOn(g, over)
        BY <2>6, <3>1, <3>4
      <4> QED BY <1>2, <2>5, <3>5, <4>1, HelperGoes
    <3>7. iter' = over
      BY <3>5, <3>6 DEF Waits, Shut, CloseSites
    <3>8. Flags'
      BY <1>1, <1>2, <2>3, <2>6 DEF Flags, ofHelpers
    <3>9. ZipAlways'
      BY <2>3, <2>5, <3>7 DEF ZipAlways
    <3>10. EndsShut'
      BY <1>2, <2>3, <2>5, <3>7 DEF EndsShut, Undef, Met
    <3>11. Live'
      <4>1. now # 1 .. index
        BY <3>2
      <4> QED BY <1>1, <2>3, <2>5, <3>2, <3>7, <4>1 DEF Live, Excused, Met
    <3>12. RoundOpen(g)'
      <4>1. ended' = 1 .. (g.i - 1)
        BY <2>3, <2>4, <3>2, <3>5
      <4> QED BY <1>1, <1>5, <2>3, <2>6, <3>2, <3>5, <3>11, <4>1 DEF RoundOpen, Undef, Met
    <3> QED BY <1>1, <1>2, <1>3, <2>3, <2>5, <2>6, <3>5, <3>6, <3>8, <3>9, <3>10, <3>12, RoundWaits
  <2>7. CASE ~ (i < index) /\ Ends(t, "done", over) /\ done' = TRUE
    <3>1. now = 1 .. index
      <4>1. i \in Nat /\ index \in Nat /\ i <= index /\ ~ (i < index)
        BY <1>5, <1>6, <2>7
      <4>2. i = index
        BY ONLY <4>1
      <4> QED BY <2>4, <4>2
    <3>2. \A s \in Items : over[s] # "open"
      BY <2>3, <2>5, <3>1
    <3> QED BY <1>1, <1>2, <1>3, <1>5, <1>6, <2>3, <2>5, <2>7, <3>2, RoundEnds
  <2> QED BY <1>3, <1>4, <1>11, <1>12, <2>6, <2>7 DEF Count
<1>13. CASE /\ outcome = "value"
            /\ Finishes([Top EXCEPT !.error = "error", !.then = "throw"], held, iter)
            /\ UNCHANGED ended
  <2>1. PICK f : f = [t EXCEPT !.error = "error", !.then = "throw"]
    OBVIOUS
  <2>2. /\ f \in FrameType /\ f.call = "next" /\ f.then = "throw" /\ f.skip = Input
    BY <1>3, <1>5, <2>1 DEF FrameType, Then, Thrown
  <2>3. Finishes(f, held, iter)
    BY <1>3, <1>13, <2>1
  <2>4. /\ ended' \subseteq 1 .. index /\ \A s \in ended' : iter[s] # "open"
        /\ \A s \in Items : iter[s] = "open" => s \in held
        /\ Excused \/ \A j \in held : iter[j] = "open"
    BY <1>2, <1>5, <1>6, <1>13 DEF ZipAlways, Live
  <2> QED BY <1>1, <1>2, <1>6, <2>2, <2>3, <2>4, RoundStops
<1>14. CASE /\ outcome = "throw"
            /\ Finishes([Raised(Top, "error") EXCEPT !.then = "throw", !.skip = Top.i], held,
                        [iter EXCEPT ![Top.i] = "failed"])
            /\ UNCHANGED ended
  <2>1. PICK f : f = [Raised(t, "error") EXCEPT !.then = "throw", !.skip = i]
    OBVIOUS
  <2>2. /\ f \in FrameType /\ f.call = "next" /\ f.then = "throw" /\ f.skip = i
    BY <1>3, <1>7, <2>1 DEF Raised, FrameType, Then, Thrown
  <2>3. Finishes(f, held, failed)
    BY <1>3, <1>4, <1>11, <1>14, <2>1
  <2>4. /\ failed \in IterType /\ failed[Input] = iter[Input] /\ failed[Padding] = iter[Padding]
        /\ \A s \in Items : failed[s] = "open" => s \in held
        /\ \A s \in ended : failed[s] # "open"
        /\ Excused \/ \A j \in held : j # i => failed[j] = "open"
        /\ failed[i] # "open"
    BY <1>8, <1>10
  <2>5. /\ ended' \subseteq 1 .. index /\ \A s \in ended' : failed[s] # "open"
    BY <1>6, <1>14, <2>4
  <2> QED BY <1>1, <1>2, <1>6, <2>2, <2>3, <2>4, <2>5, RoundStops
<1>15. CASE outcome = "unreadable" /\ Unreadable
  BY <1>1, <1>2, <1>3, <1>15, UnreadableKeeps
<1> QED BY <1>12, <1>13, <1>14, <1>15 DEF AdvanceStrict

\* ReturnOfZip: return() of the helper.
LEMMA ReturnOfZipStep == ASSUME IInv, ReturnOfZip PROVE IInv'
<1>1. /\ kind \in Zips /\ MayEnterZip /\ phase = "ready" /\ ~ done /\ Stays
      /\ done' = (~ hasYielded \/ held = {}) /\ executing' = (hasYielded /\ held # {})
      /\ Remembers /\ departed' = departed
      /\ UNCHANGED <<kind, phase, ofHelpers, index, ofZips>>
      /\ UNCHANGED <<mode, held, ended, hasYielded>>
  BY DEF ReturnOfZip, MayEnterZip, Stays, Remembers, ofZips
<1>2. /\ frames = <<>> /\ ZipAlways /\ ZipIdle /\ Flags /\ iter \in IterType /\ TypeInv
  BY <1>1, NothingZipped DEF IInv
<1>3. Live /\ EndsShut
  BY <1>1, <1>2 DEF ZipIdle
<1>4. hasYielded \in BOOLEAN /\ held \subseteq 1 .. index
  BY <1>2 DEF Flags
<1>5. Flags'
  BY <1>1, <1>2, <1>4 DEF Flags, ofHelpers
<1>6. CASE held = {} /\ UNCHANGED <<frames, iter, misuse, lost>>
  <2>1. done' = TRUE /\ executing' = FALSE
    BY <1>1, <1>6
  <2>2. ZipAlways'
    BY <1>1, <1>2, <1>6 DEF ZipAlways
  <2>3. NoneOpen' \/ Met({"leaks", "undefinedThrown"})'
    <3>1. \A s \in Slots : s = Input \/ s = Padding \/ s \in Items
      BY BoundsAssumption DEF Slots, Input, Padding, Items
    <3>2. \A s \in Items : iter[s] # "open"
      BY <1>2, <1>6 DEF ZipAlways
    <3>3. CASE Undef
      BY <1>1, <3>3 DEF Undef, Met
    <3>4. CASE iter[Input] # "open" /\ iter[Padding] # "open"
      BY <1>6, <3>1, <3>2, <3>4 DEF NoneOpen
    <3> QED BY <1>3, <3>3, <3>4 DEF EndsShut
  <2>4. ZipIdle'
    BY <1>1, <2>1, <2>3 DEF ZipIdle
  <2>5. lost' \in BOOLEAN /\ (lost' => lost)
    BY <1>2, <1>6 DEF TypeInv
  <2> QED BY <1>1, <1>2, <1>5, <1>6, <2>1, <2>2, <2>4, <2>5, ZipEnds
<1>7. CASE held # {} /\ Begins(Frame("return", "closeList", Last(held)), iter)
  <2>1. PICK d : d = Last(held)
    OBVIOUS
  <2>2. d \in held /\ \A k \in held : k <= d
    <3>1. index \in Nat
      BY <1>2, Positions
    <3> QED BY <1>4, <1>7, <2>1, <3>1, LastIs
  <2>3. d \in Items /\ d \in Slots /\ d # Input /\ d # Padding
    BY <1>2, <1>4, <2>2, Positions
  <2>4. PICK g : g = Frame("return", "closeList", d)
    OBVIOUS
  <2>5. /\ g \in FrameType /\ g.call = "return" /\ g.at = "closeList" /\ g.i = d
        /\ g.then = "none" /\ ~ g.threw /\ g.skip = Input
    <3>1. 0 \in 0 .. MaxItems
      BY BoundsAssumption
    <3> QED BY <2>3, <2>4, <3>1, AreSlots DEF Frame, FrameType, CloseSites, Then
  <2>6. Waits(g, iter)
    <3>1. Begins(g, iter)
      BY <1>7, <2>1, <2>4
    <3> QED BY <1>2, <2>5, <3>1, BeginsWaits
  <2>7. iter' = [iter EXCEPT ![d] = "closed"]
    BY <2>5, <2>6 DEF Waits, Shut, CloseSites
  <2>8. iter'[d] = "closed" /\ \A s \in Slots : s # d => iter'[s] = iter[s]
    BY <1>2, <2>3, <2>7 DEF IterType
  <2>9. iter'[Input] = iter[Input] /\ iter'[Padding] = iter[Padding]
    BY <2>3, <2>8, SlotsAre
  <2>10. \A s \in Slots : iter'[s] = "open" => iter[s] = "open"
    BY <2>8
  <2>11. ZipAlways'
    <3>1. \A s \in Items : iter'[s] = "open" => iter[s] = "open"
      BY <1>2, <2>10, Positions
    <3>2. \A s \in ended : iter'[s] = "open" => iter[s] = "open"
      <4>1. ended \subseteq 1 .. index
        BY <1>2 DEF Flags
      <4> QED BY <1>2, <2>10, <4>1, Positions
    <3> QED BY <1>1, <1>2, <3>1, <3>2 DEF ZipAlways
  <2>12. EndsShut'
    BY <1>1, <1>3, <2>9 DEF EndsShut, Undef, Met
  <2>13. Excused' \/ \A j \in held : j < d => iter'[j] = "open"
    <3>1. ASSUME NEW j \in held, j < d PROVE j # d /\ j \in Slots
      <4>1. j \in Nat /\ d \in Nat
        BY <1>2, <1>4, <2>3, Positions
      <4>2. j # d
        BY ONLY <3>1, <4>1
      <4> QED BY <1>2, <1>4, <4>2, Positions
    <3> QED BY <1>1, <1>3, <2>8, <3>1 DEF Live, Excused, Met
  <2>14. ZipReturning(g)'
    BY <1>1, <1>3, <1>4, <1>7, <2>5, <2>12, <2>13 DEF ZipReturning, Live
  <2>15. Listed(g)'
    <3>1. ASSUME NEW s \in Items, s > d PROVE iter'[s] # "open"
      <4>1. s \in Nat /\ d \in Nat /\ s \in Slots
        BY <1>2, <2>3, Positions
      <4>2. s # d /\ ~ (s <= d)
        BY ONLY <3>1, <4>1
      <4> QED BY <1>2, <2>2, <2>8, <4>1, <4>2 DEF ZipAlways
    <3> QED BY <1>1, <2>2, <2>5, <2>8, <3>1 DEF Listed
  <2>16. ZipBusy(g)'
    BY <2>5, <2>14, <2>15 DEF ZipBusy
  <2>17. iter[g.i] = "open" \/ Met(CloseExcuses)'
    BY <1>1, <1>3, <2>2, <2>5 DEF Live, Excused, Met, CloseExcuses, AdvanceExcuses
  <2> QED BY <1>1, <1>2, <1>5, <2>5, <2>6, <2>11, <2>16, <2>17, ZipContinues DEF AdvanceSites
<1> QED BY <1>6, <1>7 DEF ReturnOfZip

\* CloseListed: return() of an iterator of a list.
LEMMA CloseListedStep ==
    ASSUME IInv, NEW outcome \in {"answer", "throw"}, CloseListed(outcome) PROVE IInv'
<1>1. AtSite("closeList") /\ UNCHANGED <<kind, mode, ended, hasYielded, ofHelpers, index>>
  BY DEF CloseListed
<1>2. kind \in Zips
  BY <1>1, ZipSites
<1>3. frames # <<>> /\ ZipAlways /\ Flags /\ iter \in IterType
  BY <1>1, <1>2, ZipWaits
<1>4. PICK t \in FrameType : t = Top /\ t.at = "closeList" /\ ZipBusy(t)
  BY <1>1, <1>2, ZipWaits
<1>5. PICK i \in Slots : i = t.i
  BY DEF FrameType
<1>6. PICK list : list = held \ {i}
  OBVIOUS
<1>7. PICK f : f = [Threw(t, outcome) EXCEPT
                      !.closeError = @ \/ (outcome = "throw" /\ NoError(t))]
  OBVIOUS
<1>8. /\ f \in FrameType /\ f.call = t.call /\ f.at = t.at /\ f.i = t.i /\ f.then = t.then
      /\ f.error = t.error /\ f.skip = t.skip
      /\ f.threw = (t.threw \/ outcome = "throw")
      /\ f.closeError = (t.closeError \/ (outcome = "throw" /\ NoError(t)))
  BY <1>4, <1>7 DEF Threw, FrameType, NoError
<1>9. /\ held' = list
      /\ \/ /\ Left(list, f, i) # {}
            /\ GoesOn([f EXCEPT !.i = Down(list, f, i)], iter)
            /\ Stays
            /\ UNCHANGED <<executing, phase, done>>
         \/ /\ Left(list, f, i) = {}
            /\ AfterList(f, iter)
            /\ done' = (done \/ (f.call = "return" /\ ~ ListThrows(f)))
  BY <1>4, <1>5, <1>6, <1>7 DEF CloseListed
<1>10. /\ i \in held /\ iter[i] = "closed"
       /\ \A s \in Items : s > i /\ s # t.skip => iter[s] # "open"
       /\ t.skip # Input => iter[t.skip] # "open"
  BY <1>4, <1>5 DEF ZipBusy, Listed
<1>11. f.threw /\ ~ t.threw => ListThrows(f)
  BY <1>8 DEF ListThrows, NoError
<1>12. ListThrows(t) => ListThrows(f)
  BY <1>8 DEF ListThrows, NoError
<1>13. done \in BOOLEAN /\ done' \in BOOLEAN /\ (done => done')
       /\ (f.call # "return" => done' = done)
       /\ done' = (done \/ (f.call = "return" /\ Left(list, f, i) = {} /\ ~ ListThrows(f)))
  <2>1. done \in BOOLEAN
    BY <1>3 DEF Flags
  <2>2. CASE Left(list, f, i) # {} /\ UNCHANGED done
    BY <2>1, <2>2
  <2>3. CASE Left(list, f, i) = {} /\ done' = (done \/ (f.call = "return" /\ ~ ListThrows(f)))
    BY <2>1, <2>3
  <2> QED BY <1>9, <2>2, <2>3
<1>14. \/ f.call = "create" /\ ListMaking(f, list, iter, i)
       \/ f.call = "next" /\ ListRounding(f, list, iter, i)
       \/ f.call = "return" /\ ListReturning(f, list, iter, i)
  <2>1. CASE t.call = "create" /\ Making(t)
    <3>1. MakingFails(t)
      BY <1>4, <2>1 DEF Making
    <3>2. /\ phase = "over" /\ ~ done /\ ended = {} /\ t.skip = Input
          /\ kind = "zipKeyed" /\ t.then = "afterPadding" => index # 0
      BY <2>1 DEF Making
    <3>3. f.closeError => f.error = "undefined"
      BY <1>8, <3>1 DEF MakingFails, NoError
    <3>4. ListMaking(f, list, iter, i)
      BY <1>1, <1>5, <1>6, <1>8, <1>13, <2>1, <3>1, <3>2, <3>3 DEF ListMaking, MakingFails
    <3> QED BY <1>8, <2>1, <3>4
  <2>2. CASE t.call = "next" /\ t.then \in {"none", "throw"} /\ Rounding(t)
    <3>1. phase = "ready" /\ executing /\ EndsShut /\ RoundOver(t)
      BY <1>4, <2>2 DEF Rounding
    <3>2. f.threw => f.then = "throw" \/ ListThrows(f) \/ Undef
      BY <1>8, <1>11, <1>12, <3>1 DEF RoundOver
    <3>3. ListRounding(f, list, iter, i)
      BY <1>5, <1>6, <1>8, <1>13, <2>2, <3>1, <3>2 DEF ListRounding, RoundOver, BothShut, EndsShut
    <3> QED BY <1>8, <2>2, <3>3
  <2>3. CASE t.call = "return" /\ t.then \in {"none", "throw"} /\ ZipReturning(t)
    <3>1. f.threw => ListThrows(f)
      BY <1>8, <1>11, <1>12, <2>3 DEF ZipReturning
    <3>2. ListReturning(f, list, iter, i)
      BY <1>1, <1>5, <1>6, <1>8, <1>13, <2>3, <3>1
      DEF ListReturning, ZipReturning, BothShut, EndsShut
    <3> QED BY <1>8, <2>3, <3>2
  <2> QED BY <1>4, <2>1, <2>2, <2>3 DEF ZipBusy
<1>15. ListSound(f, list, iter, i)
  <2>1. /\ list \subseteq 1 .. index /\ held' = list /\ ended' \subseteq 1 .. index
        /\ \A s \in Items : iter[s] = "open" => s \in list
        /\ \A s \in ended' : iter[s] # "open"
    BY <1>1, <1>3, <1>6, <1>9, <1>10 DEF Flags, ZipAlways
  <2>2. \A s \in Items : s >= i /\ s # f.skip => iter[s] # "open"
    <3>1. ASSUME NEW s \in Items, s >= i, s # f.skip PROVE iter[s] # "open"
      <4>1. s \in Nat /\ i \in Nat
        BY <1>3, <3>1, Positions, SlotsAre, BoundsAssumption
      <4>2. s = i \/ s > i
        BY ONLY <3>1, <4>1
      <4> QED BY <1>8, <1>10, <3>1, <4>2
    <3> QED BY <3>1
  <2> QED BY <1>1, <1>8, <1>10, <1>13, <1>14, <2>1, <2>2 DEF ListSound
<1>16. CASE /\ Left(list, f, i) # {}
            /\ GoesOn([f EXCEPT !.i = Down(list, f, i)], iter)
            /\ Stays
            /\ UNCHANGED <<executing, phase, done>>
  <2>1. PICK d : d = Down(list, f, i)
    OBVIOUS
  <2>2. d \in Slots
    <3>1. index \in Nat /\ Left(list, f, i) \in SUBSET (1 .. index)
      BY <1>3, <1>15, Positions DEF Left, ListSound
    <3>2. d \in Left(list, f, i)
      BY <1>16, <2>1, <3>1, LastIs DEF Down
    <3> QED BY <1>3, <3>1, <3>2, Positions
  <2>3. PICK g : g = [f EXCEPT !.i = d]
    OBVIOUS
  <2>4. /\ g \in FrameType
        /\ g.call = f.call /\ g.at = "closeList" /\ g.i = Down(list, f, i) /\ g.then = f.then
        /\ g.threw = f.threw /\ g.error = f.error /\ g.skip = f.skip
        /\ g.closeError = f.closeError
    BY <1>4, <1>8, <2>1, <2>2, <2>3 DEF FrameType
  <2>5. GoesOn(g, iter)
    BY <1>16, <2>1, <2>3
  <2> QED BY <1>2, <1>3, <1>8, <1>15, <1>16, <2>4, <2>5, ListCloses
<1>17. CASE Left(list, f, i) = {} /\ AfterList(f, iter)
  BY <1>2, <1>3, <1>8, <1>15, <1>17, ListEnds
<1> QED BY <1>9, <1>16, <1>17

\* Every step of zip and zipKeyed keeps the invariant.
LEMMA ZipNextKeeps == ASSUME IInv, ZipNext PROVE IInv'
<1>1. CASE StartZip \/ NextOfZip \/ ReturnOfZip
  BY <1>1, StartZipStep, NextOfZipStep, ReturnOfZipStep
<1>2. CASE \E outcome \in ZipOutcomes :
              InputAnswers(outcome) \/ AdvanceZipped(outcome) \/ AdvanceStrict(outcome)
  BY <1>2, InputAnswersStep, AdvanceZippedStep, AdvanceStrictStep
<1>3. CASE \E outcome \in {"value", "done", "throw"} : ElementAnswers(outcome)
  BY <1>3, ElementAnswersStep
<1>4. CASE \E outcome \in {"value", "throw", "leak"} : OpenPadding(outcome)
  BY <1>4, OpenPaddingStep
<1>5. CASE \E outcome \in {"value", "done", "throw", "throwUndefined"} : NextPadding(outcome)
  BY <1>5, NextPaddingStep
<1>6. CASE \E outcome \in {"answer", "throw"} :
              CloseInput(outcome) \/ ClosePadding(outcome) \/ CloseListed(outcome)
  BY <1>6, CloseInputStep, ClosePaddingStep, CloseListedStep
<1> QED BY <1>1, <1>2, <1>3, <1>4, <1>5, <1>6 DEF ZipNext

-----------------------------------------------------------------------------
(* The theorems.                                                           *)

\* The state from which every program starts.
LEMMA InitSound == ASSUME Init PROVE IInv
<1>1. /\ phase = "new" /\ done = FALSE /\ executing = FALSE /\ frames = <<>> /\ misuse = {}
      /\ lost = FALSE
  BY DEF Init
<1>2. <<>> \in Seq(FrameType) /\ Len(<<>>) = 0
  BY SMT
<1>3. Histories /\ OneCallAtATime
  <2>1. Len(frames) = 0
    BY <1>1, <1>2
  <2>2. OneCallAtATime
    BY <1>1, <2>1, SMT DEF OneCallAtATime
  <2> QED
    BY <1>1, <2>2 DEF Histories, AdvancedWhileOpen, ClosedWhileOpen, ErrorsAreReported
<1>4. 0 \in 0 .. MaxItems /\ 0 \in 0 .. MaxRemaining /\ index = 0 /\ current = 0
      /\ held = {} /\ ended = {} /\ hasYielded = FALSE
  BY BoundsAssumption DEF Init, HelperInit, ZipInit
<1>5. CASE HelperInit /\ mode = "shortest"
  <2>1. kind \in Kinds \ Zips /\ remaining \in 0 .. MaxRemaining
    BY <1>4, <1>5 DEF HelperInit
  <2>2. Flags
    BY <1>1, <1>4, <1>5, <2>1 DEF Flags
  <2>3. iter = [s \in Slots |-> IF s = Source /\ kind # "concat" THEN "open" ELSE "none"]
    BY <1>5 DEF HelperInit
  <2>4. iter \in IterType
    BY <2>3 DEF IterType
  <2>5. \A s \in Slots : iter[s] = "open" <=> s = Source /\ kind # "concat"
    BY <2>3
  <2>6. HelperAlways
    BY <1>4, <2>5, SlotsAre DEF HelperAlways
  <2>7. HelperIdle
    BY <1>1, <1>4, <2>5, AreSlots DEF HelperIdle
  <2> QED BY <1>1, <1>2, <1>3, <2>1, <2>2, <2>4, <2>6, <2>7 DEF IInv, TypeInv, HelperInv
<1>6. CASE ZipInit /\ remaining = 0
  <2>1. kind \in Zips /\ mode \in {"shortest", "longest", "strict"}
    BY <1>6 DEF ZipInit
  <2>2. Flags
    BY <1>1, <1>4, <1>6, <2>1 DEF Flags, Kinds
  <2>3. iter = [s \in Slots |-> IF kind = "zip" /\ s = Input THEN "open" ELSE "none"]
    BY <1>6 DEF ZipInit
  <2>4. iter \in IterType
    BY <2>3 DEF IterType
  <2>5. \A s \in Slots : iter[s] = "open" <=> kind = "zip" /\ s = Input
    BY <2>3
  <2>6. ZipAlways
    BY <1>4, <2>2, <2>5, Positions DEF ZipAlways
  <2>7. Input \in Slots /\ Padding \in Slots /\ Input # Padding
    BY SlotsAre, BoundsAssumption DEF Padding
  <2>8. ZipIdle
    BY <1>1, <1>4, <2>5, <2>7 DEF ZipIdle
  <2> QED BY <1>1, <1>2, <1>3, <2>1, <2>2, <2>4, <2>6, <2>8 DEF IInv, TypeInv, ZipInv
<1> QED BY <1>5, <1>6 DEF Init

\* A step that changes nothing.
LEMMA StutterKeeps == ASSUME IInv, UNCHANGED vars PROVE IInv'
<1>1. /\ UNCHANGED <<kind, phase, done, executing, iter, frames, misuse, lost, departed>>
      /\ UNCHANGED <<remaining, current, index, mode, held, ended, hasYielded>>
  BY DEF vars, common, ofHelpers, ofZips
<1>2. TypeInv'
  BY <1>1 DEF IInv, TypeInv, Flags
<1>3. OneCallAtATime' /\ Histories'
  BY <1>1 DEF IInv, OneCallAtATime, Histories, AdvancedWhileOpen, ClosedWhileOpen,
             ErrorsAreReported, Met
<1>4. kind' \notin Zips => HelperInv'
  BY <1>1
  DEF IInv, HelperInv, HelperAlways, HelperIdle, HelperBusy, Rejecting, Consuming, Nexting,
      NextingConcat, NextingOther, Returning, Good, NoneOpen, Met
<1>5. kind' \in Zips => ZipInv'
  BY <1>1
  DEF IInv, ZipInv, ZipAlways, ZipIdle, ZipBusy, Listed, Making, MakingItems, MakingFails,
      Rounding, RoundOpen, RoundOver, ZipReturning, Live, EndsShut, Excused, Undef, NoneOpen, Met
<1> QED BY <1>2, <1>3, <1>4, <1>5 DEF IInv

\* The invariant of the iterator helpers holds always.
THEOREM Invariance == Spec => []IInv
<1>1. Init => IInv
  BY InitSound
<1>2. IInv /\ [Next]_vars => IInv'
  BY HelperNextKeeps, ZipNextKeeps, StutterKeeps DEF Next
<1> QED BY <1>1, <1>2, PTL DEF Spec

\* Every variable has its type.
THEOREM TypeCorrect == Spec => []TypeInv
<1>1. IInv => TypeInv
  BY DEF IInv
<1> QED BY <1>1, Invariance, PTL

\* No two calls of a helper are in progress, and a helper that is executing has one.
THEOREM OneCallAtATimeCorrect == Spec => []OneCallAtATime
<1>1. IInv => OneCallAtATime
  BY DEF IInv
<1> QED BY <1>1, Invariance, PTL

\* next() is called only on an open iterator, but for the named departures.
THEOREM AdvancedWhileOpenCorrect == Spec => []AdvancedWhileOpen
<1>1. IInv => AdvancedWhileOpen
  BY DEF IInv, Histories
<1> QED BY <1>1, Invariance, PTL

\* return() is called at most once and only on an open iterator, but for the named
\* departures.
THEOREM ClosedWhileOpenCorrect == Spec => []ClosedWhileOpen
<1>1. IInv => ClosedWhileOpen
  BY DEF IInv, Histories
<1> QED BY <1>1, Invariance, PTL

\* A helper that is done, a helper that could not be made and a consumer that has
\* returned leave no iterator open, but for the named departures.
THEOREM NothingLeftOpenCorrect == Spec => []NothingLeftOpen
<1>1. IInv => NothingLeftOpen
  <2> SUFFICES ASSUME IInv, Finished
               PROVE  NoneOpen \/ Met({"innerFailed", "reread", "leaks", "undefinedThrown"})
    BY DEF NothingLeftOpen, NoneOpen
  <2>1. frames = <<>> /\ (done \/ phase = "over")
    BY DEF Finished
  <2>2. CASE kind \notin Zips
    BY <2>1, <2>2 DEF IInv, HelperInv, HelperIdle, Met
  <2>3. CASE kind \in Zips
    BY <2>1, <2>3 DEF IInv, ZipInv, ZipIdle, Met
  <2> QED BY <2>2, <2>3
<1> QED BY <1>1, Invariance, PTL

\* When an iterator of a list is closed, no later one is open.
THEOREM ClosedInReverseCorrect == Spec => []ClosedInReverse
<1>1. IInv => ClosedInReverse
  <2> SUFFICES ASSUME IInv, NEW n \in 1 .. Len(frames), frames[n].at = "closeList",
                      NEW s \in Items, s > frames[n].i, s # frames[n].skip
               PROVE  iter[s] # "open"
    BY DEF ClosedInReverse
  <2>1. frames # <<>> /\ n = 1
    <3>1. frames \in Seq(FrameType) /\ Len(frames) <= 1
      BY DEF IInv, TypeInv, OneCallAtATime
    <3>2. n = 1
      BY <3>1, SMT
    <3>3. frames # <<>>
      BY <3>1, SMT
    <3> QED BY <3>2, <3>3
  <2>2. CASE kind \notin Zips
    <3>1. HelperBusy(frames[1])
      BY <2>1, <2>2 DEF IInv, HelperInv
    <3> QED
      BY <2>1, <3>1
      DEF HelperBusy, Rejecting, Consuming, Nexting, NextingConcat, NextingOther, Returning
  <2>3. CASE kind \in Zips
    <3>1. Listed(frames[1])
      BY <2>1, <2>3 DEF IInv, ZipInv, ZipBusy
    <3> QED BY <2>1, <3>1 DEF Listed
  <2> QED BY <2>2, <2>3
<1> QED BY <1>1, Invariance, PTL

\* What code of the program throws in a call, the call throws, but for the named
\* departures.
THEOREM ErrorsAreReportedCorrect == Spec => []ErrorsAreReported
<1>1. IInv => ErrorsAreReported
  BY DEF IInv, Histories
<1> QED BY <1>1, Invariance, PTL
===============================================================================
