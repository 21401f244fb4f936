------------------------------- MODULE Classes -------------------------------
(***************************************************************************)
(* Classes of the handwritten interpreter: build_class_value,              *)
(* call_function_value and the initialization of fields                    *)
(* (src/engine/interpreter/functions_classes.rs), super() and new          *)
(* (statements.rs) and the tables behind private names                     *)
(* (members_private.rs), which are keyed by the address of an object.      *)
(*                                                                         *)
(* Computed keys, initializers, parameters, static blocks and bodies are   *)
(* code of the program, which may define a class, construct or call        *)
(* something, fail, or catch what failed.  `frames` is the Rust stack.     *)
(***************************************************************************)
EXTENDS Naturals, FiniteSets, SequencesExt

CONSTANTS
    Class,     \* the class definitions of a program
    None,      \* undefined
    Parent,    \* the class each one extends
    Name,      \* private names
    Elements,  \* its elements in source order
    Address,   \* addresses of objects
    MaxDepth   \* bound: frames on the Rust stack

\* name is None for public elements; uses are the private names in the code.
Element == [kind : {"method", "getter", "setter", "field", "block"},
            name : Name \cup {None}, static : BOOLEAN, uses : SUBSET Name]

ASSUME ClassesAssumption ==
    /\ IsFiniteSet(Class) /\ IsFiniteSet(Address) /\ Class \cap Address = {}
    /\ None \notin Class \cup Address \cup Name
    /\ Parent \in [Class -> Class \cup {None}]
    /\ Elements \in [Class -> Seq(Element)]
    /\ MaxDepth \in Nat

Object == Class \cup Address

VARIABLES
    progress,  \* of a definition: its next element, 0 before it begins
    complete,  \* classes in class_private_elements and class_instance_fields
    brands,    \* object_private_brands
    slots,     \* object_private_slots, by object and class
    fields,    \* the classes whose public fields an object has
    born,      \* the class that new was called with, None for a free address
    frames,    \* code on the Rust stack, innermost last
    known,     \* objects that code of the program has come to see
    made,      \* history: the instances of constructors that ran to their end
    excused    \* history: objects whose initialization was cut short

tables == <<progress, complete, brands, slots, fields, born>>
histories == <<made, excused>>
vars == <<tables, frames, known, histories>>

(* this is the object passed, bound the variable "this" of the call, left   *)
(* the fields that are being initialized, inited the flag of the            *)
(* ActiveCallFrame.                                                         *)
Frame == [fn : {"constructor", "method", "arrow", "definition"}, class : Class,
          this : Object \cup {None}, bound : Object \cup {None},
          via : {"new", "super", "call"}, at : {"parameters", "body"},
          left : Seq({"private", "public"}), inited : BOOLEAN]

Derived(c) == Parent[c] # None
Has(c, private, static) == \E e \in Range(Elements[c]) :
    e.kind = "field" /\ e.static = static /\ (e.name # None) = private

Live == {c \in Class : progress[c] > 0} \cup known
Top == Last(frames)
SetTop(f) == [frames EXCEPT ![Len(frames)] = f]
InFn(fns) == frames # <<>> /\ Top.fn \in fns /\ Top.left = <<>>

Init ==
    /\ progress = [c \in Class |-> 0]
    /\ complete = {}
    /\ brands = [o \in Object |-> {}]
    /\ slots = [o \in Object |-> [c \in Class |-> "none"]]
    /\ fields = [o \in Object |-> {}]
    /\ born = [o \in Address |-> None]
    /\ frames = <<>> /\ known = {}
    /\ made = {} /\ excused = {}

-----------------------------------------------------------------------------
(* Tables and frames.                                                      *)
Only(o) == {o} \ {None}
BrandObject(targets, c) ==
    brands' = [o \in Object |-> brands[o] \cup IF o \in targets THEN {c} ELSE {}]
SetPrivateSlot(targets, c) ==
    slots' = [o \in Object |-> IF o \in targets THEN [slots[o] EXCEPT ![c] = "set"]
                               ELSE slots[o]]

Excuse(objects) == excused' = excused \cup (objects \cap Address)
Shows(o) == known' = known \cup (Only(o) \cap Address)
Push(f) == Len(frames) < MaxDepth /\ frames' = Append(frames, f)
NewFrame(fn, c, via, this, bound) ==
    [fn |-> fn, class |-> c, this |-> this, bound |-> bound, via |-> via,
     at |-> "parameters", left |-> <<>>, inited |-> FALSE]

\* Mutant: a derived constructor starts with the object it is passed.
InitialThisPassed(c, this) == this

\* "this" of a derived constructor is undefined until super() returns.
InitialThis(c, this) == IF Derived(c) THEN None ELSE this

(* The fields that initialize_instance_fields_for_function finds: the       *)
(* private ones by the brand of the function, which methods and functions   *)
(* inside a class have too, the public ones by the function itself.  It     *)
(* finds nothing until the definition of the class has ended.               *)
FieldsFor(f) ==
    IF f.class \notin complete THEN <<>>
    ELSE (IF Has(f.class, TRUE, FALSE) THEN <<"private">> ELSE <<>>)
         \o (IF f.fn = "constructor" /\ Has(f.class, FALSE, FALSE)
             THEN <<"public">> ELSE <<>>)

\* What it initializes: what super() made "this", or what the function was
\* passed, which for an arrow function is no object.
Target(f) == IF f.fn = "arrow" /\ f.at = "body" THEN {} ELSE Only(f.bound)

Initializing(f) == [f EXCEPT !.left = FieldsFor(f), !.inited = FieldsFor(f) = <<>>]

(* maybe_initialize_current_instance_fields: f becomes the top of stack.   *)
MaybeInitialize(stack, f) ==
    IF f.inited
    THEN /\ frames' = Append(stack, f)
         /\ UNCHANGED brands
    ELSE /\ frames' = Append(stack, Initializing(f))
         /\ BrandObject(Target(f), f.class)

\* Objects that are initialized before the definition of their class ends.
Early(f) == IF f.fn = "constructor" /\ ~f.inited /\ f.class \notin complete
            THEN Target(f) ELSE {}

-----------------------------------------------------------------------------
(* validate_private_class_elements: a private name is declared once, or by  *)
(* a getter and a setter that are both static or both not.                  *)
Clashes(d, e) == \/ d.static # e.static
                 \/ d.kind = e.kind
                 \/ {d.kind, e.kind} # {"getter", "setter"}
DeclaredOnce(elements) == \A i, j \in DOMAIN elements :
    i < j /\ elements[i].name = elements[j].name /\ elements[i].name # None
        => ~Clashes(elements[i], elements[j])
UsesDeclared(elements) == \A e \in Range(elements) :
    e.uses \subseteq {d.name : d \in Range(elements)}

(* build_class_value.  The class is branded as soon as it has a value;      *)
(* code in its elements may use it before the loop over them has ended.     *)
ClassBegins(c) ==
    /\ progress[c] = 0
    /\ DeclaredOnce(Elements[c]) /\ UsesDeclared(Elements[c])
    /\ Derived(c) => progress[Parent[c]] > 0
    /\ progress' = [progress EXCEPT ![c] = 1]
    /\ BrandObject({c}, c)
    /\ Push(NewFrame("definition", c, "call", c, c))
    /\ UNCHANGED <<complete, slots, fields, born, known, histories>>

Define(kinds) ==
    /\ InFn({"definition"})
    /\ LET c == Top.class
       IN  /\ progress[c] \in DOMAIN Elements[c]
           /\ Elements[c][progress[c]].kind \in kinds
           /\ progress' = [progress EXCEPT ![c] = @ + 1]
    /\ UNCHANGED <<complete, brands, slots, fields, born, frames, known, histories>>

\* A public one is a property at once, a private one joins the elements.
DefineMethod == Define({"method"})
DefineAccessor == Define({"getter", "setter"})
\* Those of instances and the private ones are kept, a static one is a
\* property of the class as soon as its initializer has run.
DefineField == Define({"field"})
StaticBlock == Define({"block"})

\* The fields and private elements become known; then the static private
\* fields are initialized.
ClassEnds ==
    /\ InFn({"definition"})
    /\ LET c == Top.class
       IN  /\ c \notin complete
           /\ progress[c] = Len(Elements[c]) + 1
           /\ complete' = complete \cup {c}
           /\ frames' = SetTop([Top EXCEPT !.left =
                            IF Has(c, TRUE, TRUE) THEN <<"private">> ELSE <<>>])
    /\ UNCHANGED <<progress, brands, slots, fields, born, known, histories>>

DefinitionReturns ==
    /\ InFn({"definition"})
    /\ Top.class \in complete
    /\ frames' = Front(frames)
    /\ UNCHANGED <<tables, known, histories>>

-----------------------------------------------------------------------------
(* new: an instance at a free address, then the constructor.               *)
New(c) ==
    /\ progress[c] > 0
    /\ \E o \in Address :
          /\ born[o] = None
          /\ born' = [born EXCEPT ![o] = c]
          /\ Push(NewFrame("constructor", c, "new", o, InitialThis(c, o)))
          /\ Shows(InitialThis(c, o))
    /\ UNCHANGED <<progress, complete, brands, slots, fields, histories>>

(* super() of a derived constructor, or of an arrow function in one, which  *)
(* passes on the undefined it was passed.                                   *)
SuperCall ==
    /\ InFn({"constructor", "arrow"})
    /\ Derived(Top.class)
    /\ LET p == Parent[Top.class]
       IN  /\ Push(NewFrame("constructor", p, "super", Top.this,
                            InitialThis(p, Top.this)))
           /\ Shows(InitialThis(p, Top.this))
    /\ UNCHANGED <<tables, histories>>

(* A method or accessor that the code at hand can reach, on any object:    *)
(* a private one is found through the brand and the elements of its class, *)
(* by code of that class.                                                  *)
Reaches(c, e, o) ==
    e.name # None =>
                 /\ frames # <<>> /\ Top.class = c
                 /\ o # None
                 /\ c \in brands[o] /\ c \in complete
                 /\ e.static <=> o \in Class

Call(c, o) ==
    /\ \E i \in DOMAIN Elements[c] :
          /\ i < progress[c]
          /\ Elements[c][i].kind \in {"method", "getter", "setter"}
          /\ Reaches(c, Elements[c][i], o)
    /\ Push(NewFrame("method", c, "call", o, o))
    /\ UNCHANGED <<tables, known, histories>>

CallArrow ==
    /\ InFn({"constructor"})
    /\ Derived(Top.class)
    /\ Push(NewFrame("arrow", Top.class, "call", None, Top.bound))
    /\ UNCHANGED <<tables, known, histories>>

(* The parameters are bound; all but a derived constructor initialize now. *)
ParametersBound ==
    /\ InFn({"constructor", "method", "arrow"})
    /\ Top.at = "parameters"
    /\ LET f == [Top EXCEPT !.at = "body"]
       IN  IF f.fn = "constructor" /\ Derived(f.class)
           THEN frames' = SetTop(f) /\ UNCHANGED <<brands, excused>>
           ELSE /\ MaybeInitialize(Front(frames), f)
                /\ Excuse(Early(f))
    /\ UNCHANGED <<progress, complete, slots, fields, born, known, made>>

(* The initializer of a field has its value.                               *)
InitializePrivate ==
    /\ frames # <<>> /\ Top.left # <<>> /\ Head(Top.left) = "private"
    /\ SetPrivateSlot(Target(Top), Top.class)
    /\ frames' = SetTop([Top EXCEPT !.left = Tail(@), !.inited = Len(Top.left) = 1])
    /\ UNCHANGED <<progress, complete, brands, fields, born, known, histories>>

\* write_member_value throws when there is no object (see Throws).
InitializePublic ==
    /\ frames # <<>> /\ Top.left # <<>> /\ Head(Top.left) = "public"
    /\ Target(Top) # {}
    /\ fields' = [fields EXCEPT ![Top.bound] = @ \cup {Top.class}]
    /\ frames' = SetTop([Top EXCEPT !.left = Tail(@), !.inited = Len(Top.left) = 1])
    /\ UNCHANGED <<progress, complete, brands, slots, born, known, histories>>

(* this.#f = value, in code of the class.                                  *)
WritePrivate(o) ==
    /\ frames # <<>>
    /\ Top.class \in brands[o] \cap complete
    /\ Has(Top.class, TRUE, o \in Class)
    /\ SetPrivateSlot({o}, Top.class)
    /\ UNCHANGED <<progress, complete, brands, fields, born, frames, known, histories>>

-----------------------------------------------------------------------------
(* A body ends, with an object or another value.  That is its return value  *)
(* or, without a return, the value of its last statement.                   *)
AtEnd == InFn({"constructor", "method", "arrow"}) /\ Top.at = "body"

\* Mutant: a derived constructor need not have called super().
MayReturnAnything(r) == r \in Live \cup {None}

MayReturn(r) == /\ r \in Live \cup {None}
                /\ r = None /\ Top.fn = "constructor" /\ Derived(Top.class)
                      => Top.bound # None

\* new takes the instance it made unless the constructor returns an object.
NewReturns(r) ==
    /\ AtEnd /\ Top.via = "new" /\ MayReturn(r)
    /\ frames' = Front(frames)
    /\ known' = known \cup IF r \in {None, Top.this} THEN {Top.this} ELSE {}
    /\ made' = made \cup IF r = None \/ (r = Top.this /\ Top.bound = r)
                        THEN {Top.this} ELSE {}
    /\ UNCHANGED <<tables, excused>>

SuperReturns(r) ==
    /\ AtEnd /\ Top.via = "super" /\ MayReturn(r)
    /\ LET below == Front(frames)
           this  == IF r = None THEN Top.this ELSE r
           f     == [Last(below) EXCEPT !.bound = this]
       IN  /\ MaybeInitialize(Front(below), f)
           /\ Excuse(Early(f) \cup IF this = Top.bound THEN {} ELSE {this, Top.this})
    /\ UNCHANGED <<progress, complete, slots, fields, born, known, made>>

CallReturns ==
    /\ AtEnd /\ Top.via = "call"
    /\ frames' = Front(frames)
    /\ UNCHANGED <<tables, known, histories>>

(* Code of the top frame throws; the code below may catch it.              *)
Throws ==
    /\ frames # <<>>
    /\ frames' = Front(frames)
    /\ Excuse(IF Top.left # <<>> THEN Target(Top) ELSE {})
    /\ UNCHANGED <<tables, known, made>>

(* The last reference to an object is dropped: its address is free, what   *)
(* the tables hold for that address stays.                                 *)
Drop(o) ==
    /\ born[o] # None
    /\ \A i \in DOMAIN frames : o \notin {frames[i].this, frames[i].bound}
    /\ born' = [born EXCEPT ![o] = None]
    /\ fields' = [fields EXCEPT ![o] = {}]
    /\ slots' = [slots EXCEPT ![o] =
                    [c \in Class |-> IF @[c] = "none" THEN "none" ELSE "stale"]]
    /\ known' = known \ {o}
    /\ made' = made \ {o}
    /\ excused' = excused \ {o}
    /\ UNCHANGED <<progress, complete, brands, frames>>

Next ==
    \/ DefineMethod \/ DefineAccessor \/ DefineField \/ StaticBlock
    \/ ClassEnds \/ DefinitionReturns
    \/ SuperCall \/ CallArrow \/ ParametersBound
    \/ InitializePrivate \/ InitializePublic \/ CallReturns \/ Throws
    \/ \E c \in Class : \/ ClassBegins(c) \/ New(c)
                        \/ \E o \in known \cup {None} : Call(c, o)
    \/ \E r \in Live \cup {None} : NewReturns(r) \/ SuperReturns(r)
    \/ \E o \in known \cup Class : WritePrivate(o)
    \/ \E o \in Address : Drop(o)

Spec == Init /\ [][Next]_vars

-----------------------------------------------------------------------------
Initialized(o, c) == /\ Has(c, TRUE, FALSE) => slots[o][c] = "set"
                     /\ Has(c, FALSE, FALSE) => c \in fields[o]

\* The classes that c extends, and c: the least set closed under Parent.
Chain(c) == {x \in Class : \A S \in SUBSET Class :
                c \in S /\ (\A y \in S : Only(Parent[y]) \subseteq S) => x \in S}

\* An instance that new returns has the brands and fields of its class and
\* of all the classes that one extends, set during its own life.  Excused are
\* instances whose initializer threw, whose super() returned an object that was
\* not its "this", and those made while their class was still being defined.
ConstructedIsInitialized ==
    \A o \in made \ excused : \A c \in Chain(born[o]) :
        c \in brands[o] /\ Initialized(o, c)

\* The code of a derived constructor sees an object as "this" only when the
\* constructors above have given it their fields, also when super() is
\* called in a parameter, again, in an arrow function, or after a failed one.
ThisIsReady ==
    \A i \in DOMAIN frames : LET f == frames[i] IN
        f.fn = "constructor" /\ Derived(f.class) /\ f.bound \in Address \ excused
        => \A c \in Chain(Parent[f.class]) : Initialized(f.bound, c)
=============================================================================
