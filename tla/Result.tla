------------------------------- MODULE Result -------------------------------
(***************************************************************************)
(* core/result.h and core/result.cc.  A Result is one word: a code, or a   *)
(* pointer to a counted ExtendedRep that carries the code and a message.   *)
(* A ResultOr is a variant of a Result and a value.  The count is a plain  *)
(* int, so all objects here belong to one thread.                          *)
(***************************************************************************)
EXTENDS Naturals, FiniteSets

CONSTANTS
    Results,    \* Result objects
    ResultOrs,  \* ResultOr objects
    Reps,       \* addresses of ExtendedRep allocations, natural numbers
    Codes,      \* error codes
    kOk

ASSUME ResultAssumption ==
    /\ Results \cap ResultOrs = {} /\ kOk \notin Codes
    /\ IsFiniteSet(Results \cup ResultOrs)
    /\ Reps \subseteq Nat /\ IsFiniteSet(Reps)
    /\ Cardinality(Reps) >= Cardinality(Results \cup ResultOrs)

VARIABLES
    rep,    \* the word of every object, and of a ResultOr whether it is a value
    erp     \* every ExtendedRep: its refs and code; refs = 0 is freed memory

resultVars == <<rep, erp>>

Objects == Results \cup ResultOrs

Plain(c) == [kind |-> "code", code |-> c, at |-> 0]
Extended(a) == [kind |-> "erp", code |-> kOk, at |-> a]
Value == [kind |-> "value", code |-> kOk, at |-> 0]

\* States of all words are records [rep, erp].
Heap0 == [rep |-> rep, erp |-> erp]

ErpEngaged(s, x) == s.rep[x].kind = "erp"
Holds(s, x) == s.rep[x].kind = "value"

Code(s, x) == IF ErpEngaged(s, x) THEN s.erp[s.rep[x].at].code ELSE s.rep[x].code

\* DropRef deletes the representation with its last reference.
DropRef(s, x) ==
    IF ErpEngaged(s, x) THEN [s EXCEPT !.erp[s.rep[x].at].refs = @ - 1] ELSE s

AddRef(s, x) ==
    IF ErpEngaged(s, x) THEN [s EXCEPT !.erp[s.rep[x].at].refs = @ + 1] ELSE s

\* A moved-from Result gives up its reference and keeps its code.
Disengage(s, x) ==
    IF ErpEngaged(s, x) THEN [s EXCEPT !.rep[x] = Plain(Code(s, x))] ELSE s

CopyResultSlip(s, x, y) ==
    IF x = y THEN s ELSE [DropRef(s, x) EXCEPT !.rep[x] = s.rep[y]]

\* Copy assignment; the copy constructor is the case where x held nothing.
CopyResult(s, x, y) ==
    IF x = y THEN s
    ELSE AddRef([DropRef(s, x) EXCEPT !.rep[x] = s.rep[y]], x)

MoveResult(s, x, y) ==
    IF x = y THEN s
    ELSE Disengage([DropRef(s, x) EXCEPT !.rep[x] = s.rep[y]], y)

\* Result(code, message): a new representation with one reference.
FreshRep(e) == CHOOSE b \in Reps : /\ e[b].refs = 0
                                   /\ \A o \in Reps : e[o].refs = 0 => b <= o

NewExtended(s, x, c) ==
    LET d == DropRef(s, x)
        a == FreshRep(d.erp)
    IN  [d EXCEPT !.rep[x] = Extended(a), !.erp[a] = [refs |-> 1, code |-> c]]

ResultInit ==
    /\ rep = [x \in Objects |-> IF x \in Results THEN Plain(kOk) ELSE Value]
    /\ erp = [a \in Reps |-> [refs |-> 0, code |-> kOk]]

Become(s) == rep' = s.rep /\ erp' = s.erp

SetCode(x, c) == Become([DropRef(Heap0, x) EXCEPT !.rep[x] = Plain(c)])

\* InvalidArgumentError and its like, and ResultFromErrno on an unknown errno.
SetError(x, c) == Become(NewExtended(Heap0, x, c))

CopyAssignResult(x, y) == Become(CopyResult(Heap0, x, y))
MoveAssignResult(x, y) == Become(MoveResult(Heap0, x, y))
CopyResultOr(x, y) == Become(CopyResult(Heap0, x, y))
MoveResultOr(x, y) == Become(MoveResult(Heap0, x, y))

\* ResultOr(Result): the Result is passed by value, so copied, and the CHECK
\* refuses an OK one.
FromResult(q, r) ==
    /\ Code(Heap0, r) # kOk
    /\ Become(CopyResult(Heap0, q, r))

FromValue(q) == Become([DropRef(Heap0, q) EXCEPT !.rep[q] = Value])

\* std::move(q).result(), as TRY and TRY_ASSIGN extract it on an error.
TakeResult(r, q) ==
    IF Holds(Heap0, q)
    THEN Become([DropRef(Heap0, r) EXCEPT !.rep[r] = Plain(kOk)])
    ELSE Become(MoveResult(Heap0, r, q))

ResultNext ==
    \/ \E x \in Results, c \in Codes \cup {kOk} : SetCode(x, c)
    \/ \E x \in Results, c \in Codes : SetError(x, c)
    \/ \E x, y \in Results : CopyAssignResult(x, y) \/ MoveAssignResult(x, y)
    \/ \E q, p \in ResultOrs : CopyResultOr(q, p) \/ MoveResultOr(q, p)
    \/ \E q \in ResultOrs, r \in Results : FromResult(q, r) \/ TakeResult(r, q)
    \/ \E q \in ResultOrs : FromValue(q)

ResultSpec == ResultInit /\ [][ResultNext]_resultVars

\* The reference count of a representation is the number of objects that point
\* to it, so it is freed with the last one and never before: self-assignment,
\* assignment between two holders of one representation and moves included.
RefsExact ==
    \A a \in Reps :
        erp[a].refs = Cardinality({x \in Objects : rep[x] = Extended(a)})

\* A ResultOr without a value always reports an error code: an error that has
\* been moved out (by TRY, TRY_ASSIGN or a move) does not turn into kOk.
ErrorStaysError ==
    \A q \in ResultOrs : ~Holds(Heap0, q) => Code(Heap0, q) \in Codes

(* The reference counts of extended errors are exact over copies, moves    *)
(* and conversions, and an error stays an error.                           *)
ResultsSound == RefsExact /\ ErrorStaysError
=============================================================================
