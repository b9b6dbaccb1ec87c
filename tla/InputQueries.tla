---------------------------- MODULE InputQueries ----------------------------
(***************************************************************************)
(* What GRVY_Input_Class promises its callers (grvy.h.in: "the registered  *)
(* default value will be returned instead"): a query answers with what the *)
(* open input says of the keyword, else with the last default anybody gave *)
(* for it, else it fails.  Nothing is answered while no input is open.     *)
(***************************************************************************)
EXTENDS Naturals, Sequences

CONSTANTS Keywords, Kinds, Values, Nothing, MaxLength

(* An input has a value of each kind, or Nothing, for each keyword, and a
   sequence of numbers. An answer is a sequence, and <<>> is a failure.
   asked is the last request: what it was, and with which arguments. *)
VARIABLES input, defaults, asked, answer

Init == /\ input = Nothing
        /\ defaults = [p \in Kinds \X Keywords |-> Nothing]
        /\ asked = <<>> /\ answer = <<>>

Found(v) == IF v = Nothing THEN <<>> ELSE <<v>>

(* Opening succeeds only when nothing is open. *)
OpenInput == input = Nothing /\ UNCHANGED <<defaults, asked, answer>>

CloseInput == input' = Nothing /\ UNCHANGED <<defaults, asked, answer>>

Register(kind, k, v) ==
    /\ asked' = <<"register", kind, k, v>>
    /\ defaults' = [defaults EXCEPT ![<<kind, k>>] = v]
    /\ UNCHANGED <<input, answer>>

AskDefault(kind, k) ==
    /\ asked' = <<"default", kind, k>>
    /\ answer' = Found(defaults[<<kind, k>>])
    /\ UNCHANGED <<input, defaults>>

Refuse == input = Nothing /\ answer' = <<>> /\ UNCHANGED <<input, defaults>>

(* A query may bring its own default, which is remembered. *)
Answer(kind, k, own) ==
    LET default == IF own = Nothing THEN defaults[<<kind, k>>] ELSE own
    IN  /\ input # Nothing
        /\ defaults' = [defaults EXCEPT ![<<kind, k>>] = default]
        /\ answer' = IF input.value[<<kind, k>>] # Nothing
                     THEN Found(input.value[<<kind, k>>]) ELSE Found(default)
        /\ UNCHANGED input

Query(kind, k, own) ==
    /\ asked' = <<"value", kind, k, own>>
    /\ Refuse \/ Answer(kind, k, own)

(* A query for elements needs them all, and may fail over one that equals the
   default it brings; registered defaults do not stand in. *)
AnswerElements(k, first, last, own) ==
    LET Element(i) == IF i \in DOMAIN input.numbers[k] THEN input.numbers[k][i] ELSE Nothing
        good == \A i \in first .. last : Element(i) # Nothing
    IN  /\ input # Nothing
        /\ \/ good /\ answer' = [i \in 1 .. last - first + 1 |-> Element(first + i - 1)]
           \/ /\ good => \E i \in first .. last : Element(i) = own
              /\ answer' = <<>>
        /\ UNCHANGED <<input, defaults>>

QueryElements(k, first, last, own) ==
    /\ asked' = <<"elements", k, first, last, own>>
    /\ Refuse \/ AnswerElements(k, first, last, own)

Next ==
    \/ OpenInput \/ CloseInput
    \/ \E k \in Keywords, kind \in Kinds :
        \/ AskDefault(kind, k)
        \/ \E v \in Values : Register(kind, k, v)
        \/ \E own \in Values \cup {Nothing} : Query(kind, k, own)
    \/ \E k \in Keywords, first, last \in 1 .. MaxLength, own \in Values \cup {Nothing} :
          QueryElements(k, first, last, own)

Spec == Init /\ [][Next]_<<input, defaults, asked, answer>>

=============================================================================
