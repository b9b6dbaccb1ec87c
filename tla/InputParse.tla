----------------------------- MODULE InputParse -----------------------------
(***************************************************************************)
(* GRVY_Input_Class and its C and Fortran interfaces: one parser object,   *)
(* its open file and its registry of defaults, one per kind of value.      *)
(*                                                                         *)
(* int, float and double are one kind: the functions are one template and  *)
(* the registries separate.  An element of a text is a value: a number, a  *)
(* word or a truth value; GetPot's conversions are given by AsBool and by  *)
(* which elements are Numbers.                                             *)
(***************************************************************************)
EXTENDS Naturals, Sequences, InputLookup

CONSTANTS
    Keywords,
    Numbers,      \* elements that convert to a number
    Words,        \* those that do not
    Phrase,       \* as a string: a text of several elements
    AsBool,       \* element -> "yes", "no" or Unreadable, as bool
    Yes, No,
    InputFiles,   \* files: [dos: has a carriage return, text: keyword -> elements]
    NoFile,       \* a file that cannot be opened
    MaxLength     \* bound: elements of a vector

Elements == Numbers \cup Words \cup {Yes, No}
Kinds == {"number", "string", "bool"}
ValuesOf(kind) == IF kind = "bool" THEN {Yes, No}
                  ELSE IF kind = "number" THEN Numbers ELSE Words

InputConstants ==
    /\ \A f \in InputFiles, k \in Keywords : f.text[k] \in Seq(Elements)
    /\ {Sentinel, Missing, Unreadable} \cap (Elements \cup {Phrase}) = {}
    /\ AsBool \in [Elements -> {Yes, No, Unreadable}]
    /\ Missing \notin [value : [Kinds \X Keywords -> Elements \cup {Phrase, Missing}],
                       numbers : [Keywords -> Seq(Elements \cup {Missing})]]
    /\ MaxLength \in Nat

VARIABLES
    allocated,    \* C interface: _GRVY_Input has been created
    crashed,      \* undefined behaviour has ended the program
    initialized,  \* as in the class
    contents,     \* what the parser ifile points to holds
    registry,     \* default_ints ... default_strings
    asked,        \* the last request (history)
    answer        \* what the last query gave: <<>> is a failure

object == <<initialized, contents>>
vars == <<allocated, crashed, object, registry, asked, answer>>

Init ==
    /\ allocated = FALSE /\ crashed = FALSE
    /\ initialized = FALSE
    /\ contents = [k \in Keywords |-> <<>>]
    /\ registry = [p \in Kinds \X Keywords |-> Missing]
    /\ asked = <<>> /\ answer = <<>>

(***************************************************************************)
(* Opening and closing                                                     *)
(***************************************************************************)
IsEmpty(f) == \A k \in Keywords : f.text[k] = <<>>

(* A new parser; one without entries is not used (and never deleted). *)
NewParser(f) == contents' = f.text /\ initialized' = ~IsEmpty(f)

(* Open refuses a second file, a file it cannot read and DOS newlines. *)
OpenFile(f) ==
    /\ IF initialized \/ f = NoFile THEN UNCHANGED object
       ELSE IF f.dos THEN UNCHANGED object ELSE NewParser(f)
    /\ UNCHANGED <<crashed, registry, asked, answer>>

Load(f) ==
    /\ IF initialized THEN UNCHANGED object ELSE NewParser(f)
    /\ UNCHANGED <<crashed, registry, asked, answer>>

Close ==
    /\ initialized' = FALSE
    /\ contents' = [k \in Keywords |-> <<>>]
    /\ UNCHANGED <<crashed, registry, asked, answer>>

(***************************************************************************)
(* Queries                                                                 *)
(***************************************************************************)

(* What GetPot makes of a keyword's text as a value of a kind. A number and
   a truth value are taken from the front of the text. *)
Read(kind, text) ==
    CASE text = <<>> -> Missing
      [] text # <<>> /\ kind = "number" -> IF Head(text) \in Numbers THEN Head(text) ELSE Unreadable
      [] text # <<>> /\ kind = "string" -> IF Len(text) = 1 THEN Head(text) ELSE Phrase
      [] text # <<>> /\ kind = "bool"   -> AsBool[Head(text)]

(* The default a caller brings: the sentinel stands for none. *)
Own(def) == IF def = Sentinel THEN Missing ELSE def

(* Read_Var for numbers, strings and (without a default) char *: the answer,
   and the default that stays registered. *)
ReadScalar(kind, k, def) ==
    /\ asked' = <<"value", kind, k, Own(def)>>
    /\ IF initialized
       THEN LET result == ReadVar(Read(kind, contents[k]), registry[<<kind, k>>], def)
            IN  /\ answer' = IF result.ok THEN <<result.value>> ELSE <<>>
                /\ registry' = [registry EXCEPT ![<<kind, k>>] = RegisteredBy(def, @)]
       ELSE answer' = <<>> /\ UNCHANGED registry
    /\ UNCHANGED <<crashed, object>>

(* Read_Var for bool must be given a default and cannot fail. *)
ReadBool(k, def) ==
    /\ asked' = <<"value", "bool", k, def>>
    /\ IF initialized
       THEN /\ answer' = <<Converted(Read("bool", contents[k]), def)>>
            /\ registry' = [registry EXCEPT ![<<"bool", k>>] = def]
       ELSE answer' = <<>> /\ UNCHANGED registry
    /\ UNCHANGED <<crashed, object>>

(* The i-th element as a number; the caller's default if there is none. *)
ElementAt(k, i, def) ==
    Converted(IF i \in DOMAIN contents[k] THEN Read("number", <<contents[k][i]>>) ELSE Missing, def)

(* Read_Var_Vec reads elements until one equals the default. *)
ReadVector(k, nelems, def) ==
    /\ asked' = <<"elements", k, 1, nelems, Own(def)>>
    /\ answer' = IF initialized /\ \A i \in 1 .. nelems : ElementAt(k, i, def) # def
                 THEN [i \in 1 .. nelems |-> ElementAt(k, i, def)] ELSE <<>>
    /\ UNCHANGED <<crashed, object, registry>>

(* Read_Var_iVec: one element. *)
ReadElement(k, i, def) ==
    /\ asked' = <<"elements", k, i, i, Own(def)>>
    /\ answer' = IF initialized /\ ElementAt(k, i, def) # def
                 THEN <<ElementAt(k, i, def)>> ELSE <<>>
    /\ UNCHANGED <<crashed, object, registry>>

(***************************************************************************)
(* The registry, which needs no open file                                  *)
(***************************************************************************)
RegisterVar(kind, k, v) ==
    /\ asked' = <<"register", kind, k, v>>
    /\ registry' = [registry EXCEPT ![<<kind, k>>] = v]
    /\ UNCHANGED <<crashed, object, answer>>

GetVar(kind, k) ==
    /\ asked' = <<"default", kind, k>>
    /\ answer' = IF registry[<<kind, k>>] = Missing THEN <<>> ELSE <<registry[<<kind, k>>]>>
    /\ UNCHANGED <<crashed, object, registry>>

(***************************************************************************)
(* The Fortran wrappers that do more than call the C function. The pointer *)
(* a string is returned in has no value if the call did not set it, and    *)
(* strlen of it may do anything; the storage is taken to be large enough.  *)
(***************************************************************************)
Crash == crashed' = TRUE /\ UNCHANGED <<object, registry, asked, answer>>

FortranReadChar(k) ==
    \/ ReadScalar("string", k, Sentinel)
    \/ ~initialized /\ Crash

FortranGetChar(k) ==
    \/ allocated /\ GetVar("string", k)
    \/ (allocated => registry[<<"string", k>>] = Missing) /\ Crash

FortranGetNumber(k) ==
    \/ allocated /\ GetVar("number", k)
    \/ ~allocated /\ Crash

(* Every C function creates the parser object first; the get functions for
   Fortran do not. *)
verify_C_parser_allocated == allocated' = TRUE

Next ==
    /\ ~crashed
    /\ \/ /\ verify_C_parser_allocated
          /\ \/ \E f \in InputFiles : OpenFile(f) \/ Load(f)
             \/ OpenFile(NoFile) \/ Close
             \/ \E k \in Keywords :
                  \/ FortranReadChar(k)
                  \/ \E kind \in {"number", "string"} :
                        \/ GetVar(kind, k)
                        \/ \E v \in ValuesOf(kind) \cup {Sentinel} : ReadScalar(kind, k, v)
                  \/ \E kind \in Kinds : \E v \in ValuesOf(kind) : RegisterVar(kind, k, v)
                  \/ \E v \in {Yes, No} : ReadBool(k, v)
                  \/ \E n \in 1 .. MaxLength, def \in Numbers \cup {Sentinel} :
                        ReadVector(k, n, def) \/ ReadElement(k, n, def)
       \/ /\ \E k \in Keywords : FortranGetChar(k) \/ FortranGetNumber(k)
          /\ UNCHANGED allocated

Spec == Init /\ [][Next]_vars

(***************************************************************************)
(* Properties                                                              *)
(***************************************************************************)

(* Every variable has its type. *)
TypeOK ==
    /\ allocated \in BOOLEAN /\ crashed \in BOOLEAN /\ initialized \in BOOLEAN
    /\ contents \in [Keywords -> Seq(Elements)]
    /\ registry \in [Kinds \X Keywords -> Elements \cup {Missing}]
    /\ answer \in Seq(Elements \cup {Phrase})

(* What the open file says, for the promise of InputQueries. *)
Known(v) == IF v = Unreadable THEN Missing ELSE v

OpenInput ==
    [value   |-> [p \in Kinds \X Keywords |-> Known(Read(p[1], contents[p[2]]))],
     numbers |-> [k \in Keywords |->
                    [i \in DOMAIN contents[k] |-> Known(Read("number", <<contents[k][i]>>))]]]

Promise == INSTANCE InputQueries WITH
    Values <- Elements, Nothing <- Missing,
    input <- IF initialized THEN OpenInput ELSE Missing, defaults <- registry

(* Comparing the value read with the default passed is enough to answer each
   query from the file, else from the last default registered or passed for
   the keyword, and to fail otherwise, provided no text spells the sentinel
   (350-373, 429-459, 470-483). *)
QueriesAnswered == Promise!Spec

=============================================================================
