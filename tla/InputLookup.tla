---------------------------- MODULE InputLookup ----------------------------
(***************************************************************************)
(* What one scalar query of GRVY_Input_Class returns: the text found in    *)
(* the open file, the default the caller passes, and the default that is   *)
(* registered for the keyword.  The operators are pure; InputParse keeps   *)
(* the state around them and OcoreSession queries its options with them.   *)
(***************************************************************************)

CONSTANTS
    Missing,      \* the keyword is not in the file; no default registered
    Unreadable,   \* the keyword is there, its text does not convert
    Sentinel      \* Int_Def, Float_Def, Double_Def, String_Def

ASSUME MarkersDiffer == Missing # Unreadable /\ Missing # Sentinel /\ Unreadable # Sentinel

(* GetPot's lookup: the default stands in for what it cannot convert. *)
Converted(text, def) == IF text \in {Missing, Unreadable} THEN def ELSE text

(* Defect: the first default stays. *)
RegisteredByFirst(def, registered) ==
    IF def = Sentinel \/ registered # Missing THEN registered ELSE def

(* Read_Var registers a default that is not the sentinel ... *)
RegisteredBy(def, registered) == IF def = Sentinel THEN registered ELSE def

(* ... and takes a value equal to the default for a missing keyword.  On
   failure the caller's variable has been overwritten all the same. *)
ReadVar(text, registered, def) ==
    LET default == RegisteredBy(def, registered)
        value   == Converted(text, def)
    IN  IF value # def THEN [ok |-> TRUE, value |-> value]
        ELSE IF default # Missing THEN [ok |-> TRUE, value |-> default]
        ELSE [ok |-> FALSE, value |-> value]

=============================================================================
