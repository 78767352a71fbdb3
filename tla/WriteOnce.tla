----------------------------- MODULE WriteOnce -----------------------------
(***************************************************************************)
(* What the credential files of udpfile promise: a register that is        *)
(* written once.  Many processes may try to write it and may be killed;    *)
(* whoever gets an answer gets the one value, and a value that has been    *)
(* promised (a pairing token that was printed, credentials reported as     *)
(* saved) outlives a loss of power.  Only the owner, by removing the file, *)
(* makes the register forget.                                              *)
(***************************************************************************)
CONSTANTS
  Values,  \* what may be written
  None     \* nothing has been written; no value, even if it is among Values

VARIABLES
  value,     \* the value written, or None
  answered,  \* the values that callers got since the last loss of power
  promised   \* the values that callers were told to rely on

vars == <<value, answered, promised>>

Init ==
  /\ value = None
  /\ answered = {}
  /\ promised = {}

Set(v) ==
  /\ value = None
  /\ value' = v
  /\ UNCHANGED <<answered, promised>>

Answer ==
  /\ value # None
  /\ answered' = answered \union {value}
  /\ promised' \in {promised, promised \union {value}}
  /\ UNCHANGED value

\* A promise alone, made after the answer.
Promise ==
  /\ value # None
  /\ promised' = promised \union {value}
  /\ UNCHANGED <<value, answered>>

\* Power is lost: all callers are gone, and an unpromised value may be.
Lose ==
  /\ value' \in IF promised = {} THEN {value, None} ELSE {value}
  /\ answered' = {}
  /\ UNCHANGED promised

\* The owner removes the file.
Forget ==
  /\ value' = None
  /\ answered' = {}
  /\ promised' = {}

Next == (\E v \in Values \ {None} : Set(v)) \/ Answer \/ Promise \/ Lose \/ Forget

Spec == Init /\ [][Next]_vars

\* Type correctness: the register holds a value or None.
TypeOK ==
  /\ value \in Values \union {None}
  /\ answered \subseteq Values \ {None}
  /\ promised \subseteq Values \ {None}

\* Whoever was answered or promised a value since the register was last
\* empty was given the one it holds.
Agreement == \A v \in answered \union promised : v = value
=============================================================================
