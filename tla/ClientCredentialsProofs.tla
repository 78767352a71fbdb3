---------------------- MODULE ClientCredentialsProofs ----------------------
(***************************************************************************)
(* The credential store implements WriteOnce, for any number of clients,   *)
(* processes and goroutines, and of identities of the server.              *)
(***************************************************************************)
EXTENDS ClientCredentials, TLAPS

Steps == {"idle", "load", "check", "use", "download", "saveLoad", "link", "sync"}

\* What is stored, used and given are identities.
TypeOK ==
  /\ step \in [Clients -> Steps]
  /\ mine \in [Clients -> Identities \union {None}]
  /\ token \in [Clients -> Identities \union {None}]
  /\ current \in Identities
  /\ directory \in {"absent", "made", "kept"}
  /\ file \in Identities \union {None}
  /\ synced \in BOOLEAN

\* Whoever may write has something to write.
WritersHave ==
  \A c \in Clients :
    step[c] \in {"download", "saveLoad", "link", "sync"} => mine[c] \in Identities

\* Between reading or linking the file and the answer nobody replaces it.
ReadersAgree ==
  \A c \in Clients :
    step[c] \in {"check", "use", "sync"} => file # None /\ mine[c] = file

\* Who runs has the directory, and nothing is stored without it.
InDirectory ==
  directory = "absent" => file = None /\ \A c \in Clients : step[c] = "idle"

\* What was reported is stored, and what was promised is on disk.
ReportsStored ==
  /\ \A v \in reported : v = file /\ file # None
  /\ promised \subseteq reported
  /\ promised # {} => synced /\ directory = "kept"

IInv == TypeOK /\ WritersHave /\ ReadersAgree /\ InDirectory /\ ReportsStored

\* Nobody runs, and nothing is stored.
LEMMA InitIInv == Init => IInv
<1> SUFFICES ASSUME Init
             PROVE  IInv
  OBVIOUS
<1>1. 1 \in Identities
  BY ClientCredentialsAssumption DEF Identities
<1>2. QED
  BY <1>1 DEF Init, IInv, TypeOK, Steps, WritersHave, ReadersAgree, InDirectory, ReportsStored

\* The steps of one client; only Linked changes the file, and only from None,
\* when no other client has read or linked it.
LEMMA ClientIInv ==
  ASSUME IInv, NEW c \in Clients, Start(c) \/ Client(c) \/ Fail(c)
  PROVE  IInv'
<1> USE DEF IInv, TypeOK, WritersHave, ReadersAgree, InDirectory, ReportsStored, Steps, locals, disk, history
<1>1. CASE Start(c)
  <2>1. 1 .. current \subseteq Identities
    BY ClientCredentialsAssumption DEF Identities
  <2>2. PICK t \in {None} \union 1 .. current : token' = [token EXCEPT ![c] = t]
    BY <1>1 DEF Start
  <2>3. token' \in [Clients -> Identities \union {None}]
    BY <2>1, <2>2
  <2>4. QED
    BY <1>1, <2>3 DEF Start, EnsureDirectory
<1>2. CASE Load(c)
  BY <1>2 DEF Load
<1>3. CASE Check(c)
  BY <1>3 DEF Check, Goto
<1>4. CASE Use(c)
  BY <1>4 DEF Use, End
<1>5. CASE Download(c)
  BY <1>5 DEF Download, Goto
<1>6. CASE SaveLoad(c)
  BY <1>6, ClientCredentialsAssumption DEF SaveLoad, Saved, Goto, End, Identities
<1>7. CASE Link(c)
  <2>1. CASE Linked(c)
    <3>1. mine[c] \in Identities /\ mine[c] # None
      BY <1>7, ClientCredentialsAssumption DEF Link, Identities
    <3>2. /\ file = None /\ file' = mine[c] /\ synced' = FALSE
          /\ step' = [step EXCEPT ![c] = "sync"]
          /\ UNCHANGED <<mine, token, current, directory, reported, promised>>
      BY <1>7, <2>1 DEF Link, Linked, Goto
    <3>3. \A d \in Clients : step[d] \notin {"check", "use", "sync"}
      BY <3>2
    <3>4. TypeOK'
      BY <3>1, <3>2
    <3>5. WritersHave'
      BY <3>1, <3>2
    <3>6. ReadersAgree'
      BY <3>1, <3>2, <3>3
    <3>7. InDirectory'
      BY <1>7, <3>2 DEF Link
    <3>8. ReportsStored'
      BY <3>2
    <3>9. QED
      BY <3>4, <3>5, <3>6, <3>7, <3>8
  <2>2. CASE file # None /\ Goto(c, "saveLoad") /\ UNCHANGED disk
    BY <1>7, <2>2 DEF Link, Goto
  <2>3. QED
    BY <1>7, <2>1, <2>2 DEF Link
<1>8. CASE Sync(c)
  BY <1>8 DEF Sync, Saved, End
<1>9. CASE Refuse(c)
  BY <1>9 DEF Refuse, End
<1>10. CASE Fail(c)
  BY <1>10 DEF Fail, End
<1>11. QED
  BY <1>1, <1>2, <1>3, <1>4, <1>5, <1>6, <1>7, <1>8, <1>9, <1>10 DEF Client

\* Every step preserves the invariant; the user and a loss of power meet no
\* client that is in the middle of something.
LEMMA StepIInv == IInv /\ [Next]_vars => IInv'
<1> SUFFICES ASSUME IInv, [Next]_vars
             PROVE  IInv'
  OBVIOUS
<1> USE DEF IInv, TypeOK, WritersHave, ReadersAgree, InDirectory, ReportsStored, Steps, locals, disk, history
<1>1. CASE \E c \in Clients : Start(c) \/ Client(c) \/ Fail(c)
  BY <1>1, ClientIInv
<1>2. CASE Rekey
  BY <1>2, ClientCredentialsAssumption DEF Rekey, Identities
<1>3. CASE Remove
  BY <1>3 DEF Remove
<1>4. CASE PowerLoss
  BY <1>4 DEF PowerLoss
<1>5. CASE UNCHANGED vars
  BY <1>5 DEF vars
<1>6. QED
  BY <1>1, <1>2, <1>3, <1>4, <1>5 DEF Next

\* The invariant holds always.
LEMMA Inductive == Spec => []IInv
BY InitIInv, StepIInv, PTL DEF Spec

\* A step of one client writes the register, answers, or shows nothing.
LEMMA ClientImplements ==
  ASSUME IInv, NEW c \in Clients, Start(c) \/ Client(c) \/ Fail(c)
  PROVE  [Register!Next]_(Register!vars)
<1> USE DEF IInv, TypeOK, Register!vars, locals, disk, history
<1>1. CASE Use(c)
  <2>1. file # None /\ mine[c] = file
    BY <1>1 DEF Use, ReadersAgree
  <2>2. Register!Answer
    BY <1>1, <2>1 DEF Use, Register!Answer
  <2>3. QED
    BY <2>2 DEF Register!Next
<1>2. CASE SaveLoad(c)
  <2>1. CASE file = mine[c]
    <3>1. file # None
      BY <1>2, <2>1, ClientCredentialsAssumption DEF SaveLoad, WritersHave, Identities
    <3>2. Register!Answer
      BY <1>2, <2>1, <3>1 DEF SaveLoad, Saved, Register!Answer
    <3>3. QED
      BY <3>2 DEF Register!Next
  <2>2. CASE file # mine[c]
    BY <1>2, <2>2 DEF SaveLoad
  <2>3. QED
    BY <2>1, <2>2
<1>3. CASE Link(c)
  <2>1. CASE Linked(c)
    <3>1. mine[c] \in Identities \ {None}
      BY <1>3, ClientCredentialsAssumption DEF Link, WritersHave, Identities
    <3>2. Register!Set(mine[c])
      BY <1>3, <2>1 DEF Link, Linked, Register!Set
    <3>3. QED
      BY <3>1, <3>2 DEF Register!Next
  <2>2. CASE UNCHANGED disk
    BY <1>3, <2>2 DEF Link
  <2>3. QED
    BY <1>3, <2>1, <2>2 DEF Link
<1>4. CASE Sync(c)
  <2>1. file # None /\ mine[c] = file
    BY <1>4 DEF Sync, ReadersAgree
  <2>2. Register!Answer
    BY <1>4, <2>1 DEF Sync, Saved, Register!Answer
  <2>3. QED
    BY <2>2 DEF Register!Next
<1>5. CASE Start(c) \/ Load(c) \/ Check(c) \/ Download(c) \/ Refuse(c) \/ Fail(c)
  BY <1>5 DEF Start, Load, Check, Download, Refuse, Fail
<1>6. QED
  BY <1>1, <1>2, <1>3, <1>4, <1>5 DEF Client

\* Every step is one of the register, or shows nothing.
LEMMA StepImplements == IInv /\ [Next]_vars => [Register!Next]_(Register!vars)
<1> SUFFICES ASSUME IInv, [Next]_vars
             PROVE  [Register!Next]_(Register!vars)
  OBVIOUS
<1> USE DEF Register!vars, locals, disk, history
<1>1. CASE \E c \in Clients : Start(c) \/ Client(c) \/ Fail(c)
  BY <1>1, ClientImplements
<1>2. CASE Rekey
  BY <1>2 DEF Rekey
<1>3. CASE Remove
  <2>1. Register!Forget
    BY <1>3 DEF Remove, Register!Forget
  <2>2. QED
    BY <2>1 DEF Register!Next
<1>4. CASE PowerLoss
  <2>1. promised # {} => file' = file
    BY <1>4 DEF PowerLoss, IInv, ReportsStored
  <2>2. Register!Lose
    BY <1>4, <2>1 DEF PowerLoss, Register!Lose
  <2>3. QED
    BY <2>2 DEF Register!Next
<1>5. CASE UNCHANGED vars
  BY <1>5 DEF vars
<1>6. QED
  BY <1>1, <1>2, <1>3, <1>4, <1>5 DEF Next

\* Whichever clients overlap, fail or lose power, all that load or save
\* credentials of a server have the same, and those reported as saved when
\* they were on disk stay (client_store.go:43-104): the store is a register
\* that is written once.
THEOREM StoreImplements == Spec => TrustKept
<1>1. Init => Register!Init
  BY DEF Init, Register!Init
<1>2. QED
  BY <1>1, Inductive, StepImplements, PTL DEF Spec, TrustKept, Register!Spec

\* What the register's callers have is what it holds: so it is initially, and
\* no step of the register changes that, since an empty one has answered and
\* promised nothing.
LEMMA RegisterInductive ==
  Register!Spec => [](Register!TypeOK /\ Register!Agreement)
<1> USE DEF Register!TypeOK, Register!Agreement
<1>1. Register!Init => Register!TypeOK /\ Register!Agreement
  BY DEF Register!Init
<1>2. ASSUME Register!TypeOK, Register!Agreement, [Register!Next]_(Register!vars)
      PROVE  Register!TypeOK' /\ Register!Agreement'
  <2>1. ASSUME NEW v \in Identities \ {None}, Register!Set(v)
        PROVE  Register!TypeOK' /\ Register!Agreement'
    <3>1. answered \union promised = {}
      BY <1>2, <2>1 DEF Register!Set
    <3>2. QED
      BY <1>2, <2>1, <3>1 DEF Register!Set
  <2>2. CASE Register!Answer
    BY <1>2, <2>2 DEF Register!Answer
  <2>3. CASE Register!Promise
    BY <1>2, <2>3 DEF Register!Promise
  <2>4. CASE Register!Lose
    BY <1>2, <2>4 DEF Register!Lose
  <2>5. CASE Register!Forget
    BY <1>2, <2>5 DEF Register!Forget
  <2>6. CASE UNCHANGED Register!vars
    BY <1>2, <2>6 DEF Register!vars
  <2>7. QED
    BY <1>2, <2>1, <2>2, <2>3, <2>4, <2>5, <2>6 DEF Register!Next
<1>3. QED
  BY <1>1, <1>2, PTL DEF Register!Spec

\* All clients that were answered since power was lost, or said that
\* credentials are saved, have the ones in the file (client_store.go:43-104).
THEOREM HoldersAgree == Spec => [](\A v \in answered \union reported : v = file)
<1>1. IInv /\ Register!Agreement => \A v \in answered \union reported : v = file
  BY DEF IInv, ReportsStored, Register!Agreement
<1>2. QED
  BY <1>1, Inductive, StoreImplements, RegisterInductive, PTL DEF TrustKept

\* What was reported stays so, until the file is lost or removed.
LEMMA ReportedStays ==
  ASSUME Next
  PROVE  /\ reported \subseteq reported' \/ Remove \/ (PowerLoss /\ file' = None)
         /\ promised \subseteq promised' \/ Remove
BY DEF Next, Client, Start, Load, Check, Use, Download, SaveLoad, Link, Linked, Sync, Refuse,
       Fail, Saved, Goto, End, Rekey, PowerLoss, history, disk

\* Credentials reported as saved are never replaced, and never lost but by the
\* user's removal of the file or by a loss of power that takes a directory
\* made since the last one, or a file that another client has linked and not
\* yet synced (client_store.go:29-38, 84-100).
THEOREM SavedLasts ==
  Spec => [][\A v \in reported :
                \/ file' = v
                \/ Remove
                \/ PowerLoss /\ file' = None /\ (directory = "made" \/ ~ synced)]_vars
<1> DEFINE Lasts == \A v \in reported :
                      \/ file' = v
                      \/ Remove
                      \/ PowerLoss /\ file' = None /\ (directory = "made" \/ ~ synced)
<1>1. IInv /\ IInv' /\ [Next]_vars => [Lasts]_vars
  <2> SUFFICES ASSUME IInv, IInv', Next, NEW v \in reported, ~ Remove
               PROVE  \/ file' = v
                      \/ PowerLoss /\ file' = None /\ (directory = "made" \/ ~ synced)
    OBVIOUS
  <2>1. CASE v \in reported'
    BY <2>1 DEF IInv, ReportsStored
  <2>2. CASE PowerLoss /\ file' = None
    BY <2>2 DEF PowerLoss, IInv, ReportsStored
  <2>3. QED
    BY <2>1, <2>2, ReportedStays
<1>2. QED
  BY <1>1, Inductive, PTL DEF Spec

\* Credentials that were on disk when they were reported as saved are there
\* until the user removes them (client_store.go:84-100).
THEOREM PromisedLasts == Spec => [][\A v \in promised : file' = v \/ Remove]_vars
<1>1. IInv' /\ [Next]_vars => [\A v \in promised : file' = v \/ Remove]_vars
  BY ReportedStays DEF IInv, ReportsStored
<1>2. QED
  BY <1>1, Inductive, PTL DEF Spec
=============================================================================
