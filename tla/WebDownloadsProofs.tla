------------------------- MODULE WebDownloadsProofs -------------------------
(***************************************************************************)
(* The web helper keeps its slots and its table of transfers in order for  *)
(* any number of requests, tasks, slots and entries.                       *)
(***************************************************************************)
EXTENDS WebDownloads, FiniteSetTheorems, TLAPS

\* The goroutines with a slot.
Holders == {r \in Requests : pc[r] # "idle"}

Slots == slots = Cardinality(Holders) /\ temporary \subseteq Holders

\* What a goroutine's place in serveDownload says about its locals.  One that is
\* about to complete a task has delivered it, and no other has begun it since.
Local(r) ==
    /\ pc[r] = "begin" => Tracked(r)
    /\ finished[r] => pc[r] \in {"clean", "finish", "release"}
    /\ pc[r] = "save" => pairing[r] = "right"
    /\ pc[r] = "complete" /\ Tracked(r) => task[r] \in delivered
    /\ r \in temporary => pc[r] \in {"credentials", "download", "save", "respond",
                                    "complete", "clean"}

Locals == \A r \in Requests : Local(r)

Bounded == Cardinality(Present(transfers)) <= MaxRetained

IInv == TypeOK /\ Slots /\ Locals /\ ActiveIsOwned /\ Bounded /\ CompletedIsDelivered

-----------------------------------------------------------------------------
\* The constants, apart.
LEMMA Constants ==
    /\ IsFiniteSet(Requests) /\ IsFiniteSet(TaskIds) /\ Untracked \notin TaskIds
    /\ MaxConcurrent \in Nat /\ MaxConcurrent >= 1
    /\ MaxRetained \in Nat /\ Retention \in Nat
<1>1. MaxConcurrent \in Nat \ {0}
  BY WebAssumption
<1>2. QED
  BY <1>1, WebAssumption

\* Any set of goroutines or of tasks can be counted.
LEMMA Countable ==
    ASSUME NEW S, S \subseteq Requests \/ S \subseteq TaskIds
    PROVE  IsFiniteSet(S) /\ Cardinality(S) \in Nat
<1>1. IsFiniteSet(S)
  BY FS_Subset, Constants
<1>2. QED
  BY <1>1, FS_CardinalityType

LEMMA PresentCountable ==
    ASSUME NEW entries
    PROVE  IsFiniteSet(Present(entries)) /\ Cardinality(Present(entries)) \in Nat
<1>1. Present(entries) \subseteq TaskIds
  BY DEF Present
<1>2. QED
  BY <1>1, Countable

LEMMA HoldersCountable == IsFiniteSet(Holders) /\ Cardinality(Holders) \in Nat
<1>1. Holders \subseteq Requests
  BY DEF Holders
<1>2. QED
  BY <1>1, Countable

\* Fewer entries are within the bound too.
LEMMA FewerPresent ==
    ASSUME NEW entries, NEW more, Present(entries) \subseteq Present(more)
    PROVE  Cardinality(Present(entries)) <= Cardinality(Present(more))
  BY FS_Subset, PresentCountable

\* A goroutine moves and keeps its slot.
LEMMA HoldersKept ==
    ASSUME TypeOK, Slots, NEW r \in Requests, NEW place, pc[r] # "idle", place # "idle",
           Goto(r, place), slots' = slots, temporary' \subseteq temporary \cup {r}
    PROVE  Slots'
<1>1. Holders' = Holders
  BY DEF Holders, Goto, TypeOK
<1>2. r \in Holders
  BY DEF Holders
<1>3. QED
  BY <1>1, <1>2 DEF Slots

\* An owner holds a slot.
LEMMA OwnersHold ==
    ASSUME NEW r \in Requests, NEW t, Owns(r, t)
    PROVE  r \in Holders /\ pc[r] # "begin"
  BY DEF Owns, Holders

\* What a step of one goroutine leaves alone.
OthersKept(r) ==
    \A s \in Requests \ {r} :
        /\ pc'[s] = pc[s] /\ task'[s] = task[s]
        /\ finished'[s] = finished[s] /\ pairing'[s] = pairing[s]
        /\ s \in temporary' <=> s \in temporary

LEMMA OthersOwn ==
    ASSUME NEW r \in Requests, OthersKept(r), NEW s \in Requests, s # r, NEW t \in TaskIds
    PROVE  Owns(s, t)' <=> Owns(s, t)
  BY DEF OthersKept, Owns

LEMMA OthersLocal ==
    ASSUME NEW r \in Requests, OthersKept(r), Locals,
           NEW s \in Requests, s # r,
           Tracked(s) /\ task[s] \in delivered /\ pc[s] = "complete" => task[s] \in delivered'
    PROVE  Local(s)'
  BY DEF OthersKept, Locals, Local, Tracked

\* A goroutine that goes on without the table: it owns what it owned.
LEMMA AloneIInv ==
    ASSUME IInv, NEW r \in Requests, OthersKept(r), UNCHANGED table,
           delivered \subseteq delivered',
           \A t \in TaskIds : Owns(r, t)' <=> Owns(r, t),
           TypeOK', Slots', Local(r)'
    PROVE  IInv'
<1> USE DEF IInv, table
<1>1. Locals'
  BY OthersLocal DEF Locals
<1>2. \A s \in Requests, t \in TaskIds : Owns(s, t)' <=> Owns(s, t)
  BY OthersOwn
<1>3. ActiveIsOwned'
  BY <1>2 DEF ActiveIsOwned
<1>4. Bounded' /\ CompletedIsDelivered'
  BY DEF Bounded, Present, CompletedIsDelivered
<1>5. QED
  BY <1>1, <1>3, <1>4

\* A goroutine takes a slot, and later releases it: these are the only steps
\* that change who holds one.
LEMMA SlotIInv ==
    ASSUME IInv, NEW r \in Requests,
           ReleaseSlot(r) \/ \E t \in TaskIds \cup {Untracked} : TakeSlot(r, t)
    PROVE  IInv'
<1> USE DEF IInv
<1>1. CASE ReleaseSlot(r)
  <2> USE <1>1 DEF ReleaseSlot, Goto, locals, table
  <2>1. r \in Holders /\ Holders' = Holders \ {r}
    BY DEF Holders, TypeOK
  <2>2. Cardinality(Holders') = Cardinality(Holders) - 1 /\ Cardinality(Holders') \in Nat
    <3>1. Cardinality(Holders \ {r}) = Cardinality(Holders) - 1
      BY <2>1, HoldersCountable, FS_RemoveElement
    <3>2. Holders \ {r} \subseteq Requests
      BY DEF Holders
    <3>3. QED
      BY <2>1, <3>1, <3>2, Countable
  <2>3. slots' = Cardinality(Holders') /\ slots' \in 0 .. MaxConcurrent
    <3>1. slots \in 0 .. MaxConcurrent /\ slots = Cardinality(Holders) /\ slots' = slots - 1
      BY DEF TypeOK, Slots
    <3>2. QED
      BY <2>2, <3>1, Constants
  <2>4. TypeOK'
    BY <2>3 DEF TypeOK
  <2>5. temporary' \subseteq Holders'
    <3>1. r \notin temporary
      BY DEF Locals, Local
    <3>2. QED
      BY <2>1, <3>1 DEF Slots
  <2>6. r \notin temporary
    BY DEF Locals, Local
  <2>7. OthersKept(r) /\ Local(r)' /\ \A t \in TaskIds : Owns(r, t)' <=> Owns(r, t)
    BY <2>6 DEF OthersKept, Local, Owns, TypeOK
  <2>8. QED
    BY <2>3, <2>4, <2>5, <2>7, AloneIInv DEF Slots
<1>2. ASSUME NEW t \in TaskIds \cup {Untracked}, TakeSlot(r, t)
      PROVE  IInv'
  <2> USE <1>2 DEF TakeSlot, Goto, table
  <2>1. r \notin Holders /\ Holders' = Holders \cup {r}
    BY DEF Holders, TypeOK
  <2>2. Cardinality(Holders') = Cardinality(Holders) + 1
    BY <2>1, HoldersCountable, FS_AddElement
  <2>3. slots' = Cardinality(Holders') /\ slots' \in 0 .. MaxConcurrent
    <3>1. slots \in 0 .. MaxConcurrent /\ slots = Cardinality(Holders)
          /\ slots' = slots + 1 /\ slots < MaxConcurrent
      BY DEF TypeOK, Slots
    <3>2. QED
      BY <2>2, <3>1, Constants
  <2>4. TypeOK'
    BY <2>3 DEF TypeOK
  <2>5. Slots'
    BY <2>1, <2>3 DEF Slots
  <2>6. ~ finished[r] /\ r \notin temporary
    BY DEF Locals, Local
  <2>7. OthersKept(r) /\ Local(r)'
    BY <2>6, Constants DEF OthersKept, Local, Tracked, TypeOK
  <2>8. \A u \in TaskIds : Owns(r, u)' <=> Owns(r, u)
    BY Constants DEF Owns, TypeOK
  <2>9. QED
    BY <2>4, <2>5, <2>7, <2>8, AloneIInv
<1>3. QED
  BY <1>1, <1>2

\* The steps of a goroutine with a slot that do not touch the table.
LEMMA LocalIInv ==
    ASSUME IInv, NEW r \in Requests,
           \/ CreateTemp(r) \/ Credentials(r) \/ Download(r)
           \/ SaveCredentials(r) \/ Respond(r) \/ Clean(r)
    PROVE  IInv'
<1> USE DEF IInv, Goto, locals, table
<1>1. /\ UNCHANGED <<slots, transfers, age, task, finished>>
      /\ delivered \subseteq delivered' /\ temporary' \subseteq temporary \cup {r}
      /\ pc[r] # "idle"
      /\ \E place \in {"credentials", "download", "save", "respond", "complete",
                       "clean", "finish"} : Goto(r, place)
  BY DEF CreateTemp, Credentials, Download, SaveCredentials, Respond, Clean
<1>2. OthersKept(r) /\ pairing' \in [Requests -> {"no", "right", "wrong"}]
  BY <1>1 DEF OthersKept, TypeOK,
              CreateTemp, Credentials, Download, SaveCredentials, Respond, Clean
<1>3. Slots'
  BY <1>1, HoldersKept
<1>4. TypeOK'
  <2>1. stored' \in {"none", "right", "wrong"}
    BY DEF TypeOK, Locals, Local,
           CreateTemp, Credentials, Download, SaveCredentials, Respond, Clean
  <2>2. temporary' \subseteq Requests /\ delivered' \subseteq TaskIds
    BY <1>1 DEF TypeOK,
                CreateTemp, Credentials, Download, SaveCredentials, Respond, Clean
  <2>3. pc' \in [Requests -> {"idle", "begin", "create", "credentials", "download",
                             "save", "respond", "complete", "clean", "finish", "release"}]
    BY <1>1 DEF TypeOK
  <2>4. /\ slots' \in 0 .. MaxConcurrent
        /\ transfers' \in [TaskIds -> Statuses]
        /\ age' \in [TaskIds -> 0 .. Retention + 1]
        /\ task' \in [Requests -> TaskIds \cup {Untracked}]
        /\ finished' \in [Requests -> BOOLEAN]
    BY <1>1 DEF TypeOK
  <2> HIDE DEF IInv, Goto, locals, table
  <2>5. QED
    BY <1>2, <2>1, <2>2, <2>3, <2>4 DEF TypeOK
<1>5. Local(r)'
  BY <1>1 DEF Locals, Local, Tracked, TypeOK,
              CreateTemp, Credentials, Download, SaveCredentials, Respond, Clean
<1>6. \A t \in TaskIds : Owns(r, t)' <=> Owns(r, t)
  BY <1>1 DEF Owns, TypeOK,
              CreateTemp, Credentials, Download, SaveCredentials, Respond, Clean
<1>7. QED
  BY <1>1, <1>2, <1>3, <1>4, <1>5, <1>6, AloneIInv

-----------------------------------------------------------------------------
\* Who owns a task is known from the table.
LEMMA OwnedIsActive ==
    ASSUME IInv, NEW r \in Requests, NEW t \in TaskIds, Owns(r, t)
    PROVE  transfers[t] \in Active /\ \A s \in Requests : Owns(s, t) => s = r
  BY DEF IInv, ActiveIsOwned

\* A goroutine reports about its own task: the entry is there, so that nothing
\* is removed and nothing added.
LEMMA StatusIInv ==
    ASSUME IInv, NEW r \in Requests, OthersKept(r),
           NEW t \in TaskIds, Owns(r, t), NEW status \in Active \cup Terminal,
           SetStatus(t, status), UNCHANGED delivered,
           task'[r] = t,
           Owns(r, t)' <=> status \in Active,
           status = "completed" => t \in delivered,
           TypeOK', Slots', Local(r)'
    PROVE  IInv'
<1> USE DEF IInv
<1>1. Locals'
  BY OthersLocal DEF Locals
<1>2. /\ transfers'[t] = status
      /\ \A u \in TaskIds \ {t} : transfers'[u] = transfers[u]
  BY DEF SetStatus, TypeOK
<1>3. transfers[t] \in Active /\ \A s \in Requests : Owns(s, t) => s = r
  BY OwnedIsActive
<1>4. \A s \in Requests \ {r}, u \in TaskIds : Owns(s, u)' <=> Owns(s, u)
  BY OthersOwn
<1>5. \A u \in TaskIds \ {t} : ~ Owns(r, u) /\ ~ Owns(r, u)'
  BY DEF Owns
<1>6. ActiveIsOwned'
  <2> SUFFICES ASSUME NEW u \in TaskIds
               PROVE  /\ transfers'[u] \in Active <=> \E s \in Requests : Owns(s, u)'
                      /\ \A s, q \in Requests : Owns(s, u)' /\ Owns(q, u)' => s = q
    BY DEF ActiveIsOwned
  <2>1. CASE u = t
    <3>1. \A s \in Requests : Owns(s, t)' => s = r
      BY <1>3, <1>4
    <3>2. status \in Active <=> Owns(r, t)'
      OBVIOUS
    <3>3. QED
      BY <1>2, <2>1, <3>1, <3>2
  <2>2. CASE u # t
    <3>1. \A s \in Requests : Owns(s, u)' <=> Owns(s, u)
      BY <1>4, <1>5, <2>2
    <3>2. transfers'[u] = transfers[u]
      BY <1>2, <2>2
    <3>3. QED
      BY <3>1, <3>2 DEF ActiveIsOwned
  <2>3. QED
    BY <2>1, <2>2
<1>7. Bounded'
  <2>1. Present(transfers') = Present(transfers)
    BY <1>2, <1>3 DEF Present, Active, Terminal
  <2>2. QED
    BY <2>1 DEF Bounded
<1>8. CompletedIsDelivered'
  BY <1>2 DEF CompletedIsDelivered
<1>9. QED
  BY <1>1, <1>6, <1>7, <1>8

\* progressObserver, and the two ends of a transfer.
LEMMA TransferIInv ==
    ASSUME IInv, NEW r \in Requests, Progress(r) \/ Complete(r) \/ Finish(r)
    PROVE  IInv'
<1> USE DEF IInv, Goto, locals
<1> DEFINE t == task[r]
<1>0. 0 \in 0 .. Retention + 1 /\ t \in TaskIds \cup {Untracked}
  BY Constants DEF TypeOK
<1>1. OthersKept(r)
  BY DEF Progress, Complete, Finish, OthersKept, TypeOK
<1>2. CASE Progress(r)
  <2>1. t \in TaskIds /\ Owns(r, t) /\ Owns(r, t)'
    BY <1>0, <1>2 DEF Progress, Tracked, Owns, Locals, Local
  <2>2. TypeOK' /\ Slots' /\ Local(r)'
    <3>1. SetStatus(t, "downloading")
      BY <1>2 DEF Progress
    <3>2. TypeOK'
      BY <1>0, <1>2, <3>1 DEF Progress, SetStatus, TypeOK, Statuses, Active
    <3>3. Slots'
      BY <1>2 DEF Progress, Slots, Holders
    <3>4. Local(r)'
      BY <1>2 DEF Progress, Locals, Local, Tracked
    <3>5. QED
      BY <3>2, <3>3, <3>4
  <2>3. QED
    BY <1>1, <1>2, <2>1, <2>2, StatusIInv DEF Progress, Active
<1>3. CASE Complete(r)
  <2>1. Slots'
    BY <1>3, HoldersKept DEF Complete
  <2>2. CASE Tracked(r)
    <3>1. t \in TaskIds /\ Owns(r, t) /\ t \in delivered
      BY <1>0, <1>3, <2>2 DEF Complete, Tracked, Owns, Locals, Local
    <3>2. transfers[t] \in Active
      BY <3>1, OwnedIsActive
    <3>3. SetStatus(t, "completed")
      BY <1>3, <2>2, <3>2 DEF Complete, FinishTransfer, Active
    <3>4. finished' = [finished EXCEPT ![r] = TRUE] /\ pc' = [pc EXCEPT ![r] = "clean"]
          /\ UNCHANGED <<slots, task, pairing, temporary, stored, delivered>>
      BY <1>3, <2>2 DEF Complete
    <3>5. TypeOK'
      BY <1>0, <3>1, <3>3, <3>4 DEF SetStatus, TypeOK, Statuses, Terminal
    <3>6. Local(r)' /\ ~ Owns(r, t)'
      BY <3>4 DEF Local, Owns, TypeOK
    <3>7. "completed" \in Terminal /\ "completed" \notin Active
      BY DEF Terminal, Active
    <3>8. QED
      BY <1>1, <2>1, <3>1, <3>3, <3>4, <3>5, <3>6, <3>7, StatusIInv
  <2>3. CASE ~ Tracked(r)
    <3>1. UNCHANGED <<transfers, age, finished, slots, task, pairing, temporary, stored, delivered>>
          /\ pc' = [pc EXCEPT ![r] = "clean"]
      BY <1>3, <2>3 DEF Complete, table
    <3>2. TypeOK'
      BY <3>1 DEF TypeOK
    <3>3. Local(r)'
      BY <3>1 DEF Locals, Local, TypeOK
    <3>4. \A u \in TaskIds : Owns(r, u)' <=> Owns(r, u)
      BY <1>3, <3>1 DEF Complete, Owns, TypeOK
    <3>5. QED
      BY <1>1, <2>1, <3>1, <3>2, <3>3, <3>4, AloneIInv DEF table
  <2>4. QED
    BY <2>2, <2>3
<1>4. CASE Finish(r)
  <2>1. /\ pc' = [pc EXCEPT ![r] = "release"]
        /\ UNCHANGED <<slots, task, finished, pairing, temporary, stored, delivered>>
    BY <1>4 DEF Finish
  <2>2. Slots'
    BY <1>4, <2>1, HoldersKept DEF Finish
  <2>3. Local(r)'
    BY <1>4, <2>1 DEF Finish, Locals, Local, TypeOK
  <2>4. CASE MustFail(r)
    <3>1. t \in TaskIds /\ Owns(r, t)
      BY <1>0, <1>4, <2>4 DEF Finish, MustFail, Tracked, Owns
    <3>2. transfers[t] \in Active
      BY <3>1, OwnedIsActive
    <3>3. SetStatus(t, "failed")
      BY <1>4, <2>4, <3>2 DEF Finish, FinishTransfer, Active
    <3>4. TypeOK'
      BY <1>0, <2>1, <3>1, <3>3 DEF SetStatus, TypeOK, Statuses, Terminal
    <3>5. ~ Owns(r, t)'
      BY <2>1 DEF Owns, TypeOK
    <3>6. "failed" \in Terminal /\ "failed" \notin Active
      BY DEF Terminal, Active
    <3>7. QED
      BY <1>1, <2>1, <2>2, <2>3, <3>1, <3>3, <3>4, <3>5, <3>6, StatusIInv
  <2>5. CASE ~ MustFail(r)
    <3>1. UNCHANGED table
      BY <1>4, <2>5 DEF Finish
    <3>2. TypeOK'
      BY <2>1, <3>1 DEF TypeOK, table
    <3>3. \A u \in TaskIds : ~ Owns(r, u) /\ ~ Owns(r, u)'
      BY <2>1, <2>5, Constants DEF Owns, MustFail, Tracked, TypeOK
    <3>4. QED
      BY <1>1, <2>1, <2>2, <2>3, <3>1, <3>2, <3>3, AloneIInv
  <2>6. QED
    BY <2>4, <2>5
<1>5. QED
  BY <1>2, <1>3, <1>4

-----------------------------------------------------------------------------
\* Only finished entries expire.
LEMMA UnexpiredKept ==
    ASSUME TypeOK
    PROVE  /\ Unexpired \in [TaskIds -> Statuses]
           /\ \A t \in TaskIds :
                 \/ Unexpired[t] = transfers[t]
                 \/ Unexpired[t] = "absent" /\ transfers[t] \in Terminal
           /\ Present(Unexpired) \subseteq Present(transfers)
<1>1. \A t \in TaskIds : Unexpired[t] = IF Expired(t) THEN "absent" ELSE transfers[t]
  BY DEF Unexpired
<1>2. Unexpired \in [TaskIds -> Statuses]
  BY DEF TypeOK, Unexpired, Statuses
<1>3. \A t \in TaskIds : Expired(t) => transfers[t] \in Terminal
  BY DEF Expired
<1>4. Present(Unexpired) \subseteq Present(transfers)
  BY <1>1 DEF Present
<1>5. QED
  BY <1>1, <1>2, <1>3, <1>4

\* Finished entries leave the table, and nobody owns another task.
LEMMA RemovedIInv ==
    ASSUME IInv,
           \A t \in TaskIds :
               \/ transfers'[t] = transfers[t]
               \/ transfers'[t] = "absent" /\ transfers[t] \in Terminal,
           UNCHANGED delivered,
           \A s \in Requests, t \in TaskIds : Owns(s, t)' <=> Owns(s, t),
           TypeOK', Slots', Locals'
    PROVE  IInv'
<1> USE DEF IInv
<1>1. \A t \in TaskIds : transfers'[t] \in Active <=> transfers[t] \in Active
  BY DEF Active, Terminal
<1>2. ActiveIsOwned'
  BY <1>1 DEF ActiveIsOwned
<1>3. Present(transfers') \subseteq Present(transfers)
  BY DEF Present
<1>4. Bounded'
  <2>1. /\ Cardinality(Present(transfers')) <= Cardinality(Present(transfers))
        /\ Cardinality(Present(transfers')) \in Nat /\ Cardinality(Present(transfers)) \in Nat
    BY <1>3, FewerPresent, PresentCountable
  <2>2. QED
    BY <2>1, Constants DEF Bounded
<1>5. CompletedIsDelivered'
  BY DEF CompletedIsDelivered
<1>6. QED
  BY <1>2, <1>4, <1>5

\* Nobody asks for a slot: a browser polls, time passes.
LEMMA IdleIInv ==
    ASSUME IInv, ServeProgress \/ Tick
    PROVE  IInv'
<1> USE DEF IInv, locals
<1>1. UNCHANGED <<slots, pc, task, finished, pairing, temporary, stored, delivered>>
  BY DEF ServeProgress, Tick
<1>2. \A t \in TaskIds :
         \/ transfers'[t] = transfers[t]
         \/ transfers'[t] = "absent" /\ transfers[t] \in Terminal
  BY UnexpiredKept DEF ServeProgress, Tick
<1>3. TypeOK'
  <2>1. CASE ServeProgress
    BY <2>1, UnexpiredKept DEF ServeProgress, TypeOK
  <2>2. CASE Tick
    <3>1. age' \in [TaskIds -> 0 .. Retention + 1]
      <4> SUFFICES ASSUME NEW t \in TaskIds
                   PROVE  age'[t] \in 0 .. Retention + 1
        BY <2>2 DEF Tick
      <4>1. age[t] \in 0 .. Retention + 1
        BY DEF TypeOK
      <4>2. age'[t] = IF transfers[t] # "absent" /\ age[t] <= Retention
                      THEN age[t] + 1 ELSE age[t]
        BY <2>2 DEF Tick
      <4>3. QED
        BY <4>1, <4>2, Constants
    <3>2. QED
      BY <2>2, <3>1 DEF Tick, TypeOK
  <2>3. QED
    BY <2>1, <2>2
<1>4. Slots' /\ Locals' /\ \A s \in Requests, t \in TaskIds : Owns(s, t)' <=> Owns(s, t)
  BY <1>1 DEF Slots, Holders, Locals, Local, Tracked, Owns
<1>5. QED
  BY <1>1, <1>2, <1>3, <1>4, RemovedIInv

\* A task is entered, in a free place or in that of a finished one.
LEMMA EnterBounded ==
    ASSUME NEW entries \in [TaskIds -> Statuses], NEW t \in TaskIds,
           Cardinality(Present(entries)) < MaxRetained,
           transfers' = [entries EXCEPT ![t] = "starting"]
    PROVE  Bounded'
<1>1. Present(transfers') \subseteq Present(entries) \cup {t}
  BY DEF Present
<1>2. /\ IsFiniteSet(Present(entries) \cup {t})
      /\ Cardinality(Present(entries) \cup {t}) <= Cardinality(Present(entries)) + 1
      /\ Cardinality(Present(entries)) \in Nat
  <2>1. IsFiniteSet(Present(entries)) /\ Cardinality(Present(entries)) \in Nat
    BY PresentCountable
  <2>2. /\ IsFiniteSet(Present(entries) \cup {t})
        /\ Cardinality(Present(entries) \cup {t}) =
              IF t \in Present(entries) THEN Cardinality(Present(entries))
              ELSE Cardinality(Present(entries)) + 1
    BY <2>1, FS_AddElement
  <2>3. QED
    BY <2>1, <2>2
<1>3. Cardinality(Present(transfers')) <= Cardinality(Present(entries) \cup {t})
  BY <1>1, <1>2, FS_Subset
<1>4. Cardinality(Present(transfers')) \in Nat /\ Cardinality(Present(entries) \cup {t}) \in Nat
  BY <1>2, FS_CardinalityType, PresentCountable
<1>5. QED
  BY <1>2, <1>3, <1>4, Constants DEF Bounded

\* beginTransfer: nobody works on a task that is not in the table, so that the
\* goroutine that enters it is its only owner.
LEMMA BeginIInv ==
    ASSUME IInv, NEW r \in Requests, BeginTransfer(r)
    PROVE  IInv'
<1> USE DEF IInv, Goto, locals
<1> DEFINE t == task[r]
<1>1. t \in TaskIds /\ pc[r] = "begin" /\ ~ finished[r] /\ r \notin temporary
  BY DEF BeginTransfer, Locals, Local, Tracked, TypeOK
<1>2. UNCHANGED <<slots, task, finished, pairing, temporary, stored>>
  BY DEF BeginTransfer
<1>3. CASE transfers' = Unexpired /\ Refuse(r) /\ UNCHANGED <<age, delivered>>
  <2>1. pc' = [pc EXCEPT ![r] = "release"]
    BY <1>3 DEF Refuse
  <2>2. TypeOK'
    BY <1>2, <1>3, <2>1, UnexpiredKept DEF TypeOK
  <2>3. Slots'
    BY <1>1, <1>2, <2>1, HoldersKept
  <2>4. OthersKept(r)
    BY <1>2, <2>1 DEF OthersKept, TypeOK
  <2>5. Locals'
    <3>1. Local(r)'
      BY <1>1, <1>2, <2>1 DEF Local, TypeOK
    <3>2. QED
      BY <1>3, <2>4, <3>1, OthersLocal DEF Locals
  <2>6. \A s \in Requests, u \in TaskIds : Owns(s, u)' <=> Owns(s, u)
    <3>1. \A u \in TaskIds : ~ Owns(r, u) /\ ~ Owns(r, u)'
      BY <1>1, <2>1 DEF Owns, TypeOK
    <3>2. QED
      BY <2>4, <3>1, OthersOwn
  <2>7. QED
    BY <1>3, <2>2, <2>3, <2>5, <2>6, UnexpiredKept, RemovedIInv
<1>4. ASSUME NEW entries \in [TaskIds -> Statuses],
             Unexpired[t] = "absent",
             \A u \in TaskIds : \/ entries[u] = Unexpired[u]
                                \/ entries[u] = "absent" /\ Unexpired[u] \in Terminal,
             Cardinality(Present(entries)) < MaxRetained,
             transfers' = [entries EXCEPT ![t] = "starting"],
             age' = [age EXCEPT ![t] = 0],
             delivered' = delivered \ {t},
             pc' = [pc EXCEPT ![r] = "create"]
      PROVE  IInv'
  <2>1. 0 \in 0 .. Retention + 1
    BY Constants
  <2>2. TypeOK'
    BY <1>1, <1>2, <1>4, <2>1 DEF TypeOK, Statuses, Active
  <2>3. Slots'
    BY <1>1, <1>2, <1>4, HoldersKept
  <2>4. OthersKept(r)
    BY <1>2, <1>4 DEF OthersKept, TypeOK
  <2>5. transfers[t] \notin Active
    BY <1>1, <1>4, UnexpiredKept DEF Active, Terminal
  <2>6. \A s \in Requests : ~ Owns(s, t)
    BY <1>1, <2>5 DEF ActiveIsOwned
  <2>7. Locals'
    <3>1. Local(r)'
      BY <1>1, <1>2, <1>4 DEF Local, TypeOK
    <3>2. ASSUME NEW s \in Requests, s # r
          PROVE  Local(s)'
      <4>1. Tracked(s) /\ task[s] \in delivered /\ pc[s] = "complete" => task[s] \in delivered'
        <5>1. pc[s] = "complete" => task[s] # t
          BY <2>6 DEF Owns, Locals, Local
        <5>2. QED
          BY <1>4, <5>1
      <4>2. QED
        BY <2>4, <3>2, <4>1, OthersLocal
    <3>3. QED
      BY <3>1, <3>2 DEF Locals
  <2>8. /\ transfers'[t] = "starting"
        /\ \A u \in TaskIds \ {t} : \/ transfers'[u] = transfers[u]
                                    \/ transfers'[u] = "absent" /\ transfers[u] \in Terminal
    BY <1>1, <1>4, UnexpiredKept DEF Terminal
  <2>9. /\ Owns(r, t)' /\ \A s \in Requests \ {r} : ~ Owns(s, t)'
        /\ \A s \in Requests, u \in TaskIds \ {t} : Owns(s, u)' <=> Owns(s, u)
    <3>1. Owns(r, t)'
      BY <1>1, <1>2, <1>4 DEF Owns, TypeOK
    <3>2. \A u \in TaskIds \ {t} : ~ Owns(r, u) /\ ~ Owns(r, u)'
      BY <1>2 DEF Owns
    <3>3. \A s \in Requests \ {r}, u \in TaskIds : Owns(s, u)' <=> Owns(s, u)
      BY <2>4, OthersOwn
    <3>4. QED
      BY <1>1, <1>2, <2>6, <3>1, <3>2, <3>3
  <2>10. ActiveIsOwned'
    <3> SUFFICES ASSUME NEW u \in TaskIds
                 PROVE  /\ transfers'[u] \in Active <=> \E s \in Requests : Owns(s, u)'
                        /\ \A s, q \in Requests : Owns(s, u)' /\ Owns(q, u)' => s = q
      BY DEF ActiveIsOwned
    <3>1. CASE u = t
      BY <1>2, <2>8, <2>9, <3>1 DEF Active
    <3>2. CASE u # t
      <4>1. transfers'[u] \in Active <=> transfers[u] \in Active
        BY <2>8, <3>2 DEF Active, Terminal
      <4>2. QED
        BY <2>9, <3>2, <4>1 DEF ActiveIsOwned
    <3>3. QED
      BY <3>1, <3>2
  <2>11. Bounded'
    BY <1>1, <1>4, EnterBounded
  <2>12. CompletedIsDelivered'
    BY <1>4, <2>8 DEF CompletedIsDelivered
  <2>13. QED
    BY <2>2, <2>3, <2>7, <2>10, <2>11, <2>12
<1>5. CASE /\ Unexpired[t] = "absent" /\ ~ TableFull(Unexpired)
           /\ transfers' = [Unexpired EXCEPT ![t] = "starting"]
           /\ age' = [age EXCEPT ![t] = 0] /\ delivered' = delivered \ {t}
           /\ Goto(r, "create")
  <2>1. Cardinality(Present(Unexpired)) < MaxRetained
    BY <1>5, PresentCountable, Constants DEF TableFull
  <2>2. QED
    BY <1>4, <1>5, <2>1, UnexpiredKept
<1>6. ASSUME NEW u \in Oldest(Unexpired),
             Unexpired[t] = "absent",
             transfers' = [[Unexpired EXCEPT ![u] = "absent"] EXCEPT ![t] = "starting"],
             age' = [age EXCEPT ![t] = 0], delivered' = delivered \ {t},
             Goto(r, "create")
      PROVE  IInv'
  <2> DEFINE entries == [Unexpired EXCEPT ![u] = "absent"]
  <2>1. u \in TaskIds /\ Unexpired[u] \in Terminal
    BY DEF Oldest, Removable
  <2>2. entries \in [TaskIds -> Statuses]
    BY <2>1, UnexpiredKept DEF Statuses
  <2>3. \A v \in TaskIds : \/ entries[v] = Unexpired[v]
                           \/ entries[v] = "absent" /\ Unexpired[v] \in Terminal
    BY <2>1, UnexpiredKept
  <2>4. Cardinality(Present(entries)) < MaxRetained
    <3>1. Present(entries) = Present(Unexpired) \ {u} /\ u \in Present(Unexpired)
      BY <2>1, UnexpiredKept DEF Present, Terminal
    <3>2. Cardinality(Present(entries)) = Cardinality(Present(Unexpired)) - 1
      BY <3>1, PresentCountable, FS_RemoveElement
    <3>3. Cardinality(Present(Unexpired)) <= Cardinality(Present(transfers))
      BY UnexpiredKept, FewerPresent
    <3>4. QED
      BY <3>2, <3>3, PresentCountable, Constants DEF Bounded
  <2> HIDE DEF entries
  <2>5. transfers' = [entries EXCEPT ![t] = "starting"]
    BY <1>6 DEF entries
  <2>6. QED
    BY <1>4, <1>6, <2>2, <2>3, <2>4, <2>5
<1>7. QED
  BY <1>3, <1>5, <1>6 DEF BeginTransfer

-----------------------------------------------------------------------------
LEMMA InitIInv == Init => IInv
<1> SUFFICES ASSUME Init
             PROVE  IInv
  OBVIOUS
<1> USE DEF Init
<1>1. 0 \in 0 .. MaxConcurrent /\ 0 \in 0 .. Retention + 1
  BY Constants
<1>2. TypeOK
  BY <1>1 DEF TypeOK, Statuses
<1>3. Holders = {} /\ Present(transfers) = {}
  BY DEF Holders, Present
<1>4. Slots /\ Bounded
  BY <1>3, FS_EmptySet, Constants DEF Slots, Bounded
<1>5. Locals /\ ActiveIsOwned /\ CompletedIsDelivered
  BY DEF Locals, Local, ActiveIsOwned, Owns, Active, CompletedIsDelivered
<1>6. QED
  BY <1>2, <1>4, <1>5 DEF IInv

LEMMA StepIInv ==
    ASSUME IInv, [Next]_vars
    PROVE  IInv'
<1>1. ASSUME NEW r \in Requests, NEW t \in TaskIds \cup {Untracked}, TakeSlot(r, t)
      PROVE  IInv'
  BY <1>1, SlotIInv
<1>2. ASSUME NEW r \in Requests, ServeDownload(r) \/ Progress(r)
      PROVE  IInv'
  BY <1>2, SlotIInv, LocalIInv, TransferIInv, BeginIInv DEF ServeDownload
<1>3. CASE ServeProgress \/ Tick
  BY <1>3, IdleIInv
<1>4. CASE UNCHANGED vars
  BY <1>4
     DEF vars, table, locals, IInv, TypeOK, Slots, Holders, Locals, Local, Tracked,
         ActiveIsOwned, Owns, Bounded, Present, CompletedIsDelivered
<1>5. QED
  BY <1>1, <1>2, <1>3, <1>4 DEF Next

\* The invariant is inductive.  An entry stays active as long as its owner works
\* because only the owner changes it and only finished ones are removed.
THEOREM Inductive == Spec => []IInv
<1>1. QED
  BY InitIInv, StepIInv, PTL DEF Spec

\* Every way out of serveDownload releases its slot once, and the temporary file
\* of a download is there only while its goroutine has a slot.
THEOREM SlotsCounted == Spec => []SlotsHeld
<1>1. IInv => SlotsHeld
  BY DEF IInv, Slots, Holders, SlotsHeld
<1>2. QED
  BY <1>1, Inductive, PTL

\* The transfers that are starting or downloading are those of the goroutines
\* that work on them, one each, whatever expires or is evicted.
THEOREM ActiveOwned == Spec => []ActiveIsOwned
<1>1. IInv => ActiveIsOwned
  BY DEF IInv
<1>2. QED
  BY <1>1, Inductive, PTL

\* finishTransfer(true) is reached only when the browser has the whole archive,
\* and beginTransfer takes no entry of a task that somebody still completes.
THEOREM CompletedDelivered == Spec => []CompletedIsDelivered
<1>1. IInv => CompletedIsDelivered
  BY DEF IInv
<1>2. QED
  BY <1>1, Inductive, PTL

\* If nothing can be removed, every entry has an owner with a slot, and the
\* goroutine that wants to begin has a slot besides.
LEMMA OwnersLeaveRoom ==
    ASSUME IInv, NEW r \in Requests, pc[r] = "begin", Removable(Unexpired) = {}
    PROVE  Cardinality(Present(Unexpired)) < MaxConcurrent
<1> USE DEF IInv
<1> DEFINE S == Present(Unexpired)
           T == Holders \ {r}
           owner == [t \in S |-> CHOOSE s \in Requests : Owns(s, t)]
<1>1. S \subseteq TaskIds
  BY DEF Present
<1>2. \A t \in S : \E s \in Requests : Owns(s, t)
  <2> SUFFICES ASSUME NEW t \in S
               PROVE  \E s \in Requests : Owns(s, t)
    OBVIOUS
  <2>1. t \in TaskIds /\ Unexpired[t] # "absent" /\ Unexpired[t] \notin Terminal
    BY DEF Present, Removable
  <2>2. Unexpired[t] = transfers[t] /\ transfers[t] \in Statuses
    BY <2>1, UnexpiredKept DEF TypeOK
  <2>3. transfers[t] \in Active
    BY <2>1, <2>2 DEF Statuses
  <2>4. QED
    BY <2>1, <2>3 DEF ActiveIsOwned
<1>3. ASSUME NEW t \in S
      PROVE  owner[t] \in T /\ Owns(owner[t], t)
  <2>1. owner[t] \in Requests /\ Owns(owner[t], t)
    BY <1>2
  <2>2. QED
    BY <2>1, OwnersHold
<1>4. owner \in [S -> T]
  BY <1>3
<1>5. \A t, u \in S : owner[t] = owner[u] => t = u
  BY <1>3 DEF Owns
<1>6. /\ IsFiniteSet(S) /\ Cardinality(S) \in Nat
      /\ IsFiniteSet(T) /\ Cardinality(T) \in Nat
  <2>1. T \subseteq Requests
    BY DEF Holders
  <2>2. QED
    BY <1>1, <2>1, Countable
<1>7. Cardinality(T) = Cardinality(Holders) - 1
  <2>1. r \in Holders
    BY DEF Holders
  <2>2. QED
    BY <2>1, HoldersCountable, FS_RemoveElement
<1> HIDE DEF S, T, owner
<1>8. ~ (Cardinality(T) < Cardinality(S))
  BY <1>4, <1>5, <1>6, FS_PigeonHole
<1>9. Cardinality(Holders) <= MaxConcurrent
  <2>1. slots \in 0 .. MaxConcurrent /\ slots = Cardinality(Holders)
    BY DEF TypeOK, Slots
  <2>2. QED
    BY <2>1, Constants
<1>10. Cardinality(S) < MaxConcurrent
  BY <1>6, <1>7, <1>8, <1>9, HoldersCountable, Constants
<1>11. QED
  BY <1>10 DEF S

\* beginTransfer keeps the table within maxRetainedTransfers, and refuses no new
\* task unless more slots are configured than the 128 entries (the default is 2).
THEOREM RoomAlways == Spec => []RoomForNewTask
<1>1. IInv => RoomForNewTask
  <2> SUFFICES ASSUME IInv, MaxConcurrent <= MaxRetained,
                      NEW r \in Requests, pc[r] = "begin", Removable(Unexpired) = {}
               PROVE  ~ TableFull(Unexpired)
    BY DEF IInv, Bounded, RoomForNewTask
  <2>1. Cardinality(Present(Unexpired)) < MaxConcurrent
    BY OwnersLeaveRoom
  <2>2. Cardinality(Present(Unexpired)) \in Nat
    BY PresentCountable
  <2>3. QED
    BY <2>1, <2>2, Constants DEF TableFull
<1>2. QED
  BY <1>1, Inductive, PTL

\* finishTransfer and progressObserver change entries of their own task, which
\* is active; what is finished is only removed, or begun again.
THEOREM FinishedIsFinal == Spec => TerminalIsFinal
<1> DEFINE Final == \A t \in TaskIds :
                       transfers[t] \in Terminal =>
                           transfers'[t] \in {transfers[t], "absent", "starting"}
<1>1. IInv /\ [Next]_vars => Final
  <2> SUFFICES ASSUME IInv, [Next]_vars, NEW t \in TaskIds, transfers[t] \in Terminal
               PROVE  transfers'[t] \in {transfers[t], "absent", "starting"}
    OBVIOUS
  <2>1. ASSUME NEW r \in Requests, Progress(r) \/ Complete(r) \/ Finish(r)
        PROVE  transfers'[t] = transfers[t]
    <3>1. \/ UNCHANGED transfers
          \/ /\ Owns(r, task[r]) /\ task[r] \in TaskIds
             /\ \E status : SetStatus(task[r], status)
      BY <2>1, Constants
         DEF Progress, Complete, Finish, FinishTransfer, MustFail, Tracked, Owns, table,
             IInv, Locals, Local, TypeOK
    <3>2. CASE Owns(r, task[r]) /\ task[r] \in TaskIds /\ \E status : SetStatus(task[r], status)
      <4>1. task[r] # t
        BY <3>2, OwnedIsActive DEF Active, Terminal
      <4>2. QED
        BY <3>2, <4>1 DEF SetStatus, IInv, TypeOK
    <3>3. QED
      BY <3>1, <3>2
  <2>2. ASSUME NEW r \in Requests, BeginTransfer(r)
        PROVE  transfers'[t] \in {transfers[t], "absent", "starting"}
    <3>1. Unexpired[t] \in {transfers[t], "absent"} /\ Unexpired \in [TaskIds -> Statuses]
      BY UnexpiredKept DEF IInv
    <3>2. QED
      BY <2>2, <3>1 DEF BeginTransfer
  <2>3. CASE ServeProgress
    BY <2>3, UnexpiredKept DEF ServeProgress, IInv
  <2>4. QED
    BY <2>1, <2>2, <2>3
       DEF Next, ServeDownload, TakeSlot, CreateTemp, Credentials, Download,
           SaveCredentials, Respond, Clean, ReleaseSlot, Tick, vars, table
<1>2. IInv /\ [Next]_vars => [Final]_vars
  BY <1>1
<1>3. QED
  BY <1>2, Inductive, PTL DEF Spec, TerminalIsFinal
=============================================================================
