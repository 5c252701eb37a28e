---------------------------- MODULE GatewayProofs ----------------------------
(***************************************************************************)
(* TLAPS proofs about Gateway: for any number of calls, keys and request   *)
(* hashes, and any crashes, a key is executed at most once and what        *)
(* execute() answers is true, as long as nobody outlasts a lease and the   *)
(* kernel does not raise after its TX_COMMIT.  The store of the            *)
(* reservations may fail at any statement.                                 *)
(***************************************************************************)
EXTENDS Gateway, TLAPS

-----------------------------------------------------------------------------
(* Facts about the values.                                                 *)

(* No exception, and no missing answer, is a CommandResult.                *)
LEMMA AnswerTypes ==
    /\ NoResult \notin Results
    /\ \A e \in Errors : Raised(e) \notin Results /\ Raised(e).status = e
  BY GatewayAssumption DEF NoResult, Raised, Results

(* What the gateway stores in a row is a row.                              *)
LEMMA RowTypes ==
    /\ \A c \in Calls : request[c].hash \in Hashes => Reservation(c) \in Row
    /\ \A row \in Row, b \in BOOLEAN : [row EXCEPT !.leased = b] \in Row
    /\ \A row \in Row, r \in Results :
          [row EXCEPT !.status = "COMPLETE", !.result = r, !.leased = FALSE] \in Row
  BY DEF Reservation, Row

(* A row belongs to a call of its key.                                     *)
LEMMA RowOwner ==
    ASSUME TypeOK, NEW k \in Keys, RowKnowledge(k), rows[k] # NoRow
    PROVE  /\ rows[k] \in Row
           /\ rows[k].owner \in Calls
           /\ request[rows[k].owner].key = k
           /\ request[rows[k].owner].hash = rows[k].hash
  <1>1. rows[k] \in Row
    BY DEF TypeOK, Request
  <1> QED BY <1>1 DEF RowKnowledge, Row

(* An owner's row.                                                         *)
LEMMA OwnerRow ==
    ASSUME TypeOK, NEW c \in Calls, Owns(c)
    PROVE  /\ RowOf(c) \in Row
           /\ RowOf(c).owner = c
           /\ RowOf(c).status = "PENDING"
           /\ RowOf(c).hash = request[c].hash
  BY DEF TypeOK, Request, Owns, RowOf, SameRequest

(* A new reservation makes its call the owner.                             *)
LEMMA Reserved ==
    ASSUME TypeOK, NEW c \in Calls, SetRow(c, Reservation(c)), UNCHANGED request
    PROVE  Owns(c)' /\ RowOf(c)'.leased /\ RowOf(c)'.owner = c
  <1>1. /\ request[c].key \in Keys /\ request[c].hash \in Hashes
        /\ RowOf(c)' = Reservation(c)
    BY DEF TypeOK, Request, SetRow, RowOf
  <1>2. Reservation(c) \in Row
    BY <1>1, RowTypes
  <1>3. /\ Reservation(c).hash = request[c].hash
        /\ Reservation(c).status = "PENDING"
        /\ Reservation(c).owner = c
        /\ Reservation(c).leased
    BY DEF Reservation
  <1> QED BY <1>1, <1>2, <1>3, NoRowAssumption DEF Owns, SameRequest

(* A row of another key is not touched.                                    *)
LEMMA OtherKey ==
    ASSUME TypeOK, NEW c \in Calls, NEW d \in Calls, NEW r,
           SetRow(c, r), UNCHANGED request, request[d].key # request[c].key
    PROVE  RowOf(d)' = RowOf(d) /\ (Owns(d)' <=> Owns(d))
  BY DEF TypeOK, Request, SetRow, RowOf, Owns, SameRequest

\* dispatch() has returned a CommandResult to a call that is about to store it.
Returned(c) == pc[c] = "finalize" => result[c] \in Results

(* A step of a call writes a row to its own key, or removes it.            *)
LEMMA RowsWritten ==
    ASSUME TypeOK, NEW c \in Calls, CallStep(c), Returned(c)
    PROVE  UNCHANGED rows \/ \E r \in Row \cup {NoRow} : SetRow(c, r)
  <1>a. Reservation(c) \in Row /\ RowOf(c) \in Row \cup {NoRow}
    BY RowTypes DEF TypeOK, Request, RowOf
  <1>1. CASE Start(c)
    BY <1>1 DEF Start
  <1>2. CASE Get(c)
    BY <1>2 DEF Get
  <1>3. CASE Reserve(c)
    BY <1>3, <1>a DEF Reserve
  <1>4. CASE Wait(c)
    BY <1>4 DEF Wait
  <1>5. CASE Recover(c)
    BY <1>5 DEF Recover
  <1>6. CASE RecoverFails(c)
    BY <1>6 DEF RecoverFails
  <1>7. CASE Claim(c)
    BY <1>7, <1>a DEF Claim
  <1>8. CASE Enter(c)
    BY <1>8 DEF Enter
  <1>9. CASE LockTimeout(c)
    BY <1>9 DEF LockTimeout
  <1>10. CASE Commit(c)
    BY <1>10 DEF Commit
  <1>11. CASE Return(c)
    BY <1>11 DEF Return
  <1>12. CASE Fail(c)
    BY <1>12 DEF Fail
  <1>13. CASE Release(c)
    BY <1>13 DEF Release
  <1>14. CASE Finalize(c)
    <2>1. result[c] \in Results
      BY <1>14 DEF Finalize, Returned
    <2>2. Owns(c) => RowOf(c) \in Row
      BY <1>a DEF Owns
    <2> QED BY <1>14, <2>1, <2>2, RowTypes DEF Finalize, Complete
  <1>15. CASE Renew(c)
    <2>1. RowOf(c) \in Row
      BY <1>15, <1>a DEF Renew, Owns
    <2> QED BY <1>15, <2>1, RowTypes DEF Renew
  <1>16. CASE Crash(c)
    BY <1>16 DEF Crash
  <1>17. CASE StorageFails(c)
    <2>1. pc[c] = "finalize" /\ Owns(c) => result[c] \in Results /\ RowOf(c) \in Row
      BY <1>a DEF Owns, Returned
    <2> QED BY <1>17, <2>1, RowTypes DEF StorageFails, Complete
  <1> QED
    BY <1>1, <1>2, <1>3, <1>4, <1>5, <1>6, <1>7, <1>8, <1>9, <1>10, <1>11, <1>12,
       <1>13, <1>14, <1>15, <1>16, <1>17
    DEF CallStep, Progress, Reserving, Dispatching

(* A step of a call writes an answer of its own.                           *)
LEMMA AnswersWritten ==
    ASSUME TypeOK, NEW c \in Calls, CallStep(c)
    PROVE  UNCHANGED result \/ \E r \in Answers : result' = [result EXCEPT ![c] = r]
  <1>a. \A e \in Errors : Raised(e) \in Answers
    BY DEF Answers
  <1>b. RowOf(c) # NoRow /\ Examine(c) =>
            UNCHANGED result \/ \E r \in Answers : result' = [result EXCEPT ![c] = r]
    BY <1>a DEF Examine, Finish, TypeOK, Request, RowOf, Row, Answers, Errors
  <1> USE DEF Errors
  <1>1. CASE Start(c)
    BY <1>1 DEF Start
  <1>2. CASE Get(c)
    BY <1>2, <1>b DEF Get
  <1>3. CASE Reserve(c)
    BY <1>3, <1>b DEF Reserve
  <1>4. CASE Wait(c)
    BY <1>4, <1>a, <1>b DEF Wait, Finish
  <1>5. CASE Recover(c)
    BY <1>5, <1>a DEF Recover, Finish
  <1>6. CASE RecoverFails(c)
    BY <1>6, <1>a DEF RecoverFails, Finish
  <1>7. CASE Claim(c)
    BY <1>7, <1>a DEF Claim, Finish
  <1>8. CASE Enter(c)
    BY <1>8 DEF Enter
  <1>9. CASE LockTimeout(c)
    BY <1>9 DEF LockTimeout
  <1>10. CASE Commit(c)
    BY <1>10 DEF Commit
  <1>11. CASE Return(c)
    BY <1>11 DEF Return, Answers, Results
  <1>12. CASE Fail(c)
    BY <1>12 DEF Fail
  <1>13. CASE Release(c)
    BY <1>13, <1>a DEF Release, Finish
  <1>14. CASE Finalize(c)
    <2>1. result[c] \in Answers
      BY DEF TypeOK, Request
    <2> QED BY <1>14, <2>1, <1>a DEF Finalize, Finish
  <1>15. CASE Renew(c)
    BY <1>15 DEF Renew
  <1>16. CASE Crash(c)
    BY <1>16 DEF Crash
  <1>17. CASE StorageFails(c)
    BY <1>17, <1>a DEF StorageFails, Finish
  <1> QED
    BY <1>1, <1>2, <1>3, <1>4, <1>5, <1>6, <1>7, <1>8, <1>9, <1>10, <1>11, <1>12,
       <1>13, <1>14, <1>15, <1>16, <1>17
    DEF CallStep, Progress, Reserving, Dispatching

(* The other variables keep their types.                                   *)
LEMMA ControlTypes ==
    ASSUME TypeOK, NEW c \in Calls, CallStep(c)
    PROVE  /\ committed' \subseteq Calls
           /\ lock' \in Calls \cup {NoCall}
           /\ pc' \in [Calls -> Pcs]
           /\ request' = request
  <1> USE DEF TypeOK, Request, Pcs, GuardPcs, Goto, Finish, Examine
  <1>1. CASE Start(c)
    BY <1>1 DEF Start
  <1>2. CASE Get(c)
    BY <1>2 DEF Get
  <1>3. CASE Reserve(c)
    BY <1>3 DEF Reserve
  <1>4. CASE Wait(c)
    BY <1>4 DEF Wait
  <1>5. CASE Recover(c)
    BY <1>5 DEF Recover
  <1>6. CASE RecoverFails(c)
    BY <1>6 DEF RecoverFails
  <1>7. CASE Claim(c)
    BY <1>7 DEF Claim
  <1>8. CASE Enter(c)
    BY <1>8 DEF Enter
  <1>9. CASE LockTimeout(c)
    BY <1>9 DEF LockTimeout
  <1>10. CASE Commit(c)
    BY <1>10 DEF Commit
  <1>11. CASE Return(c)
    BY <1>11 DEF Return
  <1>12. CASE Fail(c)
    BY <1>12 DEF Fail
  <1>13. CASE Release(c)
    BY <1>13 DEF Release
  <1>14. CASE Finalize(c)
    BY <1>14 DEF Finalize
  <1>15. CASE Renew(c)
    BY <1>15 DEF Renew
  <1>16. CASE Crash(c)
    BY <1>16 DEF Crash
  <1>17. CASE StorageFails(c)
    BY <1>17 DEF StorageFails
  <1> QED
    BY <1>1, <1>2, <1>3, <1>4, <1>5, <1>6, <1>7, <1>8, <1>9, <1>10, <1>11, <1>12,
       <1>13, <1>14, <1>15, <1>16, <1>17
    DEF CallStep, Progress, Reserving, Dispatching

(* What a call has seen is nothing, or the owner of a row.                 *)
LEMMA SeenWritten ==
    ASSUME TypeOK, NEW c \in Calls, CallStep(c)
    PROVE  seen' = seen \/ \E d \in Calls : seen' = [seen EXCEPT ![c] = d]
  <1>1. CASE Start(c)
    BY <1>1 DEF Start
  <1>2. CASE Get(c)
    BY <1>2 DEF Get
  <1>3. CASE Reserve(c)
    BY <1>3 DEF Reserve
  <1>4. CASE Wait(c)
    <2>1. RowOf(c) # NoRow => RowOf(c).owner \in Calls
      BY DEF TypeOK, Request, RowOf, Row
    <2> QED BY <1>4, <2>1 DEF Wait
  <1>5. CASE Recover(c)
    BY <1>5 DEF Recover
  <1>6. CASE RecoverFails(c)
    BY <1>6 DEF RecoverFails
  <1>7. CASE Claim(c)
    BY <1>7 DEF Claim
  <1>8. CASE Enter(c)
    BY <1>8 DEF Enter
  <1>9. CASE LockTimeout(c)
    BY <1>9 DEF LockTimeout
  <1>10. CASE Commit(c)
    BY <1>10 DEF Commit
  <1>11. CASE Return(c)
    BY <1>11 DEF Return
  <1>12. CASE Fail(c)
    BY <1>12 DEF Fail
  <1>13. CASE Release(c)
    BY <1>13 DEF Release
  <1>14. CASE Finalize(c)
    BY <1>14 DEF Finalize
  <1>15. CASE Renew(c)
    BY <1>15 DEF Renew
  <1>16. CASE Crash(c)
    BY <1>16 DEF Crash
  <1>17. CASE StorageFails(c)
    BY <1>17 DEF StorageFails
  <1> QED
    BY <1>1, <1>2, <1>3, <1>4, <1>5, <1>6, <1>7, <1>8, <1>9, <1>10, <1>11, <1>12,
       <1>13, <1>14, <1>15, <1>16, <1>17
    DEF CallStep, Progress, Reserving, Dispatching

(* What storing a result does to the row of its owner.                     *)
Stored(c) ==
    /\ rows' = [rows EXCEPT ![request[c].key] = RowOf(c)']
    /\ Owns(c)
    /\ RowOf(c)' \in Row
    /\ RowOf(c)'.owner = c
    /\ RowOf(c)'.status = "COMPLETE"
    /\ RowOf(c)'.result = result[c]
    /\ RowOf(c)'.hash = request[c].hash

(* It stores the result that dispatch() returned.                          *)
LEMMA CompleteStores ==
    ASSUME TypeOK, NEW c \in Calls, Owns(c), result[c] \in Results, Complete(c),
           UNCHANGED request
    PROVE  Stored(c)
  <1>1. /\ RowOf(c) \in Row /\ RowOf(c).owner = c
        /\ RowOf(c).hash = request[c].hash
    BY OwnerRow
  <1>2. RowOf(c)' = [RowOf(c) EXCEPT !.status = "COMPLETE",
                                     !.result = result[c],
                                     !.leased = FALSE]
    BY DEF TypeOK, Request, Complete, SetRow, RowOf
  <1>3. /\ RowOf(c)'.owner = c
        /\ RowOf(c)'.status = "COMPLETE" /\ RowOf(c)'.result = result[c]
        /\ RowOf(c)'.hash = request[c].hash
    BY <1>1, <1>2 DEF Row
  <1>4. RowOf(c)' \in Row
    BY <1>1, <1>2, RowTypes
  <1> QED BY <1>2, <1>3, <1>4 DEF Stored, Complete, SetRow

\* What finalize_owned() has done when it succeeds.
Finalized(c) ==
    /\ Stored(c)
    /\ pc' = [pc EXCEPT ![c] = "done"]
    /\ result' = result
    /\ UNCHANGED <<committed, request, seen>>

(* Where nobody stalls, finalize_owned() succeeds, unless the store fails. *)
LEMMA FinalizeSucceeds ==
    ASSUME TypeOK, IInv, NEW c \in Calls, Finalize(c)
    PROVE  Finalized(c)
  <1>1. Owns(c) /\ result[c] \in Results
    BY DEF Finalize, IInv, OwnerKnowledge, OwnerPcs
  <1>2. Complete(c) /\ Finish(c, result[c]) /\ UNCHANGED <<committed, request, seen>>
    BY <1>1 DEF Finalize
  <1>3. result' = result /\ pc' = [pc EXCEPT ![c] = "done"]
    BY <1>2 DEF Finish, Goto, TypeOK, Request
  <1> QED BY <1>1, <1>2, <1>3, CompleteStores DEF Finalized

(* When the store fails, it has the result of the owner, or is as before.  *)
LEMMA StorageKeepsOrStores ==
    ASSUME TypeOK, IInv, NEW c \in Calls, StorageFails(c)
    PROVE  UNCHANGED rows \/ (Stored(c) /\ pc[c] = "finalize")
  <1>1. pc[c] = "finalize" => result[c] \in Results
    BY DEF IInv, OwnerKnowledge
  <1> QED BY <1>1, CompleteStores DEF StorageFails

(* Every row still belongs to a call of its key.                           *)
LEMMA RowStep ==
    ASSUME TypeOK, IInv, Timely, NEW c \in Calls, CallStep(c), NEW k \in Keys
    PROVE  RowKnowledge(k)'
  <1>a. rows[k] # NoRow => rows[k] \in Row /\ request[rows[k].owner].key = k
    BY RowOwner DEF IInv
  <1>b. Finalize(c) => Finalized(c)
    BY FinalizeSucceeds
  <1>c. StorageFails(c) => UNCHANGED rows \/ (Stored(c) /\ pc[c] = "finalize")
    BY StorageKeepsOrStores
  <1> USE NoRowAssumption DEF IInv, TypeOK, Request, RowKnowledge, OwnerKnowledge,
                              CommitKnowledge, Goto, Finish, RowOf, SetRow, Owns,
                              SameRequest, Expired, Reservation, Examine,
                              OwnerPcs, GuardPcs, Pcs, Row
  <1>1. CASE Start(c)
    BY <1>1 DEF Start
  <1>2. CASE Get(c)
    BY <1>2 DEF Get
  <1>3. CASE Reserve(c)
    BY <1>3 DEF Reserve
  <1>4. CASE Wait(c)
    BY <1>4 DEF Wait
  <1>5. CASE Recover(c)
    BY <1>5 DEF Recover
  <1>6. CASE RecoverFails(c)
    BY <1>6 DEF RecoverFails
  <1>7. CASE Claim(c)
    BY <1>7 DEF Claim
  <1>8. CASE Enter(c)
    BY <1>8 DEF Enter
  <1>9. CASE LockTimeout(c)
    BY <1>9 DEF LockTimeout
  <1>10. CASE Commit(c)
    BY <1>10 DEF Commit
  <1>11. CASE Return(c)
    BY <1>11 DEF Return
  <1>12. CASE Fail(c)
    BY <1>12 DEF Fail
  <1>13. CASE Release(c)
    BY <1>13 DEF Release
  <1>14. CASE Finalize(c)
    <2>1. CASE k = request[c].key
      <3>1. /\ request[c].key = k /\ request[c].hash = rows'[k].hash
            /\ rows'[k].owner = c /\ rows'[k].status = "COMPLETE"
            /\ rows'[k].result = result[c]
        BY <1>14, <1>b, <2>1 DEF Finalized, Stored
      <3> QED BY <1>14, <1>b, <3>1 DEF Finalized, Stored, Finalize
    <2>2. CASE k # request[c].key
      <3>1. rows'[k] = rows[k] /\ (rows[k] # NoRow => rows[k].owner # c)
        BY <1>14, <1>a, <1>b, <2>2 DEF Finalized, Stored
      <3> QED BY <1>14, <1>b, <3>1 DEF Finalized, Stored
    <2> QED BY <2>1, <2>2
  <1>15. CASE Renew(c)
    BY <1>15 DEF Renew
  <1>16. CASE Crash(c)
    BY <1>16 DEF Crash
  <1>17. CASE StorageFails(c)
    <2>1. CASE UNCHANGED rows
      BY <1>17, <2>1 DEF StorageFails
    <2>2. CASE Stored(c) /\ pc[c] = "finalize"
      <3>1. CASE k = request[c].key
        BY <1>17, <2>2, <3>1 DEF StorageFails, Stored
      <3>2. CASE k # request[c].key
        <4>1. rows'[k] = rows[k] /\ (rows[k] # NoRow => rows[k].owner # c)
          BY <1>a, <2>2, <3>2 DEF Stored
        <4> QED BY <1>17, <4>1 DEF StorageFails
      <3> QED BY <3>1, <3>2
    <2> QED BY <1>17, <1>c, <2>1, <2>2
  <1> QED
    BY <1>1, <1>2, <1>3, <1>4, <1>5, <1>6, <1>7, <1>8, <1>9, <1>10, <1>11, <1>12,
       <1>13, <1>14, <1>15, <1>16, <1>17
    DEF CallStep, Progress, Reserving, Dispatching

(* Every claimer still knows whose row it looked at.                       *)
LEMMA ClaimStep ==
    ASSUME TypeOK, IInv, Timely, NEW c \in Calls, CallStep(c), NEW d \in Calls
    PROVE  ClaimKnowledge(d)'
  <1>a. Finalize(c) => Finalized(c)
    BY FinalizeSucceeds
  <1>b. StorageFails(c) => UNCHANGED rows \/ (Stored(c) /\ pc[c] = "finalize")
    BY StorageKeepsOrStores
  <1> USE NoRowAssumption DEF IInv, TypeOK, Request, RowKnowledge, OwnerKnowledge,
                              ClaimKnowledge, Goto, Finish, RowOf, SetRow, Owns,
                              SameRequest, Expired, Reservation, Examine,
                              OwnerPcs, GuardPcs, Pcs, Row, Timely
  <1>1. CASE Start(c)
    BY <1>1 DEF Start
  <1>2. CASE Get(c)
    BY <1>2 DEF Get
  <1>3. CASE Reserve(c)
    BY <1>3 DEF Reserve
  <1>4. CASE Wait(c)
    BY <1>4 DEF Wait
  <1>5. CASE Recover(c)
    BY <1>5 DEF Recover, CommitOnRecord
  <1>6. CASE RecoverFails(c)
    BY <1>6 DEF RecoverFails
  <1>7. CASE Claim(c)
    BY <1>7 DEF Claim
  <1>8. CASE Enter(c)
    BY <1>8 DEF Enter
  <1>9. CASE LockTimeout(c)
    BY <1>9 DEF LockTimeout
  <1>10. CASE Commit(c)
    BY <1>10 DEF Commit
  <1>11. CASE Return(c)
    BY <1>11 DEF Return
  <1>12. CASE Fail(c)
    BY <1>12 DEF Fail
  <1>13. CASE Release(c)
    BY <1>13 DEF Release
  <1>14. CASE Finalize(c)
    <2>1. RowOf(d)' # NoRow /\ Expired(RowOf(d))' => RowOf(d)' = RowOf(d)
      BY <1>14, <1>a DEF Finalized, Stored
    <2>2. pc[d] \in {"recover", "claim"} => seen[d] # c /\ c # d
      BY <1>14 DEF Finalize
    <2> QED BY <1>14, <1>a, <2>1, <2>2 DEF Finalized, Stored
  <1>15. CASE Renew(c)
    BY <1>15 DEF Renew
  <1>16. CASE Crash(c)
    BY <1>16 DEF Crash
  <1>17. CASE StorageFails(c)
    <2>1. CASE UNCHANGED rows
      BY <1>17, <2>1 DEF StorageFails
    <2>2. CASE Stored(c) /\ pc[c] = "finalize"
      <3>1. RowOf(d)' # NoRow /\ Expired(RowOf(d))' => RowOf(d)' = RowOf(d)
        BY <1>17, <2>2 DEF Stored, StorageFails
      <3>2. pc[d] \in {"recover", "claim"} => seen[d] # c /\ c # d
        BY <2>2
      <3> QED BY <1>17, <2>2, <3>1, <3>2 DEF StorageFails, Stored
    <2> QED BY <1>17, <1>b, <2>1, <2>2
  <1> QED
    BY <1>1, <1>2, <1>3, <1>4, <1>5, <1>6, <1>7, <1>8, <1>9, <1>10, <1>11, <1>12,
       <1>13, <1>14, <1>15, <1>16, <1>17
    DEF CallStep, Progress, Reserving, Dispatching

(* Every owner still owns its row.                                         *)
LEMMA OwnerStep ==
    ASSUME TypeOK, IInv, Timely, NEW c \in Calls, CallStep(c), NEW d \in Calls
    PROVE  OwnerKnowledge(d)'
  <1>a. SetRow(c, Reservation(c)) /\ UNCHANGED request => Owns(c)'
    BY Reserved
  <1>b. /\ SetRow(c, Reservation(c)) /\ UNCHANGED request
        /\ request[d].key # request[c].key
        => (Owns(d)' <=> Owns(d))
    BY OtherKey
  <1> USE NoRowAssumption, AnswerTypes DEF IInv, TypeOK, Request, RowKnowledge,
                                           OwnerKnowledge, ClaimKnowledge,
                                           CommitKnowledge, Goto, Finish, RowOf,
                                           SetRow, Owns, SameRequest, Expired,
                                           Reservation, Examine, OwnerPcs,
                                           GuardPcs, Pcs, Row, Timely, Results
  <1>1. CASE Start(c)
    BY <1>1 DEF Start
  <1>2. CASE Get(c)
    BY <1>2 DEF Get
  <1>3. CASE Reserve(c)
    <2>1. CASE RowOf(c) # NoRow
      BY <1>3, <2>1 DEF Reserve
    <2>2. CASE RowOf(c) = NoRow
      <3>1. /\ SetRow(c, Reservation(c)) /\ Goto(c, "dispatch")
            /\ UNCHANGED <<committed, request, result>>
        BY <1>3, <2>2 DEF Reserve
      <3>2. pc[d] \in OwnerPcs => request[d].key # request[c].key
        BY <2>2
      <3> QED BY <1>a, <1>b, <3>1, <3>2
    <2> QED BY <2>1, <2>2
  <1>4. CASE Wait(c)
    BY <1>4 DEF Wait
  <1>5. CASE Recover(c)
    BY <1>5 DEF Recover
  <1>6. CASE RecoverFails(c)
    BY <1>6 DEF RecoverFails
  <1>7. CASE Claim(c)
    <2>1. CASE UNCHANGED rows
      BY <1>7, <2>1 DEF Claim
    <2>2. CASE rows' # rows
      <3>1. /\ SetRow(c, Reservation(c)) /\ Goto(c, "dispatch")
            /\ UNCHANGED <<committed, request, result>>
            /\ RowOf(c) # NoRow /\ Expired(RowOf(c))
        BY <1>7, <2>2 DEF Claim
      <3>2. pc[d] \in OwnerPcs => request[d].key # request[c].key
        BY <3>1
      <3> QED BY <1>a, <1>b, <3>1, <3>2
    <2> QED BY <2>1, <2>2
  <1>8. CASE Enter(c)
    BY <1>8 DEF Enter
  <1>9. CASE LockTimeout(c)
    BY <1>9 DEF LockTimeout
  <1>10. CASE Commit(c)
    BY <1>10 DEF Commit
  <1>11. CASE Return(c)
    BY <1>11 DEF Return
  <1>12. CASE Fail(c)
    BY <1>12 DEF Fail
  <1>13. CASE Release(c)
    BY <1>13 DEF Release
  <1>14. CASE Finalize(c)
    BY <1>14 DEF Finalize, Complete
  <1>15. CASE Renew(c)
    BY <1>15 DEF Renew
  <1>16. CASE Crash(c)
    BY <1>16 DEF Crash
  <1>17. CASE StorageFails(c)
    BY <1>17 DEF StorageFails, Complete
  <1> QED
    BY <1>1, <1>2, <1>3, <1>4, <1>5, <1>6, <1>7, <1>8, <1>9, <1>10, <1>11, <1>12,
       <1>13, <1>14, <1>15, <1>16, <1>17
    DEF CallStep, Progress, Reserving, Dispatching

(* Every committed call still has its row.                                 *)
LEMMA CommitStep ==
    ASSUME TypeOK, IInv, Timely, NEW c \in Calls, CallStep(c), NEW d \in Calls
    PROVE  CommitKnowledge(d)'
  <1>a. Finalize(c) => Finalized(c)
    BY FinalizeSucceeds
  <1>b. StorageFails(c) => UNCHANGED rows \/ (Stored(c) /\ pc[c] = "finalize")
    BY StorageKeepsOrStores
  <1> USE NoRowAssumption DEF IInv, TypeOK, Request, RowKnowledge, OwnerKnowledge,
                              ClaimKnowledge, CommitKnowledge, Goto, Finish,
                              RowOf, SetRow, Owns, SameRequest, Expired,
                              Reservation, Examine, OwnerPcs, GuardPcs, Pcs, Row,
                              Timely
  <1>1. CASE Start(c)
    BY <1>1 DEF Start
  <1>2. CASE Get(c)
    BY <1>2 DEF Get
  <1>3. CASE Reserve(c)
    BY <1>3 DEF Reserve
  <1>4. CASE Wait(c)
    BY <1>4 DEF Wait
  <1>5. CASE Recover(c)
    BY <1>5 DEF Recover
  <1>6. CASE RecoverFails(c)
    BY <1>6 DEF RecoverFails
  <1>7. CASE Claim(c)
    BY <1>7 DEF Claim
  <1>8. CASE Enter(c)
    BY <1>8 DEF Enter
  <1>9. CASE LockTimeout(c)
    BY <1>9 DEF LockTimeout
  <1>10. CASE Commit(c)
    BY <1>10 DEF Commit
  <1>11. CASE Return(c)
    BY <1>11 DEF Return
  <1>12. CASE Fail(c)
    BY <1>12 DEF Fail
  <1>13. CASE Release(c)
    BY <1>13 DEF Release
  <1>14. CASE Finalize(c)
    <2>1. CASE request[d].key = request[c].key
      <3>1. d \in committed => d = c
        BY <1>14, <1>a, <2>1 DEF Finalized, Stored
      <3>2. c \in committed => CommitKnowledge(c)'
        BY <1>14, <1>a DEF Finalized, Stored
      <3> QED BY <1>14, <1>a, <3>1, <3>2 DEF Finalized, Stored
    <2>2. CASE request[d].key # request[c].key
      BY <1>14, <1>a, <2>2 DEF Finalized, Stored
    <2> QED BY <2>1, <2>2
  <1>15. CASE Renew(c)
    BY <1>15 DEF Renew
  <1>16. CASE Crash(c)
    BY <1>16 DEF Crash
  <1>17. CASE StorageFails(c)
    <2>1. CASE UNCHANGED rows
      BY <1>17, <2>1 DEF StorageFails
    <2>2. CASE Stored(c) /\ pc[c] = "finalize"
      <3>1. CASE request[d].key = request[c].key
        <4>1. d \in committed => d = c
          BY <2>2, <3>1
        <4> QED BY <1>17, <2>2, <4>1 DEF StorageFails, Stored
      <3>2. CASE request[d].key # request[c].key
        BY <1>17, <2>2, <3>2 DEF StorageFails, Stored
      <3> QED BY <3>1, <3>2
    <2> QED BY <1>17, <1>b, <2>1, <2>2
  <1> QED
    BY <1>1, <1>2, <1>3, <1>4, <1>5, <1>6, <1>7, <1>8, <1>9, <1>10, <1>11, <1>12,
       <1>13, <1>14, <1>15, <1>16, <1>17
    DEF CallStep, Progress, Reserving, Dispatching

(* Every answered result is still the result of a call that has ended.     *)
LEMMA AnswerStep ==
    ASSUME TypeOK, IInv, Timely, NEW c \in Calls, CallStep(c), NEW d \in Calls
    PROVE  AnswerKnowledge(d)'
  <1>a. Finalize(c) => Finalized(c)
    BY FinalizeSucceeds
  <1>b. RowOf(c) # NoRow /\ RowOf(c).status = "COMPLETE" =>
            /\ RowOf(c).result.cmd \in Calls
            /\ pc[RowOf(c).result.cmd] = "done"
    BY RowOwner DEF IInv, TypeOK, Request, RowKnowledge, RowOf
  <1>c. c \in committed => pc[c] \in {"committed", "finalize", "done", "dead"}
    BY DEF IInv, CommitKnowledge
  <1>d. \A e \in Errors : Raised(e) \notin Results
    BY AnswerTypes
  <1> USE NoRowAssumption, AnswerTypes DEF IInv, TypeOK, Request, RowKnowledge,
                                           OwnerKnowledge, ClaimKnowledge,
                                           CommitKnowledge, AnswerKnowledge,
                                           Goto, Finish, RowOf, SetRow, Owns,
                                           SameRequest, Expired, Examine,
                                           OwnerPcs, GuardPcs, Pcs, Row, Timely,
                                           Errors, Results
  <1>1. CASE Start(c)
    BY <1>1 DEF Start
  <1>2. CASE Get(c)
    BY <1>2 DEF Get
  <1>3. CASE Reserve(c)
    BY <1>3 DEF Reserve
  <1>4. CASE Wait(c)
    BY <1>4 DEF Wait
  <1>5. CASE Recover(c)
    BY <1>5 DEF Recover
  <1>6. CASE RecoverFails(c)
    BY <1>6 DEF RecoverFails
  <1>7. CASE Claim(c)
    BY <1>7 DEF Claim
  <1>8. CASE Enter(c)
    BY <1>8 DEF Enter
  <1>9. CASE LockTimeout(c)
    BY <1>9 DEF LockTimeout
  <1>10. CASE Commit(c)
    BY <1>10 DEF Commit
  <1>11. CASE Return(c)
    BY <1>11 DEF Return
  <1>12. CASE Fail(c)
    BY <1>12 DEF Fail
  <1>13. CASE Release(c)
    BY <1>13 DEF Release
  <1>14. CASE Finalize(c)
    <2>1. CASE d = c
      <3>1. pc[c] = "finalize" /\ result[c] \in Results /\ result[c].cmd = c
        BY <1>14 DEF Finalize
      <3> QED BY <1>14, <1>a, <2>1, <3>1 DEF Finalized, Stored
    <2>2. CASE d # c
      <3>1. pc'[d] = pc[d] /\ result'[d] = result[d] /\ pc[c] # "done"
        BY <1>14, <1>a, <2>2 DEF Finalized, Stored, Finalize
      <3>2. \A e \in Calls : pc[e] = "done" => pc'[e] = "done"
        BY <1>14, <1>a DEF Finalized, Stored
      <3>3. result[d] \in Results => result[d].cmd \in Calls
        OBVIOUS
      <3>4. pc[d] = "done" =>
                /\ result[d] \in Results => pc[result[d].cmd] = "done"
                /\ d \in committed => result[d] \in Results \/ result[d] = Raised("storage")
        OBVIOUS
      <3>5. committed' = committed
        BY <1>14, <1>a DEF Finalized, Stored
      <3> HIDE DEF IInv, Finalized
      <3> QED BY <3>1, <3>2, <3>3, <3>4, <3>5
    <2> QED BY <2>1, <2>2
  <1>15. CASE Renew(c)
    BY <1>15 DEF Renew
  <1>16. CASE Crash(c)
    BY <1>16 DEF Crash
  <1>17. CASE StorageFails(c)
    <2>1. pc'[c] = "done" /\ result'[c] = Raised("storage") /\ committed' = committed
      BY <1>17 DEF StorageFails
    <2>2. d # c => pc'[d] = pc[d] /\ result'[d] = result[d]
      BY <1>17 DEF StorageFails
    <2>3. \A e \in Calls : pc[e] = "done" => pc'[e] = "done"
      BY <1>17 DEF StorageFails
    <2>4. result[d] \in Results => result[d].cmd \in Calls
      OBVIOUS
    <2>5. pc[d] = "done" =>
              /\ result[d] \in Results => pc[result[d].cmd] = "done"
              /\ d \in committed => result[d] \in Results \/ result[d] = Raised("storage")
      OBVIOUS
    <2>6. Raised("storage") \notin Results
      BY <1>d
    <2> HIDE DEF IInv, Results
    <2> QED BY <2>1, <2>2, <2>3, <2>4, <2>5, <2>6
  <1> QED
    BY <1>1, <1>2, <1>3, <1>4, <1>5, <1>6, <1>7, <1>8, <1>9, <1>10, <1>11, <1>12,
       <1>13, <1>14, <1>15, <1>16, <1>17
    DEF CallStep, Progress, Reserving, Dispatching

(* Every result is still that of a command that ran for this request.      *)
LEMMA RepliesStep ==
    ASSUME TypeOK, IInv, Timely, NEW c \in Calls, CallStep(c)
    PROVE  RepliesTruthful'
  <1> USE NoRowAssumption, AnswerTypes DEF IInv, TypeOK, Request, RowKnowledge,
                                           OwnerKnowledge, AnswerKnowledge,
                                           CommitKnowledge, RepliesTruthful,
                                           Answered, Goto, Finish, RowOf, SetRow,
                                           Owns, SameRequest, Examine, OwnerPcs,
                                           GuardPcs, Pcs, Row, Timely, Errors,
                                           Results
  <1>1. CASE Start(c)
    BY <1>1 DEF Start
  <1>2. CASE Get(c)
    BY <1>2 DEF Get
  <1>3. CASE Reserve(c)
    BY <1>3 DEF Reserve
  <1>4. CASE Wait(c)
    BY <1>4 DEF Wait
  <1>5. CASE Recover(c)
    BY <1>5 DEF Recover
  <1>6. CASE RecoverFails(c)
    BY <1>6 DEF RecoverFails
  <1>7. CASE Claim(c)
    BY <1>7 DEF Claim
  <1>8. CASE Enter(c)
    BY <1>8 DEF Enter
  <1>9. CASE LockTimeout(c)
    BY <1>9 DEF LockTimeout
  <1>10. CASE Commit(c)
    BY <1>10 DEF Commit
  <1>11. CASE Return(c)
    BY <1>11 DEF Return
  <1>12. CASE Fail(c)
    BY <1>12 DEF Fail
  <1>13. CASE Release(c)
    BY <1>13 DEF Release
  <1>14. CASE Finalize(c)
    BY <1>14 DEF Finalize
  <1>15. CASE Renew(c)
    BY <1>15 DEF Renew
  <1>16. CASE Crash(c)
    BY <1>16 DEF Crash
  <1>17. CASE StorageFails(c)
    BY <1>17 DEF StorageFails
  <1> QED
    BY <1>1, <1>2, <1>3, <1>4, <1>5, <1>6, <1>7, <1>8, <1>9, <1>10, <1>11, <1>12,
       <1>13, <1>14, <1>15, <1>16, <1>17
    DEF CallStep, Progress, Reserving, Dispatching

(* Every exception is still true.                                          *)
LEMMA ErrorsStep ==
    ASSUME TypeOK, IInv, Timely, NEW c \in Calls, CallStep(c)
    PROVE  ErrorsTruthful'
  <1> USE NoRowAssumption, AnswerTypes, GatewayAssumption DEF IInv, TypeOK, Request,
                                                              RowKnowledge,
                                                              OwnerKnowledge,
                                                              AnswerKnowledge,
                                                              ClaimKnowledge,
                                                              CommitKnowledge,
                                                              ErrorsTruthful,
                                                              Goto, Finish,
                                                              RowOf, SetRow,
                                                              Owns, SameRequest,
                                                              Examine, OwnerPcs,
                                                              GuardPcs, Pcs, Row,
                                                              Timely, Errors,
                                                              Results
  <1>1. CASE Start(c)
    BY <1>1 DEF Start
  <1>2. CASE Get(c)
    BY <1>2 DEF Get
  <1>3. CASE Reserve(c)
    BY <1>3 DEF Reserve
  <1>4. CASE Wait(c)
    BY <1>4 DEF Wait
  <1>5. CASE Recover(c)
    BY <1>5 DEF Recover, CommitOnRecord
  <1>6. CASE RecoverFails(c)
    BY <1>6 DEF RecoverFails
  <1>7. CASE Claim(c)
    BY <1>7 DEF Claim
  <1>8. CASE Enter(c)
    BY <1>8 DEF Enter
  <1>9. CASE LockTimeout(c)
    BY <1>9 DEF LockTimeout
  <1>10. CASE Commit(c)
    BY <1>10 DEF Commit
  <1>11. CASE Return(c)
    BY <1>11 DEF Return
  <1>12. CASE Fail(c)
    BY <1>12 DEF Fail
  <1>13. CASE Release(c)
    BY <1>13 DEF Release
  <1>14. CASE Finalize(c)
    BY <1>14 DEF Finalize
  <1>15. CASE Renew(c)
    BY <1>15 DEF Renew
  <1>16. CASE Crash(c)
    BY <1>16 DEF Crash
  <1>17. CASE StorageFails(c)
    BY <1>17 DEF StorageFails
  <1> QED
    BY <1>1, <1>2, <1>3, <1>4, <1>5, <1>6, <1>7, <1>8, <1>9, <1>10, <1>11, <1>12,
       <1>13, <1>14, <1>15, <1>16, <1>17
    DEF CallStep, Progress, Reserving, Dispatching

(* A step of a call keeps the types.                                       *)
LEMMA CallStepTypes ==
    ASSUME TypeOK, NEW c \in Calls, CallStep(c), Returned(c)
    PROVE  TypeOK'
  <1>1. rows' \in [Keys -> Row \cup {NoRow}]
    BY RowsWritten DEF TypeOK, Request, SetRow
  <1>2. result' \in [Calls -> Answers]
    BY AnswersWritten DEF TypeOK, Request
  <1>3. seen' \in [Calls -> Calls \cup {NoCall}]
    BY SeenWritten DEF TypeOK, Request
  <1> QED BY <1>1, <1>2, <1>3, ControlTypes DEF TypeOK, Request

(* A step of a call keeps the inductive invariant.                         *)
LEMMA CallStepKeeps ==
    ASSUME IInv, Timely, NEW c \in Calls, CallStep(c)
    PROVE  IInv'
  <1>1. TypeOK
    BY DEF IInv
  <1>2. TypeOK'
    BY <1>1, CallStepTypes DEF IInv, OwnerKnowledge, Returned
  <1>3. \A k \in Keys : RowKnowledge(k)'
    BY <1>1, RowStep
  <1>4. \A d \in Calls : ClaimKnowledge(d)' /\ OwnerKnowledge(d)'
    BY <1>1, ClaimStep, OwnerStep
  <1>5. \A d \in Calls : CommitKnowledge(d)' /\ AnswerKnowledge(d)'
    BY <1>1, CommitStep, AnswerStep
  <1>6. RepliesTruthful' /\ ErrorsTruthful'
    BY <1>1, RepliesStep, ErrorsStep
  <1> QED BY <1>2, <1>3, <1>4, <1>5, <1>6 DEF IInv

(* A lease that runs out keeps it: its owner has ended, and nobody is      *)
(* about to claim the row of an earlier owner.                             *)
LEMMA ExpireKeeps ==
    ASSUME IInv, Timely, NEW k \in Keys, Expire(k)
    PROVE  IInv'
  <1> DEFINE row == rows[k]
             new == [row EXCEPT !.leased = FALSE]
  <1>1. /\ TypeOK /\ row \in Row /\ row.status = "PENDING"
        /\ pc[row.owner] \in {"dead", "done"}
        /\ rows' = [rows EXCEPT ![k] = new]
        /\ UNCHANGED <<committed, lock, pc, request, seen, result>>
        /\ \A d \in Calls : request[d].key = k => pc[d] \notin {"recover", "claim"}
    BY DEF IInv, TypeOK, Request, Expire, Timely, Claiming
  <1>2. /\ new \in Row /\ new.hash = row.hash /\ new.status = row.status
        /\ new.owner = row.owner /\ new.result = row.result
    BY <1>1, RowTypes DEF Row
  <1>3. \A l \in Keys : rows'[l] = IF l = k THEN new ELSE rows[l]
    BY <1>1 DEF TypeOK, Request
  <1> HIDE DEF new, row
  <1>4. TypeOK'
    BY <1>1, <1>2 DEF TypeOK, Request
  <1>5. \A l \in Keys : RowKnowledge(l)'
    BY <1>1, <1>2, <1>3, NoRowAssumption DEF IInv, RowKnowledge, Expired, row
  <1>6. ASSUME NEW d \in Calls
        PROVE  /\ ClaimKnowledge(d)' /\ OwnerKnowledge(d)'
               /\ CommitKnowledge(d)' /\ AnswerKnowledge(d)'
    <2>1. CASE request[d].key = k
      BY <1>1, <1>2, <1>3, <2>1, NoRowAssumption
      DEF IInv, ClaimKnowledge, OwnerKnowledge, CommitKnowledge, AnswerKnowledge,
          RowOf, Owns, SameRequest, Expired, OwnerPcs, GuardPcs, row, TypeOK, Request
    <2>2. CASE request[d].key # k
      BY <1>1, <1>3, <2>2
      DEF IInv, ClaimKnowledge, OwnerKnowledge, CommitKnowledge, AnswerKnowledge,
          RowOf, Owns, SameRequest, Expired, OwnerPcs, GuardPcs, TypeOK, Request
    <2> QED BY <2>1, <2>2
  <1>7. RepliesTruthful' /\ ErrorsTruthful'
    BY <1>1 DEF IInv, RepliesTruthful, ErrorsTruthful, Answered
  <1> QED BY <1>4, <1>5, <1>6, <1>7 DEF IInv

(* No call has done anything yet.                                          *)
LEMMA InitIInv == Init => IInv
  <1> SUFFICES ASSUME Init PROVE IInv
    OBVIOUS
  <1>1. TypeOK
    BY GatewayAssumption DEF Init, TypeOK, Request, Pcs, Answers
  <1>2. \A k \in Keys : RowKnowledge(k)
    BY DEF Init, RowKnowledge
  <1>3. \A c \in Calls : /\ ClaimKnowledge(c) /\ OwnerKnowledge(c)
                         /\ CommitKnowledge(c) /\ AnswerKnowledge(c)
    BY DEF Init, ClaimKnowledge, OwnerKnowledge, CommitKnowledge, AnswerKnowledge,
           OwnerPcs, GuardPcs
  <1>4. RepliesTruthful /\ ErrorsTruthful
    BY DEF Init, RepliesTruthful, ErrorsTruthful, Answered
  <1> QED BY <1>1, <1>2, <1>3, <1>4 DEF IInv

(* Every step of the gateway keeps it.                                     *)
LEMMA NextIInv ==
    ASSUME IInv, Timely, [Next]_vars
    PROVE  IInv'
  <1>1. CASE UNCHANGED vars
    BY <1>1 DEF vars, IInv, TypeOK, Request, RowKnowledge, ClaimKnowledge, OwnerKnowledge,
                CommitKnowledge, AnswerKnowledge, RepliesTruthful, ErrorsTruthful,
                Answered, RowOf, Owns, SameRequest
  <1>2. CASE Next
    BY <1>2, CallStepKeeps, ExpireKeeps DEF Next
  <1> QED BY <1>1, <1>2

-----------------------------------------------------------------------------
(* The invariant behind RepliesAgree.  It holds whoever stalls, and also   *)
(* when dispatch() raises late.                                            *)

\* The answer of a call is in the row of its key, which is finished.
AnswerInRow(c) ==
    Answered(c) => /\ RowOf(c) # NoRow
                   /\ RowOf(c).status = "COMPLETE"
                   /\ RowOf(c).result = result[c]

AgreeInv ==
    /\ TypeOK
    /\ \A c \in Calls : Returned(c) /\ AnswerInRow(c)

(* A finished row is left alone by every step of a call.                   *)
LEMMA FinishedRow ==
    ASSUME TypeOK, NEW c \in Calls, CallStep(c), NEW k \in Keys,
           rows[k] # NoRow, rows[k].status = "COMPLETE"
    PROVE  rows'[k] = rows[k]
  <1>1. \/ UNCHANGED rows
        \/ \E r : SetRow(c, r) /\ (RowOf(c) = NoRow \/ RowOf(c).status # "COMPLETE")
    BY DEF CallStep, Progress, Reserving, Dispatching, Start, Get, Reserve, Wait,
           Recover, RecoverFails, Claim, Expired, Enter, LockTimeout, Commit, Return,
           Fail, Release, Finalize, Complete, Owns, Renew, Crash,
           StorageFails
  <1> QED BY <1>1 DEF SetRow, RowOf, TypeOK, Request

(* A call ends with the result of its finished row, with the result it has *)
(* stored itself, or with none.                                            *)
LEMMA AnswersGiven ==
    ASSUME TypeOK, NEW c \in Calls, CallStep(c), Returned(c), AnswerInRow(c)
    PROVE  Returned(c)' /\ AnswerInRow(c)'
  <1> USE DEF TypeOK, Request, Pcs, GuardPcs, Goto, Finish, Answered
  <1>a. \A e \in Errors : Raised(e) \notin Results
    BY AnswerTypes
  <1>b. UNCHANGED <<rows, pc, request, result>> => Returned(c)' /\ AnswerInRow(c)'
    BY DEF Returned, AnswerInRow, RowOf
  <1>c. /\ UNCHANGED request
        /\ pc'[c] \notin {"finalize", "done"}
        => Returned(c)' /\ AnswerInRow(c)'
    BY DEF Returned, AnswerInRow
  <1>d. /\ UNCHANGED request
        /\ \E e \in Errors : Finish(c, Raised(e))
        => Returned(c)' /\ AnswerInRow(c)'
    BY <1>a DEF Returned, AnswerInRow
  <1>e. /\ UNCHANGED <<rows, request>>
        /\ RowOf(c) # NoRow
        /\ Examine(c)
        => Returned(c)' /\ AnswerInRow(c)'
    BY <1>a, <1>c DEF Examine, Returned, AnswerInRow, RowOf, Errors
  <1>1. CASE Start(c)
    BY <1>1, <1>c DEF Start
  <1>2. CASE Get(c)
    BY <1>2, <1>c, <1>e DEF Get
  <1>3. CASE Reserve(c)
    BY <1>3, <1>c, <1>e DEF Reserve
  <1>4. CASE Wait(c)
    BY <1>4, <1>c, <1>d, <1>e DEF Wait, Errors
  <1>5. CASE Recover(c)
    BY <1>5, <1>c, <1>d DEF Recover, Errors
  <1>6. CASE RecoverFails(c)
    BY <1>6, <1>d DEF RecoverFails, Errors
  <1>7. CASE Claim(c)
    BY <1>7, <1>c, <1>d DEF Claim, Errors
  <1>8. CASE Enter(c)
    BY <1>8, <1>c DEF Enter
  <1>9. CASE LockTimeout(c)
    BY <1>9, <1>c DEF LockTimeout
  <1>10. CASE Commit(c)
    BY <1>10, <1>c DEF Commit
  <1>11. CASE Return(c)
    BY <1>11 DEF Return, Returned, AnswerInRow, Results
  <1>12. CASE Fail(c)
    BY <1>12, <1>c DEF Fail
  <1>13. CASE Release(c)
    BY <1>13, <1>d DEF Release, Errors
  <1>14. CASE Finalize(c)
    <2>1. CASE Owns(c)
      <3>1. RowOf(c) \in Row /\ result[c] \in Results
        BY <1>14, <2>1, OwnerRow DEF Finalize, Returned
      <3>2. /\ RowOf(c)' = [RowOf(c) EXCEPT !.status = "COMPLETE",
                                            !.result = result[c],
                                            !.leased = FALSE]
            /\ result'[c] = result[c] /\ pc'[c] = "done"
        BY <1>14, <2>1 DEF Finalize, Complete, SetRow, RowOf
      <3>3. RowOf(c)' \in Row /\ RowOf(c)'.status = "COMPLETE"
            /\ RowOf(c)'.result = result[c]
        BY <3>1, <3>2, RowTypes DEF Row
      <3> QED BY <3>2, <3>3, NoRowAssumption DEF Returned, AnswerInRow
    <2>2. CASE ~Owns(c)
      BY <1>14, <2>2, <1>d DEF Finalize, Errors
    <2> QED BY <2>1, <2>2
  <1>15. CASE Renew(c)
    BY <1>15, <1>c DEF Renew
  <1>16. CASE Crash(c)
    BY <1>16, <1>c DEF Crash
  <1>17. CASE StorageFails(c)
    BY <1>17, <1>d DEF StorageFails, Errors
  <1> QED
    BY <1>1, <1>2, <1>3, <1>4, <1>5, <1>6, <1>7, <1>8, <1>9, <1>10, <1>11, <1>12,
       <1>13, <1>14, <1>15, <1>16, <1>17
    DEF CallStep, Progress, Reserving, Dispatching

(* A step of a call does not touch what other calls have been answered.    *)
LEMMA OtherAnswers ==
    ASSUME TypeOK, NEW c \in Calls, CallStep(c), NEW d \in Calls, d # c
    PROVE  pc'[d] = pc[d] /\ result'[d] = result[d]
  <1>1. result'[d] = result[d]
    BY AnswersWritten DEF TypeOK, Request
  <1>2. pc'[d] = pc[d]
    BY DEF CallStep, Progress, Reserving, Dispatching, Start, Get, Reserve, Wait,
           Recover, RecoverFails, Claim, Enter, LockTimeout, Commit, Return, Fail,
           Release, Finalize, Renew, Crash, StorageFails, Examine, Finish, Goto, TypeOK, Request
  <1> QED BY <1>1, <1>2

(* Every step of the gateway keeps it.                                     *)
LEMMA NextAgree ==
    ASSUME AgreeInv, [Next]_vars
    PROVE  AgreeInv'
  <1>1. ASSUME NEW c \in Calls, CallStep(c) PROVE AgreeInv'
    <2>1. TypeOK' /\ request' = request
      BY <1>1, CallStepTypes, ControlTypes DEF AgreeInv
    <2>2. Returned(c)' /\ AnswerInRow(c)'
      BY <1>1, AnswersGiven DEF AgreeInv
    <2>3. ASSUME NEW d \in Calls, d # c PROVE Returned(d)' /\ AnswerInRow(d)'
      <3>1. pc'[d] = pc[d] /\ result'[d] = result[d]
        BY <1>1, <2>3, OtherAnswers DEF AgreeInv
      <3>2. Answered(d) => RowOf(d)' = RowOf(d)
        BY <1>1, <2>1, FinishedRow DEF AgreeInv, AnswerInRow, RowOf, TypeOK, Request
      <3> QED BY <3>1, <3>2 DEF AgreeInv, Returned, AnswerInRow, Answered
    <2> QED BY <2>1, <2>2, <2>3 DEF AgreeInv
  <1>2. ASSUME NEW k \in Keys, Expire(k) PROVE AgreeInv'
    <2>1. /\ TypeOK /\ rows[k] \in Row /\ rows[k].status = "PENDING"
          /\ rows' = [rows EXCEPT ![k] = [rows[k] EXCEPT !.leased = FALSE]]
          /\ UNCHANGED <<committed, lock, pc, request, seen, result>>
      BY <1>2 DEF AgreeInv, Expire, TypeOK, Request
    <2>2. TypeOK'
      BY <2>1, RowTypes DEF TypeOK, Request
    <2>3. ASSUME NEW d \in Calls PROVE Returned(d)' /\ AnswerInRow(d)'
      <3>1. Answered(d) => RowOf(d)' = RowOf(d)
        BY <2>1 DEF AgreeInv, AnswerInRow, RowOf, TypeOK, Request
      <3> QED BY <2>1, <3>1 DEF AgreeInv, Returned, AnswerInRow, Answered
    <2> QED BY <2>2, <2>3 DEF AgreeInv
  <1>3. CASE UNCHANGED vars
    BY <1>3 DEF vars, AgreeInv, TypeOK, Request, Returned, AnswerInRow, Answered, RowOf
  <1> QED BY <1>1, <1>2, <1>3 DEF Next

(* And it holds at the start.                                              *)
LEMMA InitAgree == Init => AgreeInv
  BY InitIInv DEF Init, IInv, AgreeInv, Returned, AnswerInRow, Answered

-----------------------------------------------------------------------------
(* The theorems.                                                           *)

(* The inductive invariant holds in every reachable state.                 *)
THEOREM InductiveInvariant ==
    ASSUME Timely
    PROVE  Spec => []IInv
  <1>1. Init => IInv
    BY InitIInv
  <1>2. IInv /\ [Next]_vars => IInv'
    BY NextIInv
  <1> QED BY <1>1, <1>2, PTL DEF Spec

(* Whoever stalls: an answer is in the finished row of its key.            *)
THEOREM Agreement == Spec => []AgreeInv
  <1>1. AgreeInv /\ [Next]_vars => AgreeInv'
    BY NextAgree
  <1> QED BY InitAgree, <1>1, PTL DEF Spec

(* Every variable keeps its type.                                          *)
THEOREM TypeCorrect == Spec => []TypeOK
  <1>1. AgreeInv => TypeOK
    BY DEF AgreeInv
  <1> QED BY <1>1, Agreement, PTL

(* No idempotency key is executed twice: both commits would own its row.   *)
THEOREM KeyExecutedOnce ==
    ASSUME Timely
    PROVE  Spec => []OneCommitPerKey
  <1>1. IInv => OneCommitPerKey
    BY DEF IInv, TypeOK, Request, CommitKnowledge, OneCommitPerKey, RowOf
  <1> QED BY <1>1, InductiveInvariant, PTL

(* No two calls dispatch for one key at a time: both would own its row.    *)
THEOREM ExecutorsExclude ==
    ASSUME Timely
    PROVE  Spec => []OneExecutor
  <1>1. IInv => OneExecutor
    BY DEF IInv, OwnerKnowledge, Owns, RowOf, OwnerPcs, OneExecutor
  <1> QED BY <1>1, InductiveInvariant, PTL

(* A result is the result of a command that ran for this very request.     *)
THEOREM RepliesHold ==
    ASSUME Timely
    PROVE  Spec => []RepliesTruthful
  <1>1. IInv => RepliesTruthful
    BY DEF IInv
  <1> QED BY <1>1, InductiveInvariant, PTL

(* A call that raised has not committed, unless the store failed or it     *)
(* lost its row; a refusal names a commit.                                 *)
THEOREM ErrorsHold ==
    ASSUME Timely
    PROVE  Spec => []ErrorsTruthful
  <1>1. IInv => ErrorsTruthful
    BY DEF IInv
  <1> QED BY <1>1, InductiveInvariant, PTL

(* Whoever stalls, and although dispatch() may raise late: all callers of  *)
(* a key that get a result get the one that its finished row keeps.        *)
THEOREM AnswersAgree == Spec => []RepliesAgree
  <1>1. AgreeInv => RepliesAgree
    BY DEF AgreeInv, AnswerInRow, RepliesAgree, RowOf
  <1> QED BY <1>1, Agreement, PTL

(* Without any assumption on who stalls: a finished row is left alone by   *)
(* every step.                                                             *)
THEOREM FinishedStays == Spec => CompleteIsFinal
  <1> DEFINE Table == DOMAIN rows = Keys
             Stays == \A k \in Keys :
                 (rows[k] # NoRow /\ rows[k].status = "COMPLETE") => rows'[k] = rows[k]
  <1>1. Init => Table
    BY DEF Init
  <1>2. ASSUME NEW c \in Calls, CallStep(c), Table PROVE Table' /\ Stays
    <2>1. \/ UNCHANGED rows
          \/ \E r : SetRow(c, r) /\ (RowOf(c) = NoRow \/ RowOf(c).status # "COMPLETE")
      BY <1>2 DEF CallStep, Progress, Reserving, Dispatching, Start, Get, Reserve,
                  Wait, Recover, RecoverFails, Claim, Expired, Enter, LockTimeout,
                  Commit, Return, Fail, Release, Finalize, Complete, Owns, Renew, Crash,
           StorageFails
    <2>2. CASE UNCHANGED rows
      BY <1>2, <2>2
    <2>3. ASSUME NEW r, SetRow(c, r), RowOf(c) = NoRow \/ RowOf(c).status # "COMPLETE"
          PROVE  Table' /\ Stays
      <3>1. Table'
        BY <1>2, <2>3 DEF SetRow
      <3>2. ASSUME NEW k \in Keys, k # request[c].key PROVE rows'[k] = rows[k]
        BY <1>2, <2>3, <3>2 DEF SetRow
      <3> QED BY <2>3, <3>1, <3>2 DEF RowOf
    <2> QED BY <2>1, <2>2, <2>3
  <1>3. ASSUME NEW k \in Keys, Expire(k), Table PROVE Table' /\ Stays
    BY <1>3 DEF Expire
  <1>4. Table /\ [Next]_vars => Table' /\ [Stays]_vars
    BY <1>2, <1>3 DEF Next, vars
  <1> QED BY <1>1, <1>4, PTL DEF Spec, CompleteIsFinal

(* A reservation whose lease is running is changed by its owner only.      *)
THEOREM LeasesRespected ==
    ASSUME Timely
    PROVE  Spec => LeaseRespected
  <1> DEFINE Respects == \A k \in Keys :
          (rows[k] # NoRow /\ rows[k].status = "PENDING" /\ rows[k].leased) =>
              \/ rows'[k] = rows[k]
              \/ rows'[k] = [rows[k] EXCEPT !.leased = FALSE]
              \/ pc'[rows[k].owner] # pc[rows[k].owner]
  <1>1. ASSUME NEW c \in Calls, CallStep(c), TypeOK PROVE Respects
    <2>1. \/ UNCHANGED rows
          \/ \E r : SetRow(c, r) /\ (RowOf(c) = NoRow \/ ~RowOf(c).leased)
          \/ \E r : SetRow(c, r) /\ RowOf(c).owner = c /\ pc'[c] # pc[c]
      BY <1>1 DEF CallStep, Progress, Reserving, Dispatching, Start, Get, Reserve,
                  Wait, Recover, RecoverFails, Claim, Expired, Enter, LockTimeout,
                  Commit, Return, Fail, Release, Finalize, Complete, Finish, Goto, Owns,
                  Renew, Crash, StorageFails, TypeOK, Request
    <2>2. ASSUME NEW r, SetRow(c, r),
                 \/ RowOf(c) = NoRow \/ ~RowOf(c).leased
                 \/ RowOf(c).owner = c /\ pc'[c] # pc[c]
          PROVE  Respects
      <3>1. ASSUME NEW k \in Keys, k # request[c].key PROVE rows'[k] = rows[k]
        BY <1>1, <2>2, <3>1 DEF SetRow, TypeOK, Request
      <3> QED BY <2>2, <3>1 DEF RowOf
    <2> QED BY <2>1, <2>2
  <1>2. ASSUME NEW k \in Keys, Expire(k), TypeOK PROVE Respects
    BY <1>2 DEF Expire, TypeOK, Request
  <1>3. TypeOK /\ [Next]_vars => [Respects]_vars
    BY <1>1, <1>2 DEF Next
  <1> QED BY <1>3, TypeCorrect, PTL DEF Spec, LeaseRespected
=============================================================================
