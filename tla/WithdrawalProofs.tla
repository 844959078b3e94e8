-------------------------- MODULE WithdrawalProofs --------------------------
(***************************************************************************)
(* Proofs about Withdrawal for every set of payments, refunds, fees and    *)
(* requests: a withdrawn profile stays withdrawn, a profile that is back   *)
(* in draft has no refund of its withdrawal open, and a withdrawal takes   *)
(* all the money with it.                                                  *)
(*                                                                         *)
(* The first two rest on the profile's lock: what a withdrawal or a        *)
(* cancellation has read of the profile is still true when it writes       *)
(* (ReadersHoldRow), and the refunds a cancellation has read are all that  *)
(* are open (CancelSeesAll).  The money rests on what each fee has: the    *)
(* verified payments less what was refunded of them (Accounted), none of   *)
(* them refunded for more than it is (Bounded), and on what the requests   *)
(* hold or have read of it (Hands).  That all of a waiting profile's money *)
(* is on its way needs the withdrawal's own reading of the remainders      *)
(* (Schedule).                                                             *)
(***************************************************************************)
EXTENDS Withdrawal, LedgerMathProofs

\* A refund that is open has a source: a row, not the record of one that is absent.
Shaped(t) ==
    /\ "status" \in DOMAIN t
    /\ t.status \in {"pending", "approved"} => "source" \in DOMAIN t
    /\ t = [f \in DOMAIN t |-> t[f]]

Tabled(table) ==
    /\ DOMAIN table = Refunds /\ table = [r \in Refunds |-> table[r]]
    /\ \A r \in Refunds : Shaped(table[r])

Functional == DOMAIN req = Requests /\ req = [q \in Requests |-> req[q]] /\ Tabled(refund)

\* A request between its read and its write of the profile holds the row, and the
\* status is the one it read.
ReadersHoldRow ==
    \A q \in Requests :
        /\ req[q].at = "withdraw" => profileLock = q /\ status \in {"draft", "admitted"}
        /\ req[q].at = "cancel" => profileLock = q /\ status = "withdrawal_pending"

CancelSeesAll ==
    \A q \in Requests : req[q].at = "cancel" => OpenWithdrawal \subseteq req[q].rows

\* A profile that may be withdrawn has no refund of an earlier withdrawal open.
RevivedHasNoOpenRefund == status \in {"draft", "admitted"} => OpenWithdrawal = {}

Inv == Functional /\ ReadersHoldRow /\ CancelSeesAll /\ RevivedHasNoOpenRefund

\* The initial state satisfies the invariant.
LEMMA InitInv == Init => Inv
  <1> SUFFICES ASSUME Init PROVE Inv
    OBVIOUS
  <1>1. Shaped([status |-> "absent"])
    BY DEF Shaped
  <1>2. Functional
    BY <1>1 DEF Init, Functional, Tabled
  <1>3. ReadersHoldRow /\ CancelSeesAll /\ RevivedHasNoOpenRefund
    BY DEF Init, ReadersHoldRow, CancelSeesAll, RevivedHasNoOpenRefund, OpenWithdrawal, Idle
  <1> QED BY <1>2, <1>3 DEF Inv

\* A new status leaves the other columns of a refund alone.
LEMMA StatusUpdate ==
    ASSUME NEW t, Shaped(t), NEW s \in {"approved", "rejected", "refunded"},
           s = "approved" => t.status = "pending"
    PROVE  /\ Shaped([t EXCEPT !.status = s])
           /\ [t EXCEPT !.status = s].status = s
           /\ s = "approved" => [t EXCEPT !.status = s].source = t.source
  <1> DEFINE u == [t EXCEPT !.status = s]
  <1>1. DOMAIN u = DOMAIN t /\ u = [f \in DOMAIN u |-> u[f]]
    BY DEF Shaped
  <1>2. u.status = s
    BY DEF Shaped
  <1>3. s = "approved" => "source" \in DOMAIN t /\ u.source = t.source
    BY DEF Shaped
  <1> HIDE DEF u
  <1>4. Shaped(u)
    BY <1>1, <1>2, <1>3 DEF Shaped
  <1> QED BY <1>2, <1>3, <1>4 DEF u

\* The new status of one refund opens none.
LEMMA OneRefund ==
    ASSUME Tabled(refund), NEW r \in Refunds, NEW s \in {"approved", "rejected", "refunded"},
           s = "approved" => refund[r].status = "pending",
           refund' = [refund EXCEPT ![r].status = s]
    PROVE  Tabled(refund') /\ OpenWithdrawal' \subseteq OpenWithdrawal
  <1>1. /\ Shaped(refund'[r]) /\ refund'[r].status = s
        /\ s = "approved" => refund'[r].source = refund[r].source
    <2>1. refund'[r] = [refund[r] EXCEPT !.status = s]
      BY DEF Tabled
    <2>2. Shaped(refund[r])
      BY DEF Tabled
    <2>3. /\ Shaped([refund[r] EXCEPT !.status = s])
          /\ [refund[r] EXCEPT !.status = s].status = s
          /\ s = "approved" => [refund[r] EXCEPT !.status = s].source = refund[r].source
      BY <2>2, StatusUpdate
    <2> QED BY <2>1, <2>3, Zenon
  <1>2. /\ DOMAIN refund' = Refunds /\ refund' = [o \in Refunds |-> refund'[o]]
        /\ \A o \in Refunds \ {r} : refund'[o] = refund[o]
    BY DEF Tabled
  <1>3. Tabled(refund')
    BY <1>1, <1>2 DEF Tabled
  <1>4. OpenWithdrawal' \subseteq OpenWithdrawal
    BY <1>1, <1>2 DEF OpenWithdrawal
  <1> QED BY <1>3, <1>4

\* What a step that touches neither the profile nor its lock does to a request: it
\* stays where it was, or goes to a place that needs no lock.
Elsewhere(q) ==
    \/ req'[q] = req[q]
    \/ req'[q].at \in {"idle", "process", "verify", "void", "cleanup"}

\* Nothing that touches no refund opens one.
LEMMA SameRefunds == ASSUME UNCHANGED refund PROVE OpenWithdrawal' = OpenWithdrawal
  BY DEF OpenWithdrawal

\* Payments, requests for refunds and their approval leave the profile and every
\* lock of its row alone, and file no refund of a withdrawal.
LEMMA MoneySteps ==
    ASSUME Inv, UNCHANGED <<status, profileLock>>,
           Functional', \A q \in Requests : Elsewhere(q),
           OpenWithdrawal' \subseteq OpenWithdrawal
    PROVE  Inv'
  <1>1. ReadersHoldRow'
    BY DEF Inv, ReadersHoldRow, Elsewhere
  <1>2. CancelSeesAll' /\ RevivedHasNoOpenRefund'
    BY DEF Inv, CancelSeesAll, RevivedHasNoOpenRefund, Elsewhere
  <1> QED BY <1>1, <1>2 DEF Inv

\* The end of a request leaves the lock to those that hold it.
LEMMA Returned ==
    ASSUME Inv, NEW q \in Requests, Return(q)
    PROVE  /\ DOMAIN req' = Requests /\ req' = [o \in Requests |-> req'[o]]
           /\ req'[q] = Idle
           /\ \A o \in Requests \ {q} : req'[o] = req[o]
           /\ \A o \in Requests \ {q} : profileLock = o => profileLock' = o
  BY DEF Inv, Functional, Return, Release, Idle

\* A request that ends without changing the profile keeps the invariant when it opens
\* no refund.
LEMMA EndKeepsInv ==
    ASSUME Inv, NEW q \in Requests, Return(q), UNCHANGED status,
           Tabled(refund'), OpenWithdrawal' \subseteq OpenWithdrawal
    PROVE  Inv'
  <1>1. /\ DOMAIN req' = Requests /\ req' = [o \in Requests |-> req'[o]]
        /\ req'[q].at = "idle"
        /\ \A o \in Requests \ {q} : req'[o] = req[o]
        /\ \A o \in Requests \ {q} : profileLock = o => profileLock' = o
    BY Returned DEF Idle
  <1>2. Functional'
    BY <1>1 DEF Functional
  <1>3. ReadersHoldRow'
    BY <1>1 DEF Inv, ReadersHoldRow
  <1>4. CancelSeesAll' /\ RevivedHasNoOpenRefund'
    BY <1>1 DEF Inv, CancelSeesAll, RevivedHasNoOpenRefund
  <1> QED BY <1>2, <1>3, <1>4 DEF Inv

\* Where nobody reads the profile under its lock, a change of its status that opens no
\* refund, or leaves it outside draft and admitted, keeps the invariant.
LEMMA MoveKeepsInv ==
    ASSUME Functional', \A q \in Requests : req'[q].at \notin {"withdraw", "cancel"},
           status' \in {"draft", "admitted"} => OpenWithdrawal' = {}
    PROVE  Inv'
  BY DEF Inv, ReadersHoldRow, CancelSeesAll, RevivedHasNoOpenRefund

\* Every action keeps the invariant.
LEMMA StepInv == Inv /\ [Next]_vars => Inv'
  <1> SUFFICES ASSUME Inv, [Next]_vars PROVE Inv'
    OBVIOUS
  <1> USE DEF books, locks
  <1>0. Functional
    BY DEF Inv
  <1>nobody. \A q \in Requests : q # Nobody
    BY WithdrawalConstants
  <1>free. profileLock = Nobody =>
             \A q \in Requests : req[q].at \notin {"withdraw", "cancel"}
    BY <1>nobody DEF Inv, ReadersHoldRow
  <1>held. \A q \in Requests : req[q].at \in {"withdraw", "cancel"} =>
             \A o \in Requests \ {q} : req[o].at \notin {"withdraw", "cancel"}
    BY DEF Inv, ReadersHoldRow
  <1>1. ASSUME NEW p \in Payments, RecordPayment(p) \/ RejectPayment(p) PROVE Inv'
    <2>1. UNCHANGED <<status, profileLock, req, refund>>
      BY <1>1 DEF RecordPayment, RejectPayment
    <2> QED BY <2>1, <1>0, SameRefunds, MoneySteps DEF Functional, Elsewhere
  <1>2. CASE ImportPayments
    <2>1. UNCHANGED <<status, profileLock, req, refund>>
      BY <1>2 DEF ImportPayments
    <2> QED BY <2>1, <1>0, SameRefunds, MoneySteps DEF Functional, Elsewhere
  <1>3. ASSUME NEW r \in Refunds, NEW p \in Payments, NEW a \in 1..Amount[p],
               RequestRefund(r, p, a)
        PROVE  Inv'
    <2>1. UNCHANGED <<status, profileLock, req>>
      BY <1>3 DEF RequestRefund
    <2>2. refund' = [refund EXCEPT ![r] = File(p, a, "manual")]
      BY <1>3 DEF RequestRefund
    <2>3. OpenWithdrawal' \subseteq OpenWithdrawal
      BY <2>2, <1>0 DEF OpenWithdrawal, File, Functional, Tabled
    <2>4. Shaped(File(p, a, "manual"))
      BY DEF Shaped, File
    <2>5. Functional'
      BY <2>1, <2>2, <2>4, <1>0 DEF Functional, Tabled
    <2> QED BY <2>1, <2>3, <2>5, MoneySteps DEF Elsewhere
  <1>4. ASSUME NEW r \in Refunds, ApproveRefund(r) \/ RejectRefund(r) PROVE Inv'
    <2>1. UNCHANGED <<status, profileLock, req>>
      BY <1>4 DEF ApproveRefund, RejectRefund
    <2>2. PICK s \in {"approved", "rejected"} :
             /\ s = "approved" => refund[r].status = "pending"
             /\ refund' = [refund EXCEPT ![r].status = s]
      BY <1>4 DEF ApproveRefund, RejectRefund
    <2>3. Tabled(refund') /\ OpenWithdrawal' \subseteq OpenWithdrawal
      BY <2>2, <1>0, OneRefund DEF Functional
    <2>4. Functional'
      BY <2>1, <2>3, <1>0 DEF Functional
    <2> QED BY <2>1, <2>3, <2>4, MoneySteps DEF Elsewhere
  <1>5. CASE Admit \/ Rollback
    <2>1. /\ profileLock = Nobody
          /\ status \in {"draft", "admitted"}
          /\ UNCHANGED <<req, refund>>
      BY <1>5 DEF Admit, Rollback
    <2>2. OpenWithdrawal' = {}
      BY <2>1, SameRefunds DEF Inv, RevivedHasNoOpenRefund
    <2>3. Functional' /\ \A q \in Requests : req'[q].at \notin {"withdraw", "cancel"}
      BY <2>1, <1>0, <1>free DEF Functional
    <2> QED BY <2>2, <2>3, MoveKeepsInv
  <1>6. ASSUME NEW q \in Requests, NEW p \in Payments, VerifyBegin(q, p) PROVE Inv'
    <2>1. UNCHANGED <<status, profileLock, refund>>
      BY <1>6 DEF VerifyBegin
    <2>2. req' = [req EXCEPT ![q] = [Idle EXCEPT !.at = "verify", !.row = p]]
      BY <1>6 DEF VerifyBegin
    <2>3. Functional' /\ \A o \in Requests : Elsewhere(o)
      BY <2>1, <2>2, <1>0 DEF Functional, Elsewhere, Idle
    <2> QED BY <2>1, <2>3, SameRefunds, MoneySteps
  <1>7. ASSUME NEW q \in Requests, NEW r \in Refunds, ProcessBegin(q, r) PROVE Inv'
    <2>1. UNCHANGED <<status, profileLock, refund>>
      BY <1>7 DEF ProcessBegin
    <2>2. req' = [req EXCEPT ![q] = [Idle EXCEPT !.at = "process", !.row = r]]
      BY <1>7 DEF ProcessBegin
    <2>3. Functional' /\ \A o \in Requests : Elsewhere(o)
      BY <2>1, <2>2, <1>0 DEF Functional, Elsewhere, Idle
    <2> QED BY <2>1, <2>3, SameRefunds, MoneySteps
  <1>8. ASSUME NEW q \in Requests, NEW f \in Fees, CancelPhantomFee(q, f) PROVE Inv'
    <2>1. UNCHANGED <<status, profileLock, req, refund>>
      BY <1>8 DEF CancelPhantomFee
    <2> QED BY <2>1, <1>0, SameRefunds, MoneySteps DEF Functional, Elsewhere
  <1>9. ASSUME NEW q \in Requests, VoidBegin(q) PROVE Inv'
    <2>1. UNCHANGED <<status, profileLock, refund>>
      BY <1>9 DEF VoidBegin
    <2>2. req' = [req EXCEPT ![q] = [Idle EXCEPT !.at = "void"]]
      BY <1>9 DEF VoidBegin
    <2>3. Functional' /\ \A o \in Requests : Elsewhere(o)
      BY <2>1, <2>2, <1>0 DEF Functional, Elsewhere, Idle
    <2> QED BY <2>1, <2>3, SameRefunds, MoneySteps
  <1>10. ASSUME NEW q \in Requests, VerifyCommit(q) \/ VoidCommit(q) \/ Fail(q) PROVE Inv'
    <2>1. Return(q) /\ UNCHANGED <<status, refund>>
      BY <1>10 DEF VerifyCommit, VoidCommit, Fail
    <2> QED BY <2>1, <1>0, SameRefunds, EndKeepsInv DEF Functional
  <1>11. ASSUME NEW q \in Requests, ProcessCommit(q) PROVE Inv'
    <2> DEFINE r == req[q].row
    <2>1. /\ req[q].at = "process"
          /\ ProfileFree(q)
          /\ refund' = [refund EXCEPT ![r].status = "refunded"]
          /\ Release(q)
      BY <1>11 DEF ProcessCommit
    <2>2. \/ /\ UNCHANGED status
             /\ req' = [req EXCEPT ![q] = Idle]
          \/ /\ status' = "withdrawn"
             /\ req' = [req EXCEPT ![q] = [Idle EXCEPT !.at = "cleanup"]]
      BY <1>11 DEF ProcessCommit, MoveTo
    <2>3. Tabled(refund') /\ OpenWithdrawal' \subseteq OpenWithdrawal
      <3>1. CASE r \in Refunds
        BY <2>1, <3>1, <1>0, OneRefund DEF Functional
      <3>2. CASE r \notin Refunds
        <4>1. refund' = refund
          BY <2>1, <3>2, <1>0 DEF Functional, Tabled
        <4> QED BY <4>1, <1>0, SameRefunds DEF Functional
      <3> QED BY <3>1, <3>2
    <2>4. Functional'
      BY <2>1, <2>2, <2>3, <1>0 DEF Functional
    <2>5. CASE UNCHANGED status /\ req' = [req EXCEPT ![q] = Idle]
      BY <2>1, <2>3, <2>4, <2>5, EndKeepsInv DEF Return, Functional
    <2>6. CASE /\ status' = "withdrawn"
               /\ req' = [req EXCEPT ![q] = [Idle EXCEPT !.at = "cleanup"]]
      <3>1. \A o \in Requests \ {q} : profileLock # o
        BY <2>1, <1>nobody DEF ProfileFree
      <3>2. \A o \in Requests : req'[o].at \notin {"withdraw", "cancel"}
        BY <2>6, <3>1, <1>0 DEF Inv, ReadersHoldRow, Functional, Idle
      <3> QED BY <2>4, <2>6, <3>2, MoveKeepsInv
    <2> QED BY <2>2, <2>5, <2>6
  <1>12. ASSUME NEW q \in Requests, WithdrawBegin(q) PROVE Inv'
    <2> DEFINE due == [p \in Payments |-> IF p \in Returnable THEN Available(p) ELSE 0]
    <2>1. /\ profileLock = Nobody /\ profileLock' = q
          /\ status \in {"draft", "admitted"}
          /\ UNCHANGED <<status, refund>>
          /\ req' = [req EXCEPT ![q] = [Idle EXCEPT !.at = "withdraw", !.due = due]]
      BY <1>12 DEF WithdrawBegin
    <2> HIDE DEF due
    <2>2. Functional'
      BY <2>1, <1>0 DEF Functional
    <2>3. req'[q].at = "withdraw" /\ \A o \in Requests \ {q} : req'[o] = req[o]
      BY <2>1, <1>0 DEF Functional, Idle
    <2>4. ReadersHoldRow' /\ CancelSeesAll'
      BY <2>1, <2>3, <1>free DEF ReadersHoldRow, CancelSeesAll
    <2>5. RevivedHasNoOpenRefund'
      BY <2>1, SameRefunds DEF Inv, RevivedHasNoOpenRefund
    <2> QED BY <2>2, <2>4, <2>5 DEF Inv
  <1>13. ASSUME NEW q \in Requests, CancelBegin(q) PROVE Inv'
    <2>1. /\ profileLock = Nobody /\ profileLock' = q
          /\ status = "withdrawal_pending"
          /\ UNCHANGED <<status, refund>>
          /\ req' = [req EXCEPT ![q] = [Idle EXCEPT !.at = "cancel", !.rows = OpenWithdrawal]]
      BY <1>13 DEF CancelBegin
    <2>2. Functional'
      BY <2>1, <1>0 DEF Functional
    <2>3. /\ req'[q].at = "cancel" /\ req'[q].rows = OpenWithdrawal
          /\ \A o \in Requests \ {q} : req'[o] = req[o]
      BY <2>1, <1>0 DEF Functional, Idle
    <2>4. ReadersHoldRow'
      BY <2>1, <2>3, <1>free DEF ReadersHoldRow
    <2>5. CancelSeesAll'
      BY <2>1, <2>3, <1>free, SameRefunds DEF CancelSeesAll
    <2>6. RevivedHasNoOpenRefund'
      BY <2>1 DEF RevivedHasNoOpenRefund
    <2> QED BY <2>2, <2>4, <2>5, <2>6 DEF Inv
  <1>14. ASSUME NEW q \in Requests, WithdrawDirectly(q) \/ WithdrawCommit(q) PROVE Inv'
    <2>1. /\ req[q].at = "withdraw"
          /\ Return(q)
          /\ status' \in {"withdrawal_pending", "withdrawn"}
      BY <1>14 DEF WithdrawDirectly, WithdrawCommit, MoveTo
    <2>2. Tabled(refund')
      <3>1. CASE WithdrawDirectly(q)
        BY <3>1, <1>0 DEF WithdrawDirectly, Functional
      <3>2. CASE WithdrawCommit(q)
        <4>1. \A p, a : Shaped(File(p, a, "withdrawal"))
          BY DEF Shaped, File
        <4>2. PICK of :
                refund' = [r \in Refunds |->
                    IF r \in DOMAIN of THEN File(of[r], req[q].due[of[r]], "withdrawal")
                    ELSE refund[r]]
          BY <3>2 DEF WithdrawCommit
        <4> QED BY <4>1, <4>2, <1>0 DEF Functional, Tabled
      <3> QED BY <1>14, <3>1, <3>2
    <2>3. \A o \in Requests : req'[o].at \notin {"withdraw", "cancel"}
      BY <2>1, <1>held, Returned DEF Idle
    <2>4. Functional'
      BY <2>1, <2>2, Returned DEF Functional
    <2> QED BY <2>1, <2>3, <2>4, MoveKeepsInv
  <1>15. ASSUME NEW q \in Requests, CancelCommit(q) PROVE Inv'
    <2>1. /\ req[q].at = "cancel"
          /\ Return(q)
          /\ refund' = [r \in Refunds |->
               IF r \in req[q].rows THEN [refund[r] EXCEPT !.status = "rejected"] ELSE refund[r]]
      BY <1>15 DEF CancelCommit
    <2>2. \A o \in Requests : req'[o].at \notin {"withdraw", "cancel"}
      BY <2>1, <1>held, Returned DEF Idle
    <2>3. \A r \in Refunds : refund'[r].status \in {"pending", "approved"} =>
             r \notin req[q].rows /\ refund'[r] = refund[r]
      <3>1. \A r \in Refunds : [refund[r] EXCEPT !.status = "rejected"].status = "rejected"
        BY <1>0, StatusUpdate DEF Functional, Tabled
      <3> QED BY <2>1, <3>1
    <2>4. OpenWithdrawal' \subseteq OpenWithdrawal \ req[q].rows
      BY <2>3 DEF OpenWithdrawal
    <2>5. OpenWithdrawal' = {}
      BY <2>1, <2>4 DEF Inv, CancelSeesAll
    <2>6. Tabled(refund')
      <3>1. \A r \in Refunds : Shaped([refund[r] EXCEPT !.status = "rejected"])
        BY <1>0, StatusUpdate DEF Functional, Tabled
      <3> QED BY <2>1, <3>1, <1>0 DEF Functional, Tabled
    <2>7. Functional'
      BY <2>1, <2>6, Returned DEF Functional
    <2> QED BY <2>2, <2>5, <2>7, MoveKeepsInv
  <1>16. CASE UNCHANGED vars
    BY <1>16, <1>0, SameRefunds, MoneySteps DEF vars, Functional, Elsewhere
  <1> QED
    BY <1>1, <1>2, <1>3, <1>4, <1>5, <1>6, <1>7, <1>8, <1>9, <1>10, <1>11, <1>12, <1>13,
       <1>14, <1>15, <1>16 DEF Next

\* In every reachable state requests that read the profile hold its row, a cancellation
\* has seen every open refund, and a profile in draft or admitted has none.
THEOREM InvHolds == Spec => []Inv
  BY InitInv, StepInv, PTL DEF Spec

\* A profile brought back to draft (cancel_withdrawal, admin_rollback_profile) has no
\* refund of its withdrawal that finance could still pay out.
THEOREM RevivedProfileKeepsItsMoney == Spec => []RevivedHasNoOpenRefund
  <1>1. Inv => RevivedHasNoOpenRefund
    BY DEF Inv
  <1> QED BY <1>1, InvHolds, PTL

\* No request brings a withdrawn profile back, whatever it read before it waited.
THEOREM WithdrawnStays == Spec => WithdrawnIsFinal
  <1>1. Inv /\ [Next]_vars => [status = "withdrawn" => status' = "withdrawn"]_status
    <2> SUFFICES ASSUME Inv, Next, status = "withdrawn"
                 PROVE  status' = "withdrawn"
      BY DEF vars
    <2>1. \A q \in Requests : req[q].at \notin {"withdraw", "cancel"}
      BY DEF Inv, ReadersHoldRow
    <2>2. ~Admit /\ ~Rollback
      BY DEF Admit, Rollback
    <2>3. \A q \in Requests : ~WithdrawDirectly(q) /\ ~WithdrawCommit(q) /\ ~CancelCommit(q)
      BY <2>1 DEF WithdrawDirectly, WithdrawCommit, CancelCommit
    <2>4. ASSUME NEW q \in Requests, ProcessCommit(q) PROVE status' = status
      BY <2>4 DEF ProcessCommit
    <2>5. ASSUME NEW p \in Payments, RecordPayment(p) \/ RejectPayment(p)
          PROVE  status' = status
      BY <2>5 DEF RecordPayment, RejectPayment
    <2>6. ASSUME NEW r \in Refunds, NEW p \in Payments, NEW a \in 1..Amount[p],
                 RequestRefund(r, p, a)
          PROVE  status' = status
      BY <2>6 DEF RequestRefund
    <2>7. ASSUME NEW r \in Refunds, ApproveRefund(r) \/ RejectRefund(r)
          PROVE  status' = status
      BY <2>7 DEF ApproveRefund, RejectRefund
    <2>8. ASSUME NEW q \in Requests,
                 \/ \E p \in Payments : VerifyBegin(q, p)
                 \/ \E r \in Refunds : ProcessBegin(q, r)
                 \/ \E f \in Fees : CancelPhantomFee(q, f)
                 \/ VerifyCommit(q) \/ VoidBegin(q) \/ VoidCommit(q)
                 \/ WithdrawBegin(q) \/ CancelBegin(q) \/ Fail(q)
          PROVE  status' = status
      BY <2>8 DEF VerifyBegin, ProcessBegin, CancelPhantomFee, VerifyCommit, VoidBegin,
                  VoidCommit, WithdrawBegin, CancelBegin, Fail
    <2>9. ImportPayments => status' = status
      BY DEF ImportPayments
    <2> QED BY <2>2, <2>3, <2>4, <2>5, <2>6, <2>7, <2>8, <2>9 DEF Next
  <1> QED BY <1>1, InvHolds, PTL DEF Spec, WithdrawnIsFinal

-----------------------------------------------------------------------------
(* Totals of refunds *)

\* The parts of a total of refunds, for any table t of them: a refund of p in one
\* of the statuses counts for its amount.
Counted(t, p, statuses) ==
    [r \in Refunds |->
        IF t[r].status \in statuses /\ t[r].payment = p THEN t[r].amount ELSE 0]

Total(t, p, statuses) == SumFunctionOnSet(Counted(t, p, statuses), Refunds)

RefundTable == [Refunds -> Refund]

\* A refund that was filed has all its columns; one that was not has only its status.
LEMMA Row ==
    ASSUME NEW t \in Refund
    PROVE  /\ t.status \in {"absent", "pending", "approved", "refunded", "rejected"}
           /\ t.status # "absent" =>
                /\ t.payment \in Payments /\ t.amount \in Nat \ {0}
                /\ t.source \in {"manual", "withdrawal"}
                /\ t \in [payment : Payments, amount : Nat \ {0},
                          source : {"manual", "withdrawal"},
                          status : {"pending", "approved", "refunded", "rejected"}]
  BY DEF Refund

\* A decision leaves the other columns alone.
LEMMA Stamped ==
    ASSUME NEW t \in Refund, t.status # "absent",
           NEW s \in {"pending", "approved", "refunded", "rejected"}
    PROVE  /\ [t EXCEPT !.status = s] \in Refund
           /\ [t EXCEPT !.status = s].status = s
           /\ [t EXCEPT !.status = s].payment = t.payment
           /\ [t EXCEPT !.status = s].amount = t.amount
           /\ [t EXCEPT !.status = s].source = t.source
  <1>1. t \in [payment : Payments, amount : Nat \ {0}, source : {"manual", "withdrawal"},
               status : {"pending", "approved", "refunded", "rejected"}]
    BY Row
  <1> QED BY <1>1 DEF Refund

\* Every part counted is an amount.
LEMMA CountedNat ==
    ASSUME NEW t \in RefundTable, NEW p, NEW statuses, "absent" \notin statuses
    PROVE  \A r \in Refunds : Counted(t, p, statuses)[r] \in Nat
  <1> SUFFICES ASSUME NEW r \in Refunds PROVE Counted(t, p, statuses)[r] \in Nat
    OBVIOUS
  <1>1. t[r].status # "absent" => t[r].amount \in Nat
    BY Row DEF RefundTable
  <1> QED BY <1>1 DEF Counted

\* get_total_refunds_for_payment as a total over the whole table.
LEMMA TotalIs ==
    ASSUME NEW t \in RefundTable, NEW p, NEW statuses, "absent" \notin statuses,
           NEW rows, rows = {r \in Refunds : t[r].status \in statuses /\ t[r].payment = p}
    PROVE  SumFunctionOnSet([r \in rows |-> t[r].amount], rows) = Total(t, p, statuses)
  <1> DEFINE c == Counted(t, p, statuses)
  <1>1. IsFiniteSet(rows) /\ rows \subseteq Refunds
    BY WithdrawalConstants, FS_Subset
  <1>2. SumFunctionOnSet([r \in rows |-> t[r].amount], rows) = SumFunctionOnSet(c, rows)
    <2>1. \A r \in rows : [q \in rows |-> t[q].amount][r] = c[r]
      BY DEF Counted
    <2> HIDE DEF c
    <2> QED BY <1>1, <2>1, SumSame
  <1>3. c = [r \in Refunds |-> IF r \in rows THEN c[r] ELSE 0]
    BY DEF Counted
  <1>4. \A r \in Refunds : c[r] \in Int
    BY CountedNat
  <1> HIDE DEF c
  <1>5. SumFunctionOnSet(c, rows) = SumFunctionOnSet(c, Refunds)
    BY <1>1, <1>3, <1>4, WithdrawalConstants, SumWhere
  <1> QED BY <1>2, <1>5 DEF Total, c

\* A total of refunds is an amount, and counts no refund for more than it is.
LEMMA TotalNat ==
    ASSUME NEW t \in RefundTable, NEW p, NEW statuses, "absent" \notin statuses
    PROVE  /\ Total(t, p, statuses) \in Nat
           /\ \A r \in Refunds : Counted(t, p, statuses)[r] <= Total(t, p, statuses)
  BY CountedNat, WithdrawalConstants, SumNat, SumTerm DEF Total

\* No part counts for more, no larger a total.
LEMMA TotalLe ==
    ASSUME NEW t \in RefundTable, NEW u \in RefundTable, NEW p, NEW few, NEW many,
           "absent" \notin few \cup many,
           \A r \in Refunds : Counted(t, p, few)[r] <= Counted(u, p, many)[r]
    PROVE  Total(t, p, few) <= Total(u, p, many)
  BY CountedNat, WithdrawalConstants, SumLe DEF Total

\* Nothing that counts, nothing in total.
LEMMA TotalZero ==
    ASSUME NEW t \in RefundTable, NEW p, NEW statuses, "absent" \notin statuses,
           \A r \in Refunds : t[r].status \in statuses => t[r].payment # p
    PROVE  Total(t, p, statuses) = 0
  <1>1. {r \in Refunds : t[r].status \in statuses /\ t[r].payment = p} = {}
    OBVIOUS
  <1> QED BY <1>1, TotalIs, SumEmpty

\* A change of what one refund counts changes the total by as much.
LEMMA TotalUpdate ==
    ASSUME NEW t \in RefundTable, NEW u \in RefundTable, NEW p, NEW statuses,
           "absent" \notin statuses, NEW r \in Refunds,
           \A o \in Refunds \ {r} : Counted(u, p, statuses)[o] = Counted(t, p, statuses)[o]
    PROVE  Total(u, p, statuses)
             = Total(t, p, statuses) + Counted(u, p, statuses)[r] - Counted(t, p, statuses)[r]
  <1>1. \A o \in Refunds : /\ Counted(t, p, statuses)[o] \in Int
                           /\ Counted(u, p, statuses)[o] \in Int
    BY CountedNat
  <1> QED BY <1>1, WithdrawalConstants, SumUpdate DEF Total

\* The same parts make the same total.
LEMMA TotalSame ==
    ASSUME NEW t, NEW u, NEW p, NEW statuses,
           \A o \in Refunds : Counted(u, p, statuses)[o] = Counted(t, p, statuses)[o]
    PROVE  Total(u, p, statuses) = Total(t, p, statuses)
  BY WithdrawalConstants, SumSame DEF Total

-----------------------------------------------------------------------------
(* What a fee has of the payments *)

\* What is held of payment p, and what fee f has of it.
Share(pay, t, p) ==
    IF pay[p] = "verified" THEN Amount[p] - Total(t, p, {"refunded"}) ELSE 0
Shares(pay, t, f) == [p \in Payments |-> IF FeeOf[p] = f THEN Share(pay, t, p) ELSE 0]

\* A refund that may still be paid or was paid is one of a verified payment, and no
\* withdrawal returns an application fee.
Filed ==
    \A r \in Refunds :
        /\ refund[r].status \in Live => payment[refund[r].payment] = "verified"
        /\ refund[r].status # "absent" /\ refund[r].source = "withdrawal" =>
             FeeOf[refund[r].payment] \notin Application

\* The refunds reserved of a payment fit in it.
Bounded == \A p \in Payments : Total(refund, p, Live) <= Amount[p]

\* A fee has what was verified and not returned.
Accounted ==
    \A f \in Fees : paid[f] = SumFunctionOnSet(Shares(payment, refund, f), Payments)

Books == Filed /\ Bounded /\ Accounted

\* What is held of a payment is an amount.
LEMMA ShareNat ==
    ASSUME NEW t \in RefundTable, NEW pay, NEW p \in Payments, Total(t, p, Live) <= Amount[p]
    PROVE  /\ Share(pay, t, p) \in Nat
           /\ pay[p] = "verified" => Amount[p] - Total(t, p, Live) <= Share(pay, t, p)
           /\ Total(t, p, {"refunded"}) \in Nat /\ Total(t, p, Live) \in Nat
           /\ Total(t, p, {"refunded"}) <= Total(t, p, Live)
  <1>1. Total(t, p, {"refunded"}) \in Nat /\ Total(t, p, Live) \in Nat
    BY TotalNat DEF Live
  <1>2. Total(t, p, {"refunded"}) <= Total(t, p, Live)
    <2>1. \A r \in Refunds : t[r] \in Refund
      BY DEF RefundTable
    <2>2. \A r \in Refunds : Counted(t, p, {"refunded"})[r] <= Counted(t, p, Live)[r]
      BY <2>1, Row DEF Counted, Live
    <2> QED BY <2>2, TotalLe DEF Live
  <1>3. Amount[p] \in Nat
    BY WithdrawalConstants
  <1> QED BY <1>1, <1>2, <1>3 DEF Share

\* So is what a fee has, and it has all that is held of its payments.
LEMMA SharesNat ==
    ASSUME NEW t \in RefundTable, NEW pay, \A p \in Payments : Total(t, p, Live) <= Amount[p],
           NEW f
    PROVE  /\ \A p \in Payments : Shares(pay, t, f)[p] \in Nat
           /\ SumFunctionOnSet(Shares(pay, t, f), Payments) \in Nat
           /\ \A p \in Payments :
                Shares(pay, t, f)[p] <= SumFunctionOnSet(Shares(pay, t, f), Payments)
  <1>1. \A p \in Payments : Shares(pay, t, f)[p] \in Nat
    BY ShareNat DEF Shares
  <1> QED BY <1>1, WithdrawalConstants, SumNat, SumTerm

\* The shares of one payment change: the paid amount of its fee follows.
LEMMA ShareUpdate ==
    ASSUME NEW t \in RefundTable, NEW u \in RefundTable, NEW pay, NEW new, NEW p \in Payments,
           \A o \in Payments : Share(pay, t, o) \in Int /\ Share(new, u, o) \in Int,
           \A o \in Payments \ {p} : Share(new, u, o) = Share(pay, t, o),
           NEW f
    PROVE  SumFunctionOnSet(Shares(new, u, f), Payments)
             = SumFunctionOnSet(Shares(pay, t, f), Payments)
               + (IF FeeOf[p] = f THEN Share(new, u, p) - Share(pay, t, p) ELSE 0)
  <1>1. \A o \in Payments : Shares(pay, t, f)[o] \in Int /\ Shares(new, u, f)[o] \in Int
    BY DEF Shares
  <1>2. \A o \in Payments \ {p} : Shares(new, u, f)[o] = Shares(pay, t, f)[o]
    BY DEF Shares
  <1>3. SumFunctionOnSet(Shares(new, u, f), Payments)
          = SumFunctionOnSet(Shares(pay, t, f), Payments)
            + Shares(new, u, f)[p] - Shares(pay, t, f)[p]
    BY <1>1, <1>2, WithdrawalConstants, SumUpdate
  <1>4. SumFunctionOnSet(Shares(pay, t, f), Payments) \in Int
    BY <1>1, WithdrawalConstants, SumInt
  <1>5. Shares(new, u, f)[p] - Shares(pay, t, f)[p]
          = IF FeeOf[p] = f THEN Share(new, u, p) - Share(pay, t, p) ELSE 0
    BY DEF Shares
  <1> QED BY <1>1, <1>3, <1>4, <1>5

\* The shares of a set of payments change by their amounts.
LEMMA SharesMove ==
    ASSUME NEW before, NEW after, NEW S, S \subseteq Payments, NEW f,
           \A p \in Payments : /\ before[p] \in Int /\ after[p] \in Int
                               /\ after[p] = before[p] + (IF p \in S /\ FeeOf[p] = f
                                                          THEN Amount[p] ELSE 0)
    PROVE  /\ SumFunctionOnSet(after, Payments)
                = SumFunctionOnSet(before, Payments) + AmountOn(f, S)
           /\ AmountOn(f, S) \in Nat
  <1> DEFINE A == {p \in S : FeeOf[p] = f}
             g == [p \in Payments |-> IF p \in A THEN Amount[p] ELSE 0]
  <1>1. A \subseteq Payments /\ IsFiniteSet(A) /\ IsFiniteSet(Payments)
        /\ \A p \in Payments : Amount[p] \in Nat /\ g[p] \in Int /\ g[p] \in Nat
    BY WithdrawalConstants, FS_Subset
  <1>2. AmountOn(f, S) = SumFunctionOnSet(g, Payments)
    <2>1. SumFunctionOnSet(Amount, A) = SumFunctionOnSet(g, Payments)
      <3> HIDE DEF A
      <3> QED BY <1>1, SumWhere
    <2> QED BY <2>1 DEF AmountOn
  <1>3. \A p \in Payments : after[p] = before[p] + g[p]
    BY <1>1
  <1> HIDE DEF g
  <1>4. SumFunctionOnSet(g, Payments) \in Nat
    BY <1>1, SumNat
  <1>5. SumFunctionOnSet(after, Payments)
          = SumFunctionOnSet(before, Payments) + SumFunctionOnSet(g, Payments)
    BY <1>1, <1>3, SumPlus
  <1> QED BY <1>2, <1>4, <1>5

\* A request that waits to verify holds its payment, which is still to be verified;
\* one that waits to pay holds its refund, which is approved.
VerifierHolds ==
    \A q \in Requests : req[q].at = "verify" =>
        /\ req[q].row \in Payments /\ paymentLock[req[q].row] = q
        /\ payment[req[q].row] = "pending"
PayerHolds ==
    \A q \in Requests : req[q].at = "process" =>
        /\ req[q].row \in Refunds /\ refundLock[req[q].row] = q
        /\ refund[req[q].row].status = "approved"

\* A cancellation rejects only refunds that are open, a withdrawal returns no
\* application fee.
CancellerSees == \A q \in Requests : req[q].at = "cancel" => req[q].rows \subseteq OpenWithdrawal
WithdrawerKnows ==
    \A q \in Requests : req[q].at = "withdraw" =>
        \A p \in Payments : req[q].due[p] > 0 => FeeOf[p] \notin Application

Hands == VerifierHolds /\ PayerHolds /\ CancellerSees /\ WithdrawerKnows

MoneyInv == TypeOK /\ Books /\ Hands

\* The rows of a typed state, one by one.
LEMMA Rows ==
    ASSUME TypeOK
    PROVE  /\ refund \in RefundTable
           /\ \A r \in Refunds : refund[r] \in Refund
           /\ \A f \in Fees : paid[f] \in Nat
           /\ \A q \in Requests : req[q] \in Request /\ req[q].due \in [Payments -> Nat]
                                  /\ req[q].rows \subseteq Refunds
           /\ \A p \in Payments : Amount[p] \in Nat \ {0} /\ FeeOf[p] \in Fees
  BY WithdrawalConstants DEF TypeOK, RefundTable, Request

\* A request in memory is one of those.
LEMMA IdleTyped ==
    /\ Idle \in Request /\ Idle.at = "idle" /\ Idle.rows = {} /\ Idle.due \in [Payments -> Nat]
    /\ \A at \in {"withdraw", "cancel", "process", "verify", "void", "cleanup"} :
         [Idle EXCEPT !.at = at] \in Request /\ [Idle EXCEPT !.at = at].at = at
  BY DEF Idle, Request, Nothing

-----------------------------------------------------------------------------
(* The books, step by step *)

\* get_total_refunds_for_payment, now and after a step.
LEMMA TotalRefundsAre ==
    ASSUME NEW p
    PROVE  /\ refund \in RefundTable =>
                /\ TotalRefunds(p, Live) = Total(refund, p, Live)
                /\ TotalRefunds(p, {"refunded"}) = Total(refund, p, {"refunded"})
           /\ refund' \in RefundTable => TotalRefunds(p, Live)' = Total(refund', p, Live)
  <1>1. \A statuses : refund \in RefundTable /\ "absent" \notin statuses =>
          TotalRefunds(p, statuses) = Total(refund, p, statuses)
    <2> TAKE statuses
    <2> HAVE refund \in RefundTable /\ "absent" \notin statuses
    <2> DEFINE rows == RefundsOf(p, statuses)
    <2>1. rows = {r \in Refunds : refund[r].status \in statuses /\ refund[r].payment = p}
      BY DEF RefundsOf
    <2> HIDE DEF rows
    <2>2. SumFunctionOnSet([r \in rows |-> refund[r].amount], rows) = Total(refund, p, statuses)
      BY <2>1, TotalIs
    <2> QED BY <2>2 DEF TotalRefunds, rows
  <1>2. refund' \in RefundTable => TotalRefunds(p, Live)' = Total(refund', p, Live)
    <2> HAVE refund' \in RefundTable
    <2> DEFINE rows == RefundsOf(p, Live)'
    <2>1. rows = {r \in Refunds : refund'[r].status \in Live /\ refund'[r].payment = p}
      BY DEF RefundsOf, Live
    <2> HIDE DEF rows
    <2>2. SumFunctionOnSet([r \in rows |-> refund'[r].amount], rows) = Total(refund', p, Live)
      BY <2>1, TotalIs DEF Live
    <2> QED BY <2>2 DEF TotalRefunds, rows
  <1> QED BY <1>1, <1>2 DEF Live

\* Shares that stay make the same paid amounts.
LEMMA SharesKept ==
    ASSUME Accounted, UNCHANGED paid,
           \A p \in Payments : Share(payment', refund', p) = Share(payment, refund, p)
    PROVE  Accounted'
  <1>1. ASSUME NEW f \in Fees
        PROVE  SumFunctionOnSet(Shares(payment', refund', f), Payments)
                 = SumFunctionOnSet(Shares(payment, refund, f), Payments)
    <2>1. \A p \in Payments : Shares(payment', refund', f)[p] = Shares(payment, refund, f)[p]
      BY DEF Shares
    <2> QED BY <2>1, WithdrawalConstants, SumSame
  <1> QED BY <1>1 DEF Accounted

\* Nothing moves.
LEMMA BooksSame == ASSUME Books, UNCHANGED <<paid, payment, refund>> PROVE Books'
  <1>1. Accounted'
    BY SharesKept DEF Books
  <1>2. Filed' /\ Bounded'
    BY DEF Books, Filed, Bounded
  <1> QED BY <1>1, <1>2 DEF Books

\* A payment that was not verified, and is not, holds nothing.
LEMMA BooksOfUnverified ==
    ASSUME TypeOK, Books, UNCHANGED <<paid, refund>>,
           \A p \in Payments : payment'[p] = "verified" <=> payment[p] = "verified"
    PROVE  Books'
  <1>1. Accounted'
    <2>1. \A p \in Payments : Share(payment', refund', p) = Share(payment, refund, p)
      BY DEF Share
    <2> QED BY <2>1, SharesKept DEF Books
  <1>2. Filed' /\ Bounded'
    <2>1. \A r \in Refunds : refund[r].status \in Live => refund[r].payment \in Payments
      BY Rows, Row DEF Live
    <2> QED BY <2>1 DEF Books, Filed, Bounded
  <1> QED BY <1>1, <1>2 DEF Books

\* Refunds are filed and decided: as long as none is paid, the fees keep what they have.
LEMMA BooksOfRefunds ==
    ASSUME TypeOK, Books, UNCHANGED <<paid, payment>>,
           \A r \in Refunds :
               \/ refund'[r] = refund[r]
               \/ refund[r].status # "refunded" /\ refund'[r].status # "refunded",
           Filed', Bounded'
    PROVE  Books'
  <1>1. \A p \in Payments : Total(refund', p, {"refunded"}) = Total(refund, p, {"refunded"})
    <2> TAKE p \in Payments
    <2>1. \A r \in Refunds : Counted(refund', p, {"refunded"})[r] = Counted(refund, p, {"refunded"})[r]
      BY DEF Counted
    <2> QED BY <2>1, TotalSame
  <1>2. \A p \in Payments : Share(payment', refund', p) = Share(payment, refund, p)
    BY <1>1 DEF Share
  <1> QED BY <1>2, SharesKept DEF Books

\* The state's books, with the totals as numbers.
LEMMA Whole ==
    ASSUME TypeOK, Books
    PROVE  /\ \A p \in Payments :
                /\ Share(payment, refund, p) \in Nat
                /\ Total(refund, p, Live) \in Nat /\ Total(refund, p, {"refunded"}) \in Nat
                /\ Total(refund, p, {"refunded"}) <= Total(refund, p, Live)
                /\ Total(refund, p, Live) <= Amount[p]
                /\ payment[p] = "verified" =>
                     Amount[p] - Total(refund, p, Live) <= Share(payment, refund, p)
                /\ Share(payment, refund, p) <= paid[FeeOf[p]]
           /\ \A f \in Fees, p \in Payments : Shares(payment, refund, f)[p] \in Nat
  <1>1. refund \in RefundTable /\ \A p \in Payments : Total(refund, p, Live) <= Amount[p]
    BY Rows DEF Books, Bounded
  <1>2. ASSUME NEW p \in Payments PROVE Share(payment, refund, p) <= paid[FeeOf[p]]
    <2>1. FeeOf[p] \in Fees
      BY Rows
    <2>2. Shares(payment, refund, FeeOf[p])[p] = Share(payment, refund, p)
      BY DEF Shares
    <2>3. Shares(payment, refund, FeeOf[p])[p]
            <= SumFunctionOnSet(Shares(payment, refund, FeeOf[p]), Payments)
      BY <1>1, SharesNat
    <2> QED BY <2>1, <2>2, <2>3 DEF Books, Accounted
  <1> QED BY <1>1, <1>2, ShareNat, SharesNat

\* verify_payment: the fee has the whole amount, for nothing was returned of it.
LEMMA BooksOfVerify ==
    ASSUME TypeOK, Books, NEW p \in Payments, payment[p] = "pending", UNCHANGED refund,
           payment'[p] = "verified", \A o \in Payments \ {p} : payment'[o] = payment[o],
           \A f \in Fees : paid'[f] = paid[f] + (IF FeeOf[p] = f THEN Amount[p] ELSE 0)
    PROVE  Books'
  <1>1. refund \in RefundTable /\ \A r \in Refunds : refund[r].status \in Live =>
           refund[r].payment \in Payments /\ refund[r].payment # p
    BY Rows, Row DEF Books, Filed, Live
  <1>2. Total(refund, p, {"refunded"}) = 0
    BY <1>1, TotalZero DEF Live
  <1>4. Filed' /\ Bounded'
    BY <1>1 DEF Books, Filed, Bounded
  <1>5. /\ Share(payment, refund, p) = 0 /\ Share(payment', refund', p) = Amount[p]
        /\ \A o \in Payments \ {p} : Share(payment', refund', o) = Share(payment, refund, o)
    <2>1. /\ payment[p] # "verified" /\ Amount[p] \in Nat
          /\ \A o \in Payments : Total(refund', o, {"refunded"}) = Total(refund, o, {"refunded"})
      BY Rows
    <2> QED BY <1>2, <2>1 DEF Share
  <1>6. \A o \in Payments : Share(payment, refund, o) \in Int /\ Share(payment', refund', o) \in Int
    BY <1>5, Whole, Rows
  <1>7. ASSUME NEW f \in Fees
        PROVE  paid'[f] = SumFunctionOnSet(Shares(payment', refund', f), Payments)
    <2>1. SumFunctionOnSet(Shares(payment', refund', f), Payments)
             = SumFunctionOnSet(Shares(payment, refund, f), Payments)
               + (IF FeeOf[p] = f
                  THEN Share(payment', refund', p) - Share(payment, refund, p) ELSE 0)
      <3>1. \A o \in Payments \ {p} : Share(payment', refund', o) = Share(payment, refund, o)
        BY <1>5
      <3>2. refund' \in RefundTable
        BY <1>1
      <3> QED BY <1>1, <1>6, <3>1, <3>2, ShareUpdate
    <2>2. paid[f] = SumFunctionOnSet(Shares(payment, refund, f), Payments)
      BY DEF Books, Accounted
    <2> QED BY <1>5, <2>1, <2>2, Rows
  <1> QED BY <1>4, <1>7 DEF Books, Accounted

\* process_approved_refund: the fee returns what the refund takes from its payment,
\* and never has less.
LEMMA BooksOfProcess ==
    ASSUME TypeOK, Books, NEW r \in Refunds, NEW p, NEW f, NEW a,
           refund[r].status = "approved",
           p = refund[r].payment, f = FeeOf[p], a = refund[r].amount, UNCHANGED payment,
           refund' \in RefundTable, \A o \in Refunds \ {r} : refund'[o] = refund[o],
           refund'[r].status = "refunded", refund'[r].source = refund[r].source,
           refund'[r].payment = p, refund'[r].amount = a,
           paid'[f] = Reverse(paid[f], a),
           \A g \in Fees \ {f} : paid'[g] = paid[g]
    PROVE  /\ Books' /\ \A g \in Fees : paid'[g] \in Nat /\ paid'[g] <= paid[g]
           /\ \A o \in Payments : Total(refund', o, Live) = Total(refund, o, Live)
  <1>1. /\ refund[r] \in Refund /\ p \in Payments /\ f \in Fees /\ a \in Nat \ {0}
        /\ payment[p] = "verified" /\ paid[f] \in Nat
    BY Rows, Row DEF Books, Filed, Live
  <1>4. refund' \in RefundTable /\ refund \in RefundTable
    BY Rows
  <1>5. Filed'
    BY <1>1 DEF Books, Filed, Live
  <1>6. \A o \in Payments : Total(refund', o, Live) = Total(refund, o, Live)
    <2> TAKE o \in Payments
    <2>1. \A x \in Refunds : Counted(refund', o, Live)[x] = Counted(refund, o, Live)[x]
      BY DEF Counted, Live
    <2> QED BY <2>1, TotalSame
  <1>7. Bounded'
    BY <1>6 DEF Books, Bounded
  <1>8. \A o \in Payments : Total(refund', o, {"refunded"})
                 = Total(refund, o, {"refunded"}) + (IF o = p THEN a ELSE 0)
    <2> TAKE o \in Payments
    <2>1. \A x \in Refunds \ {r} :
            Counted(refund', o, {"refunded"})[x] = Counted(refund, o, {"refunded"})[x]
      BY DEF Counted
    <2>2. /\ Counted(refund', o, {"refunded"})[r] = IF o = p THEN a ELSE 0
          /\ Counted(refund, o, {"refunded"})[r] = 0
      BY DEF Counted
    <2>3. Total(refund', o, {"refunded"})
            = Total(refund, o, {"refunded"}) + Counted(refund', o, {"refunded"})[r]
              - Counted(refund, o, {"refunded"})[r]
      BY <1>4, <2>1, TotalUpdate
    <2>4. Total(refund, o, {"refunded"}) \in Nat
      BY <1>4, TotalNat
    <2> QED BY <1>1, <2>2, <2>3, <2>4
  <1>9. /\ \A o \in Payments \ {p} : Share(payment', refund', o) = Share(payment, refund, o)
        /\ Share(payment', refund', p) = Share(payment, refund, p) - a
    <2>1. Total(refund, p, {"refunded"}) \in Nat /\ Amount[p] \in Nat
          /\ \A o \in Payments : Total(refund, o, {"refunded"}) \in Nat
      BY <1>1, Whole, Rows
    <2> QED BY <1>1, <1>8, <2>1 DEF Share
  <1>10. \A o \in Payments : Share(payment, refund, o) \in Nat /\ Share(payment', refund', o) \in Nat
    <2>1. \A o \in Payments : Total(refund', o, Live) <= Amount[o]
      BY <1>7 DEF Bounded
    <2> QED BY <1>4, <2>1, Whole, ShareNat
  <1>11. /\ paid'[f] = paid[f] - a
         /\ \A g \in Fees : paid'[g] \in Nat /\ paid'[g] <= paid[g]
    <2>1. a <= paid[f]
      <3>1. Share(payment, refund, p) <= paid[f] /\ a <= Share(payment, refund, p)
        BY <1>1, <1>9, <1>10, Whole
      <3> QED BY <1>1, <1>10, <3>1
    <2>2. Reverse(paid[f], a) = paid[f] - a /\ paid[f] - a \in Nat
      BY <1>1, <2>1 DEF Reverse
    <2> QED BY <1>1, <2>2, Rows
  <1>12. ASSUME NEW g \in Fees
         PROVE  paid'[g] = SumFunctionOnSet(Shares(payment', refund', g), Payments)
    <2>1. SumFunctionOnSet(Shares(payment', refund', g), Payments)
             = SumFunctionOnSet(Shares(payment, refund, g), Payments)
               + (IF FeeOf[p] = g
                  THEN Share(payment', refund', p) - Share(payment, refund, p) ELSE 0)
      <3>1. \A o \in Payments : Share(payment, refund, o) \in Int /\ Share(payment', refund', o) \in Int
        BY <1>10
      <3> QED BY <1>1, <1>4, <1>9, <3>1, ShareUpdate
    <2>2. paid[g] = SumFunctionOnSet(Shares(payment, refund, g), Payments) /\ paid[g] \in Nat
      BY Rows DEF Books, Accounted
    <2>3. Share(payment, refund, p) \in Nat
      BY <1>1, <1>10
    <2> QED BY <1>1, <1>9, <1>11, <2>1, <2>2, <2>3
  <1> QED BY <1>5, <1>6, <1>7, <1>11, <1>12 DEF Books, Accounted

\* A payment without a refund that counts is held as a whole.
LEMMA NothingReturned ==
    ASSUME TypeOK, Books, NEW p \in Payments,
           payment[p] # "verified" \/ RefundsOf(p, Live) = {}
    PROVE  Total(refund, p, {"refunded"}) = 0 /\ Total(refund, p, Live) = 0
  <1>1. \A r \in Refunds : refund[r].status \in Live => refund[r].payment # p
    BY DEF Books, Filed, RefundsOf
  <1> QED BY <1>1, Rows, TotalZero DEF Live

\* commit_batch: each fee has the amounts of its rows on top.
LEMMA BooksOfImport ==
    ASSUME TypeOK, Books, NEW S, S \subseteq Payments, UNCHANGED refund,
           \A p \in S : payment[p] = "absent",
           \A p \in Payments : payment'[p] = IF p \in S THEN "verified" ELSE payment[p],
           \A f \in Fees : paid'[f] = paid[f] + AmountOn(f, S)
    PROVE  Books' /\ \A f \in Fees : paid'[f] \in Nat
  <1>1. \A r \in Refunds : refund[r].status \in Live =>
           refund[r].payment \in Payments /\ refund[r].payment \notin S
    BY Rows, Row DEF Books, Filed, Live
  <1>2. Filed' /\ Bounded'
    BY <1>1 DEF Books, Filed, Bounded
  <1>3. \A p \in Payments :
           /\ Share(payment, refund, p) \in Int
           /\ Share(payment', refund', p)
                = Share(payment, refund, p) + (IF p \in S THEN Amount[p] ELSE 0)
    <2> TAKE p \in Payments
    <2>1. p \in S => Total(refund, p, {"refunded"}) = 0
      BY NothingReturned
    <2>2. /\ Share(payment, refund, p) \in Int /\ Amount[p] \in Nat
          /\ Total(refund', p, {"refunded"}) = Total(refund, p, {"refunded"})
      BY Whole, Rows
    <2> QED BY <2>1, <2>2 DEF Share
  <1>4. ASSUME NEW f \in Fees
        PROVE  /\ paid'[f] = SumFunctionOnSet(Shares(payment', refund', f), Payments)
               /\ paid'[f] \in Nat
    <2> DEFINE before == Shares(payment, refund, f)
               after == Shares(payment', refund', f)
    <2>1. \A p \in Payments : /\ before[p] \in Int /\ after[p] \in Int
                              /\ after[p] = before[p] + (IF p \in S /\ FeeOf[p] = f
                                                         THEN Amount[p] ELSE 0)
      BY <1>3, Rows DEF Shares
    <2> HIDE DEF before, after
    <2>2. /\ SumFunctionOnSet(after, Payments)
                = SumFunctionOnSet(before, Payments) + AmountOn(f, S)
          /\ AmountOn(f, S) \in Nat
      BY <2>1, SharesMove, ZenonT(30)
    <2>3. paid[f] = SumFunctionOnSet(before, Payments)
      BY DEF Books, Accounted, before
    <2> QED BY <2>2, <2>3, Rows DEF after
  <1> QED BY <1>2, <1>4 DEF Books, Accounted

\* void_batch: each fee has less by the amounts of its rows, which it has.
LEMMA BooksOfVoid ==
    ASSUME TypeOK, Books, NEW S, S \subseteq Payments, UNCHANGED refund,
           \A p \in S : payment[p] = "verified" /\ RefundsOf(p, Live) = {},
           \A p \in Payments : payment'[p] = IF p \in S THEN "refunded" ELSE payment[p],
           \A f \in Fees : paid'[f] = Reverse(paid[f], AmountOn(f, S))
    PROVE  Books' /\ \A f \in Fees : paid'[f] \in Nat /\ paid'[f] <= paid[f]
  <1>1. \A r \in Refunds : refund[r].status \in Live =>
           refund[r].payment \in Payments /\ refund[r].payment \notin S
    BY Rows, Row DEF Live, RefundsOf
  <1>2. Filed' /\ Bounded'
    BY <1>1 DEF Books, Filed, Bounded
  <1>3. \A p \in Payments :
           /\ Share(payment', refund', p) \in Nat
           /\ Share(payment, refund, p)
                = Share(payment', refund', p) + (IF p \in S THEN Amount[p] ELSE 0)
    <2> TAKE p \in Payments
    <2>1. p \in S => Total(refund, p, {"refunded"}) = 0
      BY NothingReturned
    <2>2. /\ Share(payment, refund, p) \in Nat /\ Amount[p] \in Nat
          /\ Total(refund', p, {"refunded"}) = Total(refund, p, {"refunded"})
      BY Whole, Rows
    <2> QED BY <2>1, <2>2 DEF Share
  <1>4. ASSUME NEW f \in Fees
        PROVE  /\ paid'[f] = SumFunctionOnSet(Shares(payment', refund', f), Payments)
               /\ paid'[f] \in Nat /\ paid'[f] <= paid[f]
    <2> DEFINE before == Shares(payment, refund, f)
               after == Shares(payment', refund', f)
    <2>1. \A p \in Payments : /\ before[p] \in Int /\ after[p] \in Nat
                              /\ before[p] = after[p] + (IF p \in S /\ FeeOf[p] = f
                                                         THEN Amount[p] ELSE 0)
      BY <1>3, Rows DEF Shares
    <2> HIDE DEF before, after
    <2>2. /\ SumFunctionOnSet(before, Payments)
                = SumFunctionOnSet(after, Payments) + AmountOn(f, S)
          /\ AmountOn(f, S) \in Nat
      BY <2>1, SharesMove
    <2>3. SumFunctionOnSet(after, Payments) \in Nat
      BY <2>1, WithdrawalConstants, SumNat
    <2>4. paid[f] = SumFunctionOnSet(before, Payments)
      BY DEF Books, Accounted, before
    <2> QED BY <2>2, <2>3, <2>4 DEF after, Reverse
  <1> QED BY <1>2, <1>4 DEF Books, Accounted

\* Row r of the table is a new refund of p.
NewOf(r, p) ==
    /\ refund[r].status = "absent" /\ refund'[r].status = "pending"
    /\ refund'[r].payment = p

\* Refunds are filed, at most one of a payment and for no more than is left of it.
LEMMA BooksOfFiling ==
    ASSUME TypeOK, Books, UNCHANGED <<paid, payment>>, refund' \in RefundTable, NEW d,
           \A r \in Refunds :
               \/ refund'[r] = refund[r]
               \/ \E p \in Payments :
                    /\ NewOf(r, p) /\ payment[p] = "verified" /\ refund'[r].amount = d[p]
                    /\ refund'[r].source = "withdrawal" => FeeOf[p] \notin Application,
           \A p \in Payments, r \in Refunds :
               NewOf(r, p) => /\ \A s \in Refunds : NewOf(s, p) => s = r
                              /\ d[p] \in Nat /\ d[p] <= Amount[p] - Total(refund, p, Live)
    PROVE  /\ Books'
           /\ \A p \in Payments : Total(refund', p, Live) =
                IF \E r \in Refunds : NewOf(r, p) THEN Total(refund, p, Live) + d[p]
                                                  ELSE Total(refund, p, Live)
  <1>1. Filed'
    BY DEF Books, Filed, NewOf
  <1>2. ASSUME NEW p \in Payments, NEW r \in Refunds, NewOf(r, p)
        PROVE  Total(refund', p, Live) = Total(refund, p, Live) + d[p]
    <2>1. \A o \in Refunds \ {r} : Counted(refund', p, Live)[o] = Counted(refund, p, Live)[o]
      BY <1>2 DEF Counted, NewOf, Live
    <2>2. refund'[r].amount = d[p]
      BY <1>2 DEF NewOf
    <2>3. Counted(refund', p, Live)[r] = d[p] /\ Counted(refund, p, Live)[r] = 0
      BY <1>2, <2>2 DEF Counted, NewOf, Live
    <2>4. refund \in RefundTable /\ Total(refund, p, Live) \in Nat /\ d[p] \in Nat
      BY <1>2, Rows, Whole
    <2>5. Total(refund', p, Live) = Total(refund, p, Live) + Counted(refund', p, Live)[r]
                                      - Counted(refund, p, Live)[r]
      BY <2>1, <2>4, TotalUpdate DEF Live
    <2> QED BY <2>3, <2>4, <2>5
  <1>3. ASSUME NEW p \in Payments, \A r \in Refunds : ~NewOf(r, p)
        PROVE  Total(refund', p, Live) = Total(refund, p, Live)
    <2>1. \A o \in Refunds : Counted(refund', p, Live)[o] = Counted(refund, p, Live)[o]
      BY <1>3 DEF Counted, NewOf, Live
    <2> QED BY <2>1, TotalSame
  <1>4. Bounded'
    <2>1. ASSUME NEW p \in Payments PROVE Total(refund', p, Live) <= Amount[p]
      <3>1. CASE \E r \in Refunds : NewOf(r, p)
        BY <1>2, <3>1, Whole, Rows
      <3>2. CASE ~ \E r \in Refunds : NewOf(r, p)
        BY <1>3, <3>2, Whole
      <3> QED BY <3>1, <3>2
    <2> QED BY <2>1 DEF Bounded
  <1>5. \A r \in Refunds : \/ refund'[r] = refund[r]
                           \/ refund[r].status # "refunded" /\ refund'[r].status # "refunded"
    BY DEF NewOf
  <1> QED BY <1>1, <1>2, <1>3, <1>4, <1>5, BooksOfRefunds

\* Open refunds are approved or refused.
Stays(r) ==
    /\ refund[r].status \in {"pending", "approved"}
    /\ refund'[r].payment = refund[r].payment /\ refund'[r].amount = refund[r].amount
    /\ refund'[r].source = refund[r].source

\* A payment reserves less for it only where one of its refunds was refused.
LEMMA BooksOfDecisions ==
    ASSUME TypeOK, Books, UNCHANGED <<paid, payment>>, refund' \in RefundTable,
           \A r \in Refunds : \/ refund'[r] = refund[r]
                              \/ Stays(r) /\ refund'[r].status \in {"approved", "rejected"}
    PROVE  /\ Books'
           /\ \A p \in Payments :
                \/ Total(refund', p, Live) = Total(refund, p, Live)
                \/ \E r \in Refunds : /\ Stays(r) /\ refund'[r].status = "rejected"
                                      /\ refund[r].payment = p
  <1>1. Filed'
    BY DEF Books, Filed, Stays, Live
  <1>2. ASSUME NEW p \in Payments
        PROVE  Total(refund', p, Live) <= Total(refund, p, Live)
    <2>0. \A r \in Refunds : refund[r] \in Refund
      BY Rows
    <2>1. \A r \in Refunds : Counted(refund', p, Live)[r] <= Counted(refund, p, Live)[r]
      BY <2>0, Row DEF Counted, Stays, Live
    <2>2. refund \in RefundTable
      BY Rows
    <2> QED BY <2>1, <2>2, TotalLe DEF Live
  <1>3. Bounded'
    <2>1. ASSUME NEW p \in Payments PROVE Total(refund', p, Live) <= Amount[p]
      <3>1. Total(refund', p, Live) \in Nat
        BY TotalNat DEF Live
      <3> QED BY <1>2, <3>1, Whole, Rows
    <2> QED BY <2>1 DEF Bounded
  <1>4. ASSUME NEW p \in Payments,
               ~ \E r \in Refunds : /\ Stays(r) /\ refund'[r].status = "rejected"
                                    /\ refund[r].payment = p
        PROVE  Total(refund', p, Live) = Total(refund, p, Live)
    <2>1. \A o \in Refunds : Counted(refund', p, Live)[o] = Counted(refund, p, Live)[o]
      BY <1>4 DEF Counted, Stays, Live
    <2> QED BY <2>1, TotalSame
  <1>5. \A r \in Refunds : \/ refund'[r] = refund[r]
                           \/ refund[r].status # "refunded" /\ refund'[r].status # "refunded"
    BY DEF Stays
  <1> QED BY <1>1, <1>3, <1>4, <1>5, BooksOfRefunds

-----------------------------------------------------------------------------
(* What a request that waits holds *)

\* Hands, of one request.
Holds(q) ==
    /\ req[q].at = "verify" =>
         /\ req[q].row \in Payments /\ paymentLock[req[q].row] = q
         /\ payment[req[q].row] = "pending"
    /\ req[q].at = "process" =>
         /\ req[q].row \in Refunds /\ refundLock[req[q].row] = q
         /\ refund[req[q].row].status = "approved"
    /\ req[q].at = "cancel" => req[q].rows \subseteq OpenWithdrawal
    /\ req[q].at = "withdraw" =>
         \A p \in Payments : req[q].due[p] > 0 => FeeOf[p] \notin Application

\* The four properties of Hands are this one.
LEMMA HandsAre == (Hands <=> \A q \in Requests : Holds(q)) /\ (Hands' <=> \A q \in Requests : Holds(q)')
  BY DEF Hands, Holds, VerifierHolds, PayerHolds, CancellerSees, WithdrawerKnows

\* A request stays where it was, with the rows it locked.
Undisturbed(o) ==
    /\ req'[o] = req[o]
    /\ \A p \in Payments : paymentLock[p] = o /\ payment[p] = "pending" =>
         paymentLock'[p] = o /\ payment'[p] = "pending"
    /\ \A r \in Refunds : refundLock[r] = o /\ refund[r].status = "approved" =>
         refundLock'[r] = o /\ refund'[r].status = "approved"
    /\ req[o].at = "cancel" => OpenWithdrawal \subseteq OpenWithdrawal'

\* What it knows is still so; a request that is elsewhere need know nothing.
LEMMA HandsKept ==
    ASSUME Hands, \A o \in Requests : \/ req'[o].at \in {"idle", "void", "cleanup"}
                                      \/ Undisturbed(o)
                                      \/ Holds(o)'
    PROVE  Hands'
  <1>1. \A o \in Requests : Holds(o) /\ Undisturbed(o) => Holds(o)'
    <2> TAKE o \in Requests
    <2> HAVE Holds(o) /\ Undisturbed(o)
    <2>1. /\ req'[o].at = "verify" =>
               /\ req'[o].row \in Payments /\ paymentLock'[req'[o].row] = o
               /\ payment'[req'[o].row] = "pending"
          /\ req'[o].at = "process" =>
               /\ req'[o].row \in Refunds /\ refundLock'[req'[o].row] = o
               /\ refund'[req'[o].row].status = "approved"
      BY DEF Holds, Undisturbed
    <2>2. /\ req'[o].at = "cancel" => req'[o].rows \subseteq OpenWithdrawal'
          /\ req'[o].at = "withdraw" =>
               \A p \in Payments : req'[o].due[p] > 0 => FeeOf[p] \notin Application
      BY DEF Holds, Undisturbed
    <2> QED BY <2>1, <2>2 DEF Holds
  <1>2. \A o \in Requests : req'[o].at \in {"idle", "void", "cleanup"} => Holds(o)'
    BY DEF Holds
  <1> QED BY <1>1, <1>2, HandsAre

\* The end of a transaction gives back its own locks and no other.
LEMMA Released ==
    ASSUME TypeOK, NEW q \in Requests, Release(q)
    PROVE  /\ profileLock' \in Requests \cup {Nobody}
           /\ paymentLock' \in [Payments -> Requests \cup {Nobody}]
           /\ refundLock' \in [Refunds -> Requests \cup {Nobody}]
           /\ \A o \in Requests \ {q} :
                /\ profileLock = o => profileLock' = o
                /\ \A p \in Payments : paymentLock[p] = o => paymentLock'[p] = o
                /\ \A r \in Refunds : refundLock[r] = o => refundLock'[r] = o
  BY DEF TypeOK, Release

\* So does its return, which leaves the request idle.
LEMMA ReturnIdle ==
    ASSUME TypeOK, NEW q \in Requests, Return(q)
    PROVE  /\ req' \in [Requests -> Request] /\ req'[q].at = "idle"
           /\ \A o \in Requests \ {q} : req'[o] = req[o]
           /\ Release(q)
  <1>1. req' = [req EXCEPT ![q] = Idle] /\ Release(q)
    BY DEF Return
  <1>2. req \in [Requests -> Request]
    BY DEF TypeOK
  <1> QED BY <1>1, <1>2, IdleTyped

-----------------------------------------------------------------------------
(* Payments *)

\* record_payment, verify_payment's refusal.
LEMMA RecordStep ==
    ASSUME MoneyInv, NEW p \in Payments, RecordPayment(p) \/ RejectPayment(p)
    PROVE  MoneyInv'
  <1>0. TypeOK /\ Books /\ Hands
    BY DEF MoneyInv
  <1>1. PICK s \in {"pending", "rejected"} : payment' = [payment EXCEPT ![p] = s]
    BY DEF RecordPayment, RejectPayment
  <1>2. /\ payment[p] # "verified" /\ UNCHANGED <<status, from, paid, cancelled, refund, locks, req>>
        /\ payment[p] = "pending" => paymentLock[p] = Nobody
    BY DEF RecordPayment, RejectPayment
  <1>3. /\ payment'[p] = s /\ \A o \in Payments \ {p} : payment'[o] = payment[o]
        /\ TypeOK'
    BY <1>0, <1>1, <1>2 DEF TypeOK, locks
  <1>4. Books'
    BY <1>0, <1>2, <1>3, BooksOfUnverified
  <1>5. Hands'
    <2>1. OpenWithdrawal' = OpenWithdrawal
      BY <1>2, SameRefunds
    <2>2. \A o \in Requests : Undisturbed(o)
      BY <1>2, <1>3, <2>1, WithdrawalConstants DEF Undisturbed, locks
    <2> QED BY <1>0, <2>2, HandsKept
  <1> QED BY <1>3, <1>4, <1>5 DEF MoneyInv

\* commit_batch.
LEMMA ImportStep == ASSUME MoneyInv, ImportPayments PROVE MoneyInv'
  <1>0. TypeOK /\ Books /\ Hands
    BY DEF MoneyInv
  <1> DEFINE S == {p \in Imported : Payable(FeeOf[p])}
  <1>1. /\ \A p \in S : payment[p] = "absent"
        /\ payment' = [p \in Payments |-> IF p \in S THEN "verified" ELSE payment[p]]
        /\ paid' = [f \in Fees |-> paid[f] + AmountOn(f, S)]
        /\ UNCHANGED <<status, from, cancelled, refund, locks, req>>
    BY DEF ImportPayments
  <1>2. S \subseteq Payments
    BY WithdrawalConstants
  <1> HIDE DEF S
  <1>3. /\ \A p \in Payments : payment'[p] = IF p \in S THEN "verified" ELSE payment[p]
        /\ \A f \in Fees : paid'[f] = paid[f] + AmountOn(f, S)
    BY <1>1
  <1>4. Books' /\ \A f \in Fees : paid'[f] \in Nat
    BY <1>0, <1>1, <1>2, <1>3, BooksOfImport
  <1>5. TypeOK'
    <2>1. /\ paid' = [f \in Fees |-> paid'[f]]
          /\ payment' \in [Payments -> {"absent", "pending", "verified", "rejected", "refunded"}]
      BY <1>0, <1>1 DEF TypeOK
    <2> QED BY <1>0, <1>1, <1>4, <2>1 DEF TypeOK, locks
  <1>6. Hands'
    <2>1. OpenWithdrawal' = OpenWithdrawal
      BY <1>1, SameRefunds
    <2>2. \A o \in Requests : Undisturbed(o)
      BY <1>1, <1>3, <2>1 DEF Undisturbed, locks
    <2> QED BY <1>0, <2>2, HandsKept
  <1> QED BY <1>4, <1>5, <1>6 DEF MoneyInv

\* verify_payment, before it waits.
LEMMA VerifyBeginStep ==
    ASSUME MoneyInv, NEW q \in Requests, NEW p \in Payments, VerifyBegin(q, p)
    PROVE  MoneyInv'
  <1>0. TypeOK /\ Books /\ Hands
    BY DEF MoneyInv
  <1>1. /\ paymentLock[p] = Nobody /\ payment[p] = "pending"
        /\ paymentLock' = [paymentLock EXCEPT ![p] = q]
        /\ req' = [req EXCEPT ![q] = [Idle EXCEPT !.at = "verify", !.row = p]]
        /\ UNCHANGED <<status, from, books, profileLock, refundLock>>
    BY DEF VerifyBegin
  <1>2. /\ [Idle EXCEPT !.at = "verify", !.row = p] \in Request
        /\ [Idle EXCEPT !.at = "verify", !.row = p].at = "verify"
        /\ [Idle EXCEPT !.at = "verify", !.row = p].row = p
    BY DEF Idle, Request, Nothing
  <1>3. /\ req' \in [Requests -> Request] /\ req'[q].at = "verify" /\ req'[q].row = p
        /\ \A o \in Requests \ {q} : req'[o] = req[o]
        /\ paymentLock' \in [Payments -> Requests \cup {Nobody}] /\ paymentLock'[p] = q
        /\ \A o \in Payments \ {p} : paymentLock'[o] = paymentLock[o]
    BY <1>0, <1>1, <1>2 DEF TypeOK
  <1>4. TypeOK'
    BY <1>0, <1>1, <1>3 DEF TypeOK, books
  <1>5. Books'
    BY <1>0, <1>1, BooksSame DEF books
  <1>6. Hands'
    <2>1. OpenWithdrawal' = OpenWithdrawal
      BY <1>1, SameRefunds DEF books
    <2>2. \A o \in Requests \ {q} : Undisturbed(o)
      BY <1>1, <1>3, <2>1, WithdrawalConstants DEF Undisturbed, books
    <2>3. Holds(q)'
      BY <1>1, <1>3 DEF Holds, books
    <2> QED BY <1>0, <2>2, <2>3, HandsKept
  <1> QED BY <1>4, <1>5, <1>6 DEF MoneyInv

\* ... and after.
LEMMA VerifyCommitStep ==
    ASSUME MoneyInv, NEW q \in Requests, VerifyCommit(q)
    PROVE  MoneyInv'
  <1>0. TypeOK /\ Books /\ Hands
    BY DEF MoneyInv
  <1> DEFINE p == req[q].row
  <1>1. /\ req[q].at = "verify"
        /\ payment' = [payment EXCEPT ![p] = "verified"]
        /\ paid' = [paid EXCEPT ![FeeOf[p]] = @ + Amount[p]]
        /\ Return(q)
        /\ UNCHANGED <<status, from, cancelled, refund>>
    BY DEF VerifyCommit
  <1>2. p \in Payments /\ paymentLock[p] = q /\ payment[p] = "pending"
    BY <1>0, <1>1 DEF Hands, VerifierHolds
  <1> HIDE DEF p
  <1>3. /\ payment' \in [Payments -> {"absent", "pending", "verified", "rejected", "refunded"}]
        /\ payment'[p] = "verified" /\ \A o \in Payments \ {p} : payment'[o] = payment[o]
        /\ paid' \in [Fees -> Nat]
        /\ \A f \in Fees : paid'[f] = paid[f] + (IF FeeOf[p] = f THEN Amount[p] ELSE 0)
    BY <1>0, <1>1, <1>2, Rows DEF TypeOK
  <1>4. /\ req' \in [Requests -> Request] /\ req'[q].at = "idle"
        /\ \A o \in Requests \ {q} : req'[o] = req[o]
        /\ Release(q)
    BY <1>0, <1>1, ReturnIdle
  <1>5. TypeOK'
    BY <1>0, <1>1, <1>3, <1>4, Released DEF TypeOK
  <1>6. Books'
    BY <1>0, <1>1, <1>2, <1>3, BooksOfVerify
  <1>7. Hands'
    <2>1. OpenWithdrawal' = OpenWithdrawal
      BY <1>1, SameRefunds
    <2>2. \A o \in Requests \ {q} : Undisturbed(o)
      BY <1>0, <1>1, <1>2, <1>3, <1>4, <2>1, Released DEF Undisturbed
    <2> QED BY <1>0, <1>4, <2>2, HandsKept
  <1> QED BY <1>5, <1>6, <1>7 DEF MoneyInv

\* void_batch, before it waits.
LEMMA VoidBeginStep ==
    ASSUME MoneyInv, NEW q \in Requests, VoidBegin(q)
    PROVE  MoneyInv'
  <1>0. TypeOK /\ Books /\ Hands
    BY DEF MoneyInv
  <1>1. /\ \A p \in Recorded : paymentLock[p] = Nobody
        /\ paymentLock' = [p \in Payments |-> IF p \in Recorded THEN q ELSE paymentLock[p]]
        /\ req' = [req EXCEPT ![q] = [Idle EXCEPT !.at = "void"]]
        /\ UNCHANGED <<status, from, books, profileLock, refundLock>>
    BY DEF VoidBegin
  <1>2. [Idle EXCEPT !.at = "void"] \in Request /\ [Idle EXCEPT !.at = "void"].at = "void"
    BY IdleTyped
  <1>3. /\ req' \in [Requests -> Request] /\ req'[q].at = "void"
        /\ \A o \in Requests \ {q} : req'[o] = req[o]
        /\ paymentLock' \in [Payments -> Requests \cup {Nobody}]
        /\ \A p \in Payments : paymentLock[p] \in Requests => paymentLock'[p] = paymentLock[p]
    BY <1>0, <1>1, <1>2, WithdrawalConstants DEF TypeOK
  <1>4. TypeOK'
    BY <1>0, <1>1, <1>3 DEF TypeOK, books
  <1>5. Books'
    BY <1>0, <1>1, BooksSame DEF books
  <1>6. Hands'
    <2>1. OpenWithdrawal' = OpenWithdrawal
      BY <1>1, SameRefunds DEF books
    <2>2. \A o \in Requests \ {q} : Undisturbed(o)
      BY <1>1, <1>3, <2>1 DEF Undisturbed, books
    <2> QED BY <1>0, <1>3, <2>2, HandsKept
  <1> QED BY <1>4, <1>5, <1>6 DEF MoneyInv

\* ... and after.
LEMMA VoidCommitStep ==
    ASSUME MoneyInv, NEW q \in Requests, VoidCommit(q)
    PROVE  MoneyInv' /\ \A f \in Fees : paid'[f] <= paid[f]
  <1>0. TypeOK /\ Books /\ Hands
    BY DEF MoneyInv
  <1> DEFINE S == Recorded
  <1>1. /\ \A p \in S : RefundsOf(p, Live) = {}
        /\ payment' = [p \in Payments |-> IF p \in S THEN "refunded" ELSE payment[p]]
        /\ paid' = [f \in Fees |-> Reverse(paid[f], AmountOn(f, S))]
        /\ Return(q)
        /\ UNCHANGED <<status, from, cancelled, refund>>
    BY DEF VoidCommit
  <1>2. S \subseteq Payments /\ \A p \in S : payment[p] = "verified"
    BY WithdrawalConstants DEF Recorded
  <1> HIDE DEF S
  <1>3. /\ payment' \in [Payments -> {"absent", "pending", "verified", "rejected", "refunded"}]
        /\ \A p \in Payments : payment'[p] = IF p \in S THEN "refunded" ELSE payment[p]
        /\ \A f \in Fees : paid'[f] = Reverse(paid[f], AmountOn(f, S))
        /\ paid' = [f \in Fees |-> paid'[f]]
    BY <1>0, <1>1 DEF TypeOK
  <1>4. /\ req' \in [Requests -> Request] /\ req'[q].at = "idle"
        /\ \A o \in Requests \ {q} : req'[o] = req[o]
        /\ Release(q)
    BY <1>0, <1>1, ReturnIdle
  <1>5. Books' /\ \A f \in Fees : paid'[f] \in Nat /\ paid'[f] <= paid[f]
    BY <1>0, <1>1, <1>2, <1>3, BooksOfVoid
  <1>6. TypeOK'
    BY <1>0, <1>1, <1>3, <1>4, <1>5, Released DEF TypeOK
  <1>7. Hands'
    <2>1. OpenWithdrawal' = OpenWithdrawal
      BY <1>1, SameRefunds
    <2>2. \A o \in Requests \ {q} : Undisturbed(o)
      BY <1>0, <1>1, <1>2, <1>3, <1>4, <2>1, Released DEF Undisturbed
    <2> QED BY <1>0, <1>4, <2>2, HandsKept
  <1> QED BY <1>5, <1>6, <1>7 DEF MoneyInv

-----------------------------------------------------------------------------
(* Refunds *)

\* No payment reserves less for its refunds than before.
ReservesStay == \A p \in Payments : Total(refund, p, Live) <= Total(refund', p, Live)

\* A new row.
LEMMA FileTyped ==
    ASSUME NEW p \in Payments, NEW a \in Nat \ {0}, NEW s \in {"manual", "withdrawal"}
    PROVE  /\ File(p, a, s) \in Refund /\ File(p, a, s).status = "pending"
           /\ File(p, a, s).payment = p /\ File(p, a, s).amount = a /\ File(p, a, s).source = s
  BY DEF File, Refund

\* request_refund: one row is new.
LEMMA RequestShape ==
    ASSUME TypeOK, Books, NEW r \in Refunds, NEW p \in Payments, NEW a \in 1..Amount[p],
           RequestRefund(r, p, a)
    PROVE  /\ refund' \in RefundTable /\ NewOf(r, p) /\ refund'[r].source = "manual"
           /\ \A o \in Refunds \ {r} : refund'[o] = refund[o]
           /\ Books' /\ ReservesStay
  <1>1. /\ refund[r].status = "absent" /\ payment[p] = "verified" /\ a <= Available(p)
        /\ refund' = [refund EXCEPT ![r] = File(p, a, "manual")]
        /\ UNCHANGED <<paid, payment>>
    BY DEF RequestRefund
  <1>2. a \in Nat \ {0} /\ a <= Amount[p] - Total(refund, p, Live)
    BY <1>1, Rows, TotalRefundsAre DEF Available
  <1>3. /\ refund' \in RefundTable /\ refund'[r] = File(p, a, "manual")
        /\ \A o \in Refunds \ {r} : refund'[o] = refund[o]
    BY <1>1, <1>2, FileTyped DEF TypeOK, RefundTable
  <1>4. NewOf(r, p) /\ refund'[r].amount = a /\ refund'[r].source = "manual"
    BY <1>1, <1>2, <1>3, FileTyped DEF NewOf
  <1> DEFINE d == [x \in Payments |-> a]
  <1>5. /\ Books'
        /\ \A x \in Payments : Total(refund', x, Live) =
             IF \E o \in Refunds : NewOf(o, x) THEN Total(refund, x, Live) + d[x]
                                               ELSE Total(refund, x, Live)
    <2>1. \A o \in Refunds :
               \/ refund'[o] = refund[o]
               \/ \E x \in Payments :
                    /\ NewOf(o, x) /\ payment[x] = "verified" /\ refund'[o].amount = d[x]
                    /\ refund'[o].source = "withdrawal" => FeeOf[x] \notin Application
      BY <1>1, <1>3, <1>4
    <2>2. \A x \in Payments, o \in Refunds : NewOf(o, x) => o = r /\ x = p
      BY <1>3, <1>4 DEF NewOf
    <2>3. \A x \in Payments, o \in Refunds :
               NewOf(o, x) => /\ \A s \in Refunds : NewOf(s, x) => s = o
                              /\ d[x] \in Nat /\ d[x] <= Amount[x] - Total(refund, x, Live)
      BY <1>2, <2>2
    <2> HIDE DEF d
    <2> QED BY <1>1, <1>3, <2>1, <2>3, BooksOfFiling
  <1>6. ReservesStay
    <2>1. ASSUME NEW x \in Payments PROVE Total(refund, x, Live) <= Total(refund', x, Live)
      <3>1. Total(refund, x, Live) \in Nat /\ d[x] \in Nat
        BY <1>2, Whole
      <3> HIDE DEF d
      <3> QED BY <1>5, <3>1
    <2> QED BY <2>1 DEF ReservesStay
  <1> QED BY <1>3, <1>4, <1>5, <1>6

\* approve_refund, reject_refund: one open row is decided.
LEMMA DecideShape ==
    ASSUME TypeOK, Books, NEW r \in Refunds, ApproveRefund(r) \/ RejectRefund(r)
    PROVE  /\ refund' \in RefundTable /\ Stays(r)
           /\ refund'[r].status \in {"approved", "rejected"}
           /\ refund'[r].status = "rejected" => RejectRefund(r)
           /\ \A o \in Refunds \ {r} : refund'[o] = refund[o]
           /\ Books'
           /\ ReservesStay \/ refund'[r].status = "rejected"
           /\ \A p \in Payments \ {refund[r].payment} :
                Total(refund, p, Live) = Total(refund', p, Live)
  <1>o. refund[r].status \in {"pending", "approved"} /\ UNCHANGED <<paid, payment>>
    BY DEF ApproveRefund, RejectRefund
  <1>1. /\ \/ refund' = [refund EXCEPT ![r].status = "approved"]
           \/ RejectRefund(r) /\ refund' = [refund EXCEPT ![r].status = "rejected"]
    BY DEF ApproveRefund, RejectRefund
  <1>2. PICK s \in {"approved", "rejected"} :
           /\ refund' = [refund EXCEPT ![r].status = s]
           /\ s = "rejected" => RejectRefund(r)
    BY <1>1
  <1>d. s = "rejected" => RejectRefund(r)
    BY <1>2
  <1>3. refund'[r] = [refund[r] EXCEPT !.status = s]
    BY <1>2 DEF TypeOK
  <1>s. /\ \A o \in Refunds \ {r} : refund'[o] = refund[o]
        /\ refund' = [o \in Refunds |-> refund'[o]]
    BY <1>2 DEF TypeOK
  <1>4. /\ refund'[r] \in Refund /\ refund'[r].status = s
        /\ refund'[r].payment = refund[r].payment /\ refund'[r].amount = refund[r].amount
        /\ refund'[r].source = refund[r].source
    <2>1. refund[r] \in Refund /\ refund[r].status # "absent"
          /\ s \in {"pending", "approved", "refunded", "rejected"}
      BY <1>o, Rows
    <2>2. /\ [refund[r] EXCEPT !.status = s] \in Refund
          /\ [refund[r] EXCEPT !.status = s].status = s
          /\ [refund[r] EXCEPT !.status = s].payment = refund[r].payment
          /\ [refund[r] EXCEPT !.status = s].amount = refund[r].amount
          /\ [refund[r] EXCEPT !.status = s].source = refund[r].source
      BY <2>1, Stamped
    <2> QED BY <1>3, <2>2, Zenon
  <1>5. refund' \in RefundTable /\ Stays(r)
    BY <1>o, <1>s, <1>4, Rows DEF RefundTable, Stays
  <1>6. \A o \in Refunds : \/ refund'[o] = refund[o]
                           \/ Stays(o) /\ refund'[o].status \in {"approved", "rejected"}
    BY <1>s, <1>4, <1>5
  <1>7. /\ Books'
        /\ \A p \in Payments :
             \/ Total(refund', p, Live) = Total(refund, p, Live)
             \/ \E o \in Refunds : /\ Stays(o) /\ refund'[o].status = "rejected"
                                   /\ refund[o].payment = p
    <2>1. refund' \in RefundTable /\ UNCHANGED <<paid, payment>>
      BY <1>o, <1>5
    <2> QED BY <2>1, <1>6, BooksOfDecisions
  <1>8. \A o \in Refunds : Stays(o) /\ refund'[o].status = "rejected" => o = r
    BY <1>s DEF Stays
  <1>9. \A p \in Payments : Total(refund, p, Live) \in Nat
    BY Whole
  <1>10. ReservesStay \/ s = "rejected"
    BY <1>4, <1>7, <1>8, <1>9 DEF ReservesStay
  <1> QED BY <1>d, <1>s, <1>4, <1>5, <1>7, <1>8, <1>10

\* process_approved_refund: one approved row is paid.
LEMMA ProcessShape ==
    ASSUME MoneyInv, NEW q \in Requests, ProcessCommit(q)
    PROVE  LET r == req[q].row
           IN  /\ req[q].at = "process" /\ r \in Refunds /\ refundLock[r] = q
               /\ refund[r].status = "approved"
               /\ refund' \in RefundTable /\ refund'[r].status = "refunded"
               /\ refund'[r].source = refund[r].source
               /\ \A o \in Refunds \ {r} : refund'[o] = refund[o]
               /\ UNCHANGED <<cancelled, payment>> /\ Release(q)
               /\ Books' /\ ReservesStay
               /\ paid' \in [Fees -> Nat] /\ \A f \in Fees : paid'[f] <= paid[f]
  <1> DEFINE r == req[q].row
             p == refund[r].payment
             f == FeeOf[p]
             a == refund[r].amount
  <1>0. TypeOK /\ Books /\ Hands
    BY DEF MoneyInv
  <1>1. /\ req[q].at = "process"
        /\ refund' = [refund EXCEPT ![r].status = "refunded"]
        /\ paid' = [paid EXCEPT ![f] = Reverse(paid[f], a)]
        /\ UNCHANGED <<cancelled, payment>> /\ Release(q)
    BY DEF ProcessCommit
  <1>2. r \in Refunds /\ refundLock[r] = q /\ refund[r].status = "approved"
    BY <1>0, <1>1 DEF Hands, PayerHolds
  <1> HIDE DEF r
  <1>3. p \in Payments /\ f \in Fees
    BY <1>0, <1>2, Rows, Row
  <1>u. refund'[r] = [refund[r] EXCEPT !.status = "refunded"]
    BY <1>0, <1>1, <1>2 DEF TypeOK
  <1>4. /\ \A o \in Refunds \ {r} : refund'[o] = refund[o]
        /\ refund' = [o \in Refunds |-> refund'[o]]
    BY <1>0, <1>1, <1>2 DEF TypeOK
  <1>5. /\ refund'[r] \in Refund /\ refund'[r].status = "refunded"
        /\ refund'[r].payment = p /\ refund'[r].amount = a
        /\ refund'[r].source = refund[r].source
    <2>1. refund[r] \in Refund /\ refund[r].status # "absent"
      BY <1>0, <1>2, Rows
    <2>2. /\ [refund[r] EXCEPT !.status = "refunded"] \in Refund
          /\ [refund[r] EXCEPT !.status = "refunded"].status = "refunded"
          /\ [refund[r] EXCEPT !.status = "refunded"].payment = refund[r].payment
          /\ [refund[r] EXCEPT !.status = "refunded"].amount = refund[r].amount
          /\ [refund[r] EXCEPT !.status = "refunded"].source = refund[r].source
      BY <2>1, Stamped
    <2> QED BY <1>u, <2>2, Zenon DEF p, a
  <1>6. refund' \in RefundTable
    BY <1>0, <1>4, <1>5, Rows DEF RefundTable
  <1> HIDE DEF p, f, a
  <1>7. /\ paid'[f] = Reverse(paid[f], a) /\ \A g \in Fees \ {f} : paid'[g] = paid[g]
        /\ paid' = [g \in Fees |-> paid'[g]]
    BY <1>0, <1>1, <1>3 DEF TypeOK
  <1>8. /\ Books' /\ \A g \in Fees : paid'[g] \in Nat /\ paid'[g] <= paid[g]
        /\ \A o \in Payments : Total(refund', o, Live) = Total(refund, o, Live)
    <2>1. p = refund[r].payment /\ f = FeeOf[p] /\ a = refund[r].amount
      BY DEF p, f, a
    <2>2. payment' = payment
      BY <1>1
    <2> QED BY <1>0, <1>2, <1>4, <1>5, <1>6, <1>7, <2>1, <2>2, BooksOfProcess
  <1>9. ReservesStay
    BY <1>0, <1>8, Whole DEF ReservesStay
  <1>10. paid' \in [Fees -> Nat]
    BY <1>7, <1>8
  <1> QED BY <1>1, <1>2, <1>4, <1>5, <1>6, <1>8, <1>9, <1>10 DEF r

\* Every payment with money due has one new refund, and a new refund is for one.
LEMMA RowsFor ==
    ASSUME NEW due, NEW free, NEW row \in Injection(due, free)
    PROVE  LET of == AntiFunction(row)
           IN  /\ DOMAIN of \subseteq free
               /\ \A r \in DOMAIN of : of[r] \in due /\ row[of[r]] = r
               /\ \A p \in due : row[p] \in DOMAIN of /\ of[row[p]] = p
  <1> DEFINE of == AntiFunction(row)
  <1>1. /\ DOMAIN row = due /\ \A p \in due : row[p] \in free
        /\ \A p, o \in due : row[p] = row[o] => p = o
    BY DEF Injection, IsInjective
  <1>2. of = [r \in Range(row) |-> CHOOSE p \in due : r \in Range(row) => row[p] = r]
    BY <1>1 DEF AntiFunction, Inverse
  <1> HIDE DEF of
  <1>3. \A r \in Range(row) : \E p \in due : row[p] = r
    BY <1>1 DEF Range
  <1>4. \A r \in Range(row) : of[r] \in due /\ row[of[r]] = r
    BY <1>2, <1>3
  <1>5. DOMAIN of = Range(row) /\ Range(row) \subseteq free /\ \A p \in due : row[p] \in Range(row)
    BY <1>1, <1>2 DEF Range
  <1> QED BY <1>1, <1>4, <1>5 DEF of

\* withdraw_profile: one row is new for each payment with money due.
LEMMA WithdrawShape ==
    ASSUME TypeOK, Books, Hands, NEW q \in Requests, WithdrawCommit(q)
    PROVE  /\ refund' \in RefundTable
           /\ \A r \in Refunds :
                \/ refund'[r] = refund[r]
                \/ \E p \in Payments : NewOf(r, p) /\ refund'[r].source = "withdrawal"
           /\ Books' /\ ReservesStay
           /\ \A p \in Payments : req[q].due[p] > 0 =>
                /\ payment[p] = "verified" /\ FeeOf[p] \notin Application
                /\ req[q].due[p] <= Amount[p] - Total(refund, p, Live)
                /\ Total(refund', p, Live) = Total(refund, p, Live) + req[q].due[p]
  <1> DEFINE d == req[q].due
             due == {p \in Payments : d[p] > 0}
             free == {r \in Refunds : refund[r].status = "absent"}
  <1>1. /\ req[q].at = "withdraw" /\ UNCHANGED <<paid, payment>>
        /\ \A p \in due : payment[p] = "verified" /\ d[p] <= Available(p)
    BY DEF WithdrawCommit
  <1>2. PICK row \in Injection(due, free) :
           refund' = [r \in Refunds |->
               IF r \in DOMAIN AntiFunction(row)
               THEN File(AntiFunction(row)[r], d[AntiFunction(row)[r]], "withdrawal")
               ELSE refund[r]]
    BY DEF WithdrawCommit
  <1> DEFINE of == AntiFunction(row)
  <1>3. /\ DOMAIN of \subseteq free
        /\ \A r \in DOMAIN of : of[r] \in due /\ row[of[r]] = r
        /\ \A p \in due : row[p] \in DOMAIN of /\ of[row[p]] = p
    <2> HIDE DEF due, free
    <2> QED BY RowsFor
  <1>4. \A p \in due : /\ p \in Payments /\ d[p] \in Nat \ {0} /\ payment[p] = "verified"
                       /\ d[p] <= Amount[p] - Total(refund, p, Live)
                       /\ FeeOf[p] \notin Application
    <2>1. \A p \in due : FeeOf[p] \notin Application
      BY <1>1 DEF Hands, WithdrawerKnows
    <2>2. \A p \in due : d[p] \in Nat \ {0}
      BY Rows
    <2>3. \A p \in Payments : Available(p) = Amount[p] - Total(refund, p, Live)
      BY Rows, TotalRefundsAre DEF Available
    <2> QED BY <1>1, <2>1, <2>2, <2>3
  <1>5. /\ \A r \in DOMAIN of : refund'[r] = File(of[r], d[of[r]], "withdrawal")
        /\ \A r \in Refunds \ DOMAIN of : refund'[r] = refund[r]
        /\ refund' = [r \in Refunds |-> refund'[r]]
    BY <1>2, <1>3
  <1> HIDE DEF of
  <1>6. \A r \in DOMAIN of :
           /\ r \in Refunds /\ NewOf(r, of[r]) /\ refund'[r] \in Refund
           /\ refund'[r].amount = d[of[r]] /\ refund'[r].source = "withdrawal"
    <2> TAKE r \in DOMAIN of
    <2>1. r \in Refunds /\ refund[r].status = "absent"
      BY <1>3
    <2>2. of[r] \in Payments /\ d[of[r]] \in Nat \ {0}
      BY <1>3, <1>4
    <2> HIDE DEF d
    <2>3. /\ refund'[r] = File(of[r], d[of[r]], "withdrawal")
      BY <1>5
    <2> QED BY <2>1, <2>2, <2>3, FileTyped DEF NewOf
  <1>7. refund' \in RefundTable
    BY <1>5, <1>6, Rows DEF RefundTable
  <1>8. \A p \in Payments, r \in Refunds : NewOf(r, p) => r \in DOMAIN of /\ p = of[r] /\ p \in due
    <2> TAKE p \in Payments, r \in Refunds
    <2> HAVE NewOf(r, p)
    <2>1. r \in DOMAIN of
      BY <1>5 DEF NewOf
    <2> QED BY <1>3, <1>6, <2>1 DEF NewOf
  <1>9. \A p \in due : row[p] \in Refunds /\ NewOf(row[p], p)
    BY <1>3, <1>6
  <1>10. /\ Books'
         /\ \A p \in Payments : Total(refund', p, Live) =
              IF \E r \in Refunds : NewOf(r, p) THEN Total(refund, p, Live) + d[p]
                                                ELSE Total(refund, p, Live)
    <2>1. \A r \in Refunds :
               \/ refund'[r] = refund[r]
               \/ \E p \in Payments :
                    /\ NewOf(r, p) /\ payment[p] = "verified" /\ refund'[r].amount = d[p]
                    /\ refund'[r].source = "withdrawal" => FeeOf[p] \notin Application
      <3> TAKE r \in Refunds
      <3>1. CASE r \in DOMAIN of
        <4>1. of[r] \in due /\ of[r] \in Payments
          BY <1>3, <3>1
        <4> QED BY <1>4, <1>6, <3>1, <4>1
      <3>2. CASE r \notin DOMAIN of
        BY <1>5, <3>2
      <3> QED BY <3>1, <3>2
    <2>2. \A p \in Payments, r \in Refunds :
               NewOf(r, p) => /\ \A s \in Refunds : NewOf(s, p) => s = r
                              /\ d[p] \in Nat /\ d[p] <= Amount[p] - Total(refund, p, Live)
      <3> HIDE DEF d, due
      <3> QED BY <1>3, <1>4, <1>8
    <2>3. UNCHANGED <<paid, payment>>
      BY <1>1
    <2> HIDE DEF d
    <2> QED BY <1>7, <2>1, <2>2, <2>3, BooksOfFiling
  <1>11. \A p \in Payments : d[p] > 0 =>
           Total(refund', p, Live) = Total(refund, p, Live) + d[p]
    BY <1>9, <1>10
  <1>12. ReservesStay
    <2>1. ASSUME NEW p \in Payments PROVE Total(refund, p, Live) <= Total(refund', p, Live)
      <3>1. Total(refund, p, Live) \in Nat /\ d[p] \in Nat
        BY Whole, Rows
      <3> HIDE DEF d
      <3> QED BY <1>10, <3>1
    <2> QED BY <2>1 DEF ReservesStay
  <1>13. \A r \in Refunds : \/ refund'[r] = refund[r]
                            \/ \E p \in Payments : NewOf(r, p) /\ refund'[r].source = "withdrawal"
    <2> TAKE r \in Refunds
    <2>1. CASE r \in DOMAIN of
      <3>1. of[r] \in Payments
        BY <1>3, <2>1
      <3> QED BY <1>6, <2>1, <3>1
    <2>2. CASE r \notin DOMAIN of
      BY <1>5, <2>2
    <2> QED BY <2>1, <2>2
  <1> QED BY <1>4, <1>7, <1>10, <1>11, <1>12, <1>13

\* cancel_withdrawal: every row it read is refused.
LEMMA CancelShape ==
    ASSUME TypeOK, Books, Hands, NEW q \in Requests, CancelCommit(q)
    PROVE  /\ refund' \in RefundTable /\ Books'
           /\ \A r \in Refunds : \/ refund'[r] = refund[r]
                                 \/ /\ r \in req[q].rows /\ refundLock[r] = Nobody /\ Stays(r)
                                    /\ refund'[r].status = "rejected"
  <1>1. /\ req[q].at = "cancel" /\ \A r \in req[q].rows : refundLock[r] = Nobody
        /\ UNCHANGED <<paid, payment>>
    BY DEF CancelCommit
  <1>2. refund' = [r \in Refunds |->
           IF r \in req[q].rows THEN [refund[r] EXCEPT !.status = "rejected"] ELSE refund[r]]
    BY DEF CancelCommit
  <1>3. req[q].rows \subseteq OpenWithdrawal
    BY <1>1 DEF Hands, CancellerSees
  <1>4. ASSUME NEW r \in req[q].rows
        PROVE  refund'[r] \in Refund /\ Stays(r) /\ refund'[r].status = "rejected"
    <2>1. /\ r \in Refunds /\ refund[r] \in Refund
          /\ refund[r].status \in {"pending", "approved"}
      BY <1>3, <1>4, Rows DEF OpenWithdrawal
    <2>2. /\ [refund[r] EXCEPT !.status = "rejected"] \in Refund
          /\ [refund[r] EXCEPT !.status = "rejected"].status = "rejected"
          /\ [refund[r] EXCEPT !.status = "rejected"].payment = refund[r].payment
          /\ [refund[r] EXCEPT !.status = "rejected"].amount = refund[r].amount
          /\ [refund[r] EXCEPT !.status = "rejected"].source = refund[r].source
      BY <2>1, Stamped
    <2>3. refund'[r] = [refund[r] EXCEPT !.status = "rejected"]
      BY <1>2, <1>4, <2>1
    <2> QED BY <2>1, <2>2, <2>3, Zenon DEF Stays
  <1>5. /\ \A r \in Refunds : r \notin req[q].rows => refund'[r] = refund[r]
        /\ refund' = [r \in Refunds |-> refund'[r]]
    BY <1>2
  <1>6. refund' \in RefundTable
    BY <1>4, <1>5, Rows DEF RefundTable
  <1>7. \A r \in Refunds : \/ refund'[r] = refund[r]
                           \/ /\ r \in req[q].rows /\ refundLock[r] = Nobody /\ Stays(r)
                              /\ refund'[r].status = "rejected"
    BY <1>1, <1>4, <1>5
  <1>8. Books'
    <2>1. UNCHANGED <<paid, payment>>
      BY <1>1
    <2>2. \A r \in Refunds : \/ refund'[r] = refund[r]
                             \/ Stays(r) /\ refund'[r].status \in {"approved", "rejected"}
      BY <1>7
    <2> QED BY <1>6, <2>1, <2>2, BooksOfDecisions
  <1> QED BY <1>6, <1>7, <1>8

\* request_refund.
LEMMA RequestStep ==
    ASSUME MoneyInv, NEW r \in Refunds, NEW p \in Payments, NEW a \in 1..Amount[p],
           RequestRefund(r, p, a)
    PROVE  MoneyInv'
  <1>0. TypeOK /\ Books /\ Hands
    BY DEF MoneyInv
  <1>1. UNCHANGED <<status, from, paid, cancelled, payment, locks, req>>
    BY DEF RequestRefund
  <1>2. /\ refund' \in RefundTable /\ NewOf(r, p) /\ Books'
        /\ \A o \in Refunds \ {r} : refund'[o] = refund[o]
    BY <1>0, RequestShape
  <1>3. TypeOK'
    BY <1>0, <1>1, <1>2 DEF TypeOK, RefundTable, locks
  <1>4. \A o \in Requests : Undisturbed(o)
    BY <1>1, <1>2 DEF Undisturbed, NewOf, OpenWithdrawal, locks
  <1> QED BY <1>0, <1>2, <1>3, <1>4, HandsKept DEF MoneyInv

\* approve_refund, reject_refund: not of a refund another request is paying, and not
\* of one a cancellation has read.
LEMMA DecideStep ==
    ASSUME Inv, MoneyInv, NEW r \in Refunds, ApproveRefund(r) \/ RejectRefund(r)
    PROVE  MoneyInv'
  <1>0. TypeOK /\ Books /\ Hands
    BY DEF MoneyInv
  <1>1. /\ UNCHANGED <<status, from, paid, cancelled, payment, locks, req>>
        /\ refundLock[r] = Nobody
    BY DEF ApproveRefund, RejectRefund
  <1>2. /\ refund' \in RefundTable /\ Books'
        /\ \A o \in Refunds \ {r} : refund'[o] = refund[o]
        /\ Stays(r) /\ refund'[r].status \in {"approved", "rejected"}
        /\ refund'[r].status = "rejected" => RejectRefund(r)
    BY <1>0, DecideShape
  <1>3. TypeOK'
    BY <1>0, <1>1, <1>2 DEF TypeOK, RefundTable, locks
  <1>4. ASSUME NEW o \in Requests, req[o].at = "cancel" PROVE OpenWithdrawal \subseteq OpenWithdrawal'
    <2>1. status = "withdrawal_pending"
      BY <1>4 DEF Inv, ReadersHoldRow
    <2>2. refund'[r].status = "rejected" => refund[r].source # "withdrawal"
      BY <1>2, <2>1 DEF RejectRefund
    <2> QED BY <1>2, <2>2 DEF OpenWithdrawal, Stays
  <1>5. \A o \in Requests : Undisturbed(o)
    BY <1>1, <1>2, <1>4, WithdrawalConstants DEF Undisturbed, locks
  <1> QED BY <1>0, <1>2, <1>3, <1>5, HandsKept DEF MoneyInv

\* process_approved_refund, before it waits.
LEMMA ProcessBeginStep ==
    ASSUME MoneyInv, NEW q \in Requests, NEW r \in Refunds, ProcessBegin(q, r)
    PROVE  MoneyInv'
  <1>0. TypeOK /\ Books /\ Hands
    BY DEF MoneyInv
  <1>1. /\ refundLock[r] = Nobody /\ refund[r].status = "approved"
        /\ refundLock' = [refundLock EXCEPT ![r] = q]
        /\ req' = [req EXCEPT ![q] = [Idle EXCEPT !.at = "process", !.row = r]]
        /\ UNCHANGED <<status, from, books, profileLock, paymentLock>>
    BY DEF ProcessBegin
  <1>2. /\ [Idle EXCEPT !.at = "process", !.row = r] \in Request
        /\ [Idle EXCEPT !.at = "process", !.row = r].at = "process"
        /\ [Idle EXCEPT !.at = "process", !.row = r].row = r
    BY DEF Idle, Request, Nothing
  <1>3. /\ req' \in [Requests -> Request] /\ req'[q].at = "process" /\ req'[q].row = r
        /\ \A o \in Requests \ {q} : req'[o] = req[o]
        /\ refundLock' \in [Refunds -> Requests \cup {Nobody}] /\ refundLock'[r] = q
        /\ \A o \in Refunds \ {r} : refundLock'[o] = refundLock[o]
    BY <1>0, <1>1, <1>2 DEF TypeOK
  <1>4. TypeOK'
    BY <1>0, <1>1, <1>3 DEF TypeOK, books
  <1>5. Books'
    BY <1>0, <1>1, BooksSame DEF books
  <1>6. Hands'
    <2>1. OpenWithdrawal' = OpenWithdrawal
      BY <1>1, SameRefunds DEF books
    <2>2. \A o \in Requests \ {q} : Undisturbed(o)
      BY <1>1, <1>3, <2>1, WithdrawalConstants DEF Undisturbed, books
    <2>3. Holds(q)'
      BY <1>1, <1>3 DEF Holds, books
    <2> QED BY <1>0, <2>2, <2>3, HandsKept
  <1> QED BY <1>4, <1>5, <1>6 DEF MoneyInv

\* ... and after.
LEMMA ProcessStep ==
    ASSUME Inv, MoneyInv, NEW q \in Requests, ProcessCommit(q)
    PROVE  MoneyInv'
  <1> DEFINE r == req[q].row
  <1>0. TypeOK /\ Books /\ Hands
    BY DEF MoneyInv
  <1>1. /\ req[q].at = "process" /\ r \in Refunds /\ refundLock[r] = q
        /\ refund' \in RefundTable /\ \A o \in Refunds \ {r} : refund'[o] = refund[o]
        /\ UNCHANGED <<cancelled, payment>> /\ Release(q)
        /\ Books' /\ paid' \in [Fees -> Nat]
    BY ProcessShape
  <1> HIDE DEF r
  <1>2. /\ ProfileFree(q)
        /\ \/ UNCHANGED <<status, from>>
           \/ status' = "withdrawn" /\ from' = status
        /\ \E at \in {"idle", "cleanup"} : req' = [req EXCEPT ![q] = [Idle EXCEPT !.at = at]]
    <2>1. [Idle EXCEPT !.at = "idle"] = Idle
      BY DEF Idle
    <2> QED BY <2>1 DEF ProcessCommit, MoveTo
  <1>3. /\ req' \in [Requests -> Request] /\ req'[q].at \in {"idle", "cleanup"}
        /\ \A o \in Requests \ {q} : req'[o] = req[o]
    <2>1. /\ [Idle EXCEPT !.at = "cleanup"] \in Request /\ [Idle EXCEPT !.at = "cleanup"].at = "cleanup"
          /\ [Idle EXCEPT !.at = "idle"] \in Request /\ [Idle EXCEPT !.at = "idle"].at = "idle"
      BY DEF Idle, Request, Nothing
    <2> QED BY <1>0, <1>2, <2>1 DEF TypeOK
  <1>4. TypeOK'
    <2>1. status' \in Statuses /\ from' \in Statuses
      BY <1>0, <1>2 DEF TypeOK, Statuses
    <2> QED BY <1>0, <1>1, <1>3, <2>1, Released DEF TypeOK, RefundTable
  <1>5. \A o \in Requests \ {q} : req[o].at # "cancel"
    BY <1>1, <1>2, WithdrawalConstants DEF Inv, ReadersHoldRow, ProfileFree
  <1>6. \A o \in Requests \ {q} : Undisturbed(o)
    BY <1>0, <1>1, <1>3, <1>5, Released DEF Undisturbed
  <1> QED BY <1>0, <1>1, <1>3, <1>4, <1>6, HandsKept DEF MoneyInv

\* What leaves the books, the requests and the locks alone.
LEMMA QuietStep ==
    ASSUME MoneyInv, UNCHANGED <<paid, payment, refund, locks, req>>,
           status' \in Statuses, from' \in Statuses, cancelled' \subseteq Fees
    PROVE  MoneyInv'
  <1>0. TypeOK /\ Books /\ Hands
    BY DEF MoneyInv
  <1>1. TypeOK'
    BY <1>0 DEF TypeOK, locks
  <1>2. Books'
    BY <1>0, BooksSame
  <1>3. \A o \in Requests : Undisturbed(o)
    BY SameRefunds DEF Undisturbed, locks
  <1> QED BY <1>0, <1>1, <1>2, <1>3, HandsKept DEF MoneyInv

\* What ends a transaction and moves no money: a failure, the direct withdrawal.
LEMMA EndStep ==
    ASSUME MoneyInv, NEW q \in Requests, Return(q), UNCHANGED <<paid, payment, refund>>,
           status' \in Statuses, from' \in Statuses, cancelled' \subseteq Fees
    PROVE  MoneyInv'
  <1>0. TypeOK /\ Books /\ Hands
    BY DEF MoneyInv
  <1>1. /\ req' \in [Requests -> Request] /\ req'[q].at = "idle"
        /\ \A o \in Requests \ {q} : req'[o] = req[o]
        /\ Release(q)
    BY <1>0, ReturnIdle
  <1>2. TypeOK'
    BY <1>0, <1>1, Released DEF TypeOK
  <1>3. Books'
    BY <1>0, BooksSame
  <1>4. \A o \in Requests \ {q} : Undisturbed(o)
    BY <1>0, <1>1, Released, SameRefunds DEF Undisturbed
  <1> QED BY <1>0, <1>1, <1>2, <1>3, <1>4, HandsKept DEF MoneyInv

\* withdraw_profile and cancel_withdrawal, once they hold the profile.
LEMMA BeginStep ==
    ASSUME MoneyInv, NEW q \in Requests, WithdrawBegin(q) \/ CancelBegin(q)
    PROVE  MoneyInv'
  <1>0. TypeOK /\ Books /\ Hands
    BY DEF MoneyInv
  <1> DEFINE d == [p \in Payments |-> IF p \in Returnable THEN Available(p) ELSE 0]
             w == [Idle EXCEPT !.at = "withdraw", !.due = d]
             c == [Idle EXCEPT !.at = "cancel", !.rows = OpenWithdrawal]
  <1>1. /\ profileLock' = q
        /\ \/ req' = [req EXCEPT ![q] = w]
           \/ req' = [req EXCEPT ![q] = c]
        /\ UNCHANGED <<status, from, books, paymentLock, refundLock>>
    BY DEF WithdrawBegin, CancelBegin
  <1>2. d \in [Payments -> Nat] /\ \A p \in Payments : d[p] > 0 => FeeOf[p] \notin Application
    <2>1. \A p \in Payments : Available(p) \in Nat
      <3> TAKE p \in Payments
      <3>1. Available(p) = Amount[p] - Total(refund, p, Live)
        BY <1>0, Rows, TotalRefundsAre DEF Available
      <3>2. Amount[p] \in Nat /\ Total(refund, p, Live) \in Nat /\ Total(refund, p, Live) <= Amount[p]
        BY <1>0, Whole, Rows
      <3> QED BY <3>1, <3>2
    <2> QED BY <2>1 DEF Returnable
  <1> HIDE DEF d
  <1>3. /\ w \in Request /\ w.at = "withdraw" /\ w.due = d
        /\ c \in Request /\ c.at = "cancel" /\ c.rows = OpenWithdrawal
    BY <1>2 DEF Idle, Request, Nothing, OpenWithdrawal
  <1> HIDE DEF w, c
  <1>4. /\ req' \in [Requests -> Request]
        /\ req'[q] \in {w, c} /\ \A o \in Requests \ {q} : req'[o] = req[o]
    BY <1>0, <1>1, <1>3 DEF TypeOK
  <1>5. TypeOK'
    BY <1>0, <1>1, <1>4 DEF TypeOK, books
  <1>6. Books'
    BY <1>0, <1>1, BooksSame DEF books
  <1>7. Hands'
    <2>1. OpenWithdrawal' = OpenWithdrawal
      BY <1>1, SameRefunds DEF books
    <2>2. \A o \in Requests \ {q} : Undisturbed(o)
      BY <1>1, <1>4, <2>1 DEF Undisturbed, books
    <2>3. Holds(q)'
      <3>1. /\ req'[q].at \in {"withdraw", "cancel"}
            /\ req'[q].at = "withdraw" => req'[q].due = d
            /\ req'[q].at = "cancel" => req'[q].rows = OpenWithdrawal
        BY <1>3, <1>4
      <3> QED BY <1>2, <2>1, <3>1 DEF Holds
    <2> QED BY <1>0, <2>2, <2>3, HandsKept
  <1> QED BY <1>5, <1>6, <1>7 DEF MoneyInv

\* withdraw_profile, its refunds.
LEMMA WithdrawStep ==
    ASSUME Inv, MoneyInv, NEW q \in Requests, WithdrawCommit(q)
    PROVE  MoneyInv'
  <1>0. TypeOK /\ Books /\ Hands
    BY DEF MoneyInv
  <1>1. /\ req[q].at = "withdraw" /\ cancelled' \subseteq Fees
        /\ status' \in Statuses /\ from' = status
        /\ Return(q) /\ UNCHANGED <<paid, payment>>
    <2>1. req[q].at = "withdraw" /\ Return(q) /\ UNCHANGED <<paid, payment>> /\ cancelled \subseteq Fees
      BY <1>0 DEF WithdrawCommit, TypeOK
    <2>2. cancelled' = cancelled \cup {f \in Fees \ cancelled : paid[f] = 0}
      BY DEF WithdrawCommit
    <2>3. status' \in Statuses /\ from' = status
      BY DEF WithdrawCommit, MoveTo, Statuses
    <2> QED BY <2>1, <2>2, <2>3
  <1>2. /\ refund' \in RefundTable /\ Books'
        /\ \A r \in Refunds : refund'[r] = refund[r] \/ \E p \in Payments : NewOf(r, p)
    BY <1>0, WithdrawShape
  <1>3. /\ req' \in [Requests -> Request] /\ req'[q].at = "idle"
        /\ \A o \in Requests \ {q} : req'[o] = req[o]
        /\ Release(q)
    BY <1>0, <1>1, ReturnIdle
  <1>4. TypeOK'
    <2>1. from' \in Statuses
      BY <1>0, <1>1 DEF TypeOK
    <2> QED BY <1>0, <1>1, <1>2, <1>3, <2>1, Released DEF TypeOK, RefundTable
  <1>5. \A o \in Requests \ {q} : Undisturbed(o)
    <2>1. \A o \in Requests \ {q} : req[o].at # "cancel"
      BY <1>1 DEF Inv, ReadersHoldRow
    <2> QED BY <1>0, <1>1, <1>2, <1>3, <2>1, Released DEF Undisturbed, NewOf
  <1> QED BY <1>0, <1>2, <1>3, <1>4, <1>5, HandsKept DEF MoneyInv

\* cancel_withdrawal, its refusals.
LEMMA CancelStep ==
    ASSUME Inv, MoneyInv, NEW q \in Requests, CancelCommit(q)
    PROVE  MoneyInv'
  <1>0. TypeOK /\ Books /\ Hands
    BY DEF MoneyInv
  <1>1. /\ req[q].at = "cancel" /\ status' = "draft" /\ from' = status
        /\ Return(q) /\ UNCHANGED <<paid, cancelled, payment>>
    BY DEF CancelCommit, MoveTo
  <1>2. /\ refund' \in RefundTable /\ Books'
        /\ \A r \in Refunds : refund'[r] = refund[r] \/ refundLock[r] = Nobody
    BY <1>0, CancelShape
  <1>3. /\ req' \in [Requests -> Request] /\ req'[q].at = "idle"
        /\ \A o \in Requests \ {q} : req'[o] = req[o]
        /\ Release(q)
    BY <1>0, <1>1, ReturnIdle
  <1>4. TypeOK'
    <2>1. from' \in Statuses /\ status' \in Statuses
      BY <1>0, <1>1 DEF TypeOK, Statuses
    <2> QED BY <1>0, <1>1, <1>2, <1>3, <2>1, Released DEF TypeOK, RefundTable
  <1>5. \A o \in Requests \ {q} : Undisturbed(o)
    <2>1. \A o \in Requests \ {q} : req[o].at # "cancel"
      BY <1>1 DEF Inv, ReadersHoldRow
    <2> QED BY <1>0, <1>1, <1>2, <1>3, <2>1, Released, WithdrawalConstants DEF Undisturbed
  <1> QED BY <1>0, <1>2, <1>3, <1>4, <1>5, HandsKept DEF MoneyInv

\* Every step keeps types, books and what the requests hold.
LEMMA StepMoney ==
    ASSUME Inv, MoneyInv, [Next]_vars
    PROVE  MoneyInv'
  <1>0. TypeOK
    BY DEF MoneyInv
  <1>1. CASE \E p \in Payments : RecordPayment(p) \/ RejectPayment(p)
    BY <1>1, RecordStep
  <1>2. CASE ImportPayments
    BY <1>2, ImportStep
  <1>3. CASE \E r \in Refunds, p \in Payments : \E a \in 1..Amount[p] : RequestRefund(r, p, a)
    BY <1>3, RequestStep
  <1>4. CASE \E r \in Refunds : ApproveRefund(r) \/ RejectRefund(r)
    BY <1>4, DecideStep
  <1>5. CASE Admit \/ Rollback
    <2>1. /\ UNCHANGED <<paid, payment, refund, locks, req>> /\ UNCHANGED cancelled
          /\ status' \in Statuses /\ from' = status
      BY <1>5 DEF Admit, Rollback, MoveTo, books, Statuses
    <2> QED BY <1>0, <2>1, QuietStep DEF TypeOK
  <1>6. ASSUME NEW q \in Requests, \E p \in Payments : VerifyBegin(q, p) PROVE MoneyInv'
    BY <1>6, VerifyBeginStep
  <1>7. ASSUME NEW q \in Requests, \E r \in Refunds : ProcessBegin(q, r) PROVE MoneyInv'
    BY <1>7, ProcessBeginStep
  <1>8. ASSUME NEW q \in Requests, NEW f \in Fees, CancelPhantomFee(q, f) PROVE MoneyInv'
    <2>1. /\ UNCHANGED <<paid, payment, refund, locks, req>> /\ UNCHANGED <<status, from>>
          /\ cancelled' = cancelled \cup {f}
      BY <1>8 DEF CancelPhantomFee
    <2> QED BY <1>0, <2>1, QuietStep DEF TypeOK
  <1>9. ASSUME NEW q \in Requests, WithdrawDirectly(q) \/ Fail(q) PROVE MoneyInv'
    <2>1. /\ Return(q) /\ UNCHANGED <<paid, payment, refund>> /\ UNCHANGED cancelled
          /\ \/ UNCHANGED <<status, from>>
             \/ status' = "withdrawn" /\ from' = status
      BY <1>9 DEF WithdrawDirectly, Fail, MoveTo, books
    <2>2. status' \in Statuses /\ from' \in Statuses /\ cancelled' \subseteq Fees
      BY <1>0, <2>1 DEF TypeOK, Statuses
    <2> QED BY <2>1, <2>2, EndStep
  <1>10. ASSUME NEW q \in Requests,
                \/ VerifyCommit(q) \/ VoidBegin(q) \/ VoidCommit(q) \/ ProcessCommit(q)
                \/ WithdrawBegin(q) \/ WithdrawCommit(q) \/ CancelBegin(q) \/ CancelCommit(q)
         PROVE  MoneyInv'
    BY <1>10, VerifyCommitStep, VoidBeginStep, VoidCommitStep, ProcessStep, BeginStep,
       WithdrawStep, CancelStep
  <1>11. CASE UNCHANGED vars
    <2>1. UNCHANGED <<paid, payment, refund, locks, req>> /\ UNCHANGED <<status, from, cancelled>>
      BY <1>11 DEF vars, locks
    <2> QED BY <1>0, <2>1, QuietStep DEF TypeOK
  <1> QED
    BY <1>1, <1>2, <1>3, <1>4, <1>5, <1>6, <1>7, <1>8, <1>9, <1>10, <1>11 DEF Next

-----------------------------------------------------------------------------
(* What is always so of the money *)

\* Before the first payment nobody has anything.
LEMMA InitMoney == Init => MoneyInv
  <1> SUFFICES ASSUME Init PROVE MoneyInv
    OBVIOUS
  <1>1. TypeOK
    <2>1. [status |-> "absent"] \in Refund
      BY DEF Refund
    <2>2. refund \in [Refunds -> Refund]
      BY <2>1 DEF Init
    <2>3. req \in [Requests -> Request]
      BY IdleTyped DEF Init
    <2> QED BY <2>2, <2>3 DEF Init, TypeOK, Statuses
  <1>2. refund \in RefundTable /\ \A r \in Refunds : refund[r].status = "absent"
    BY <1>1, Rows DEF Init
  <1>3. Filed
    BY <1>2 DEF Filed, Live
  <1>4. Bounded
    <2>1. \A p \in Payments : Total(refund, p, Live) = 0
      BY <1>2, TotalZero DEF Live
    <2> QED BY <2>1, Rows, <1>1 DEF Bounded
  <1>5. Accounted
    <2>1. ASSUME NEW f \in Fees
          PROVE  SumFunctionOnSet(Shares(payment, refund, f), Payments) = 0
      <3> DEFINE s == Shares(payment, refund, f)
      <3>1. s = [p \in Payments |-> IF p \in {} THEN s[p] ELSE 0]
        BY DEF Init, Shares, Share
      <3>2. \A p \in Payments : s[p] \in Int
        BY DEF Init, Shares, Share
      <3> HIDE DEF s
      <3>3. SumFunctionOnSet(s, {})
              = SumFunctionOnSet([p \in Payments |-> IF p \in {} THEN s[p] ELSE 0], Payments)
        BY <3>2, WithdrawalConstants, SumWhere
      <3>4. SumFunctionOnSet(s, {}) = SumFunctionOnSet(s, Payments)
        BY <3>1, <3>3
      <3> QED BY <3>4, SumEmpty DEF s
    <2> QED BY <2>1 DEF Init, Accounted
  <1>6. Hands
    BY DEF Init, Idle, Hands, VerifierHolds, PayerHolds, CancellerSees, WithdrawerKnows
  <1> QED BY <1>1, <1>3, <1>4, <1>5, <1>6 DEF MoneyInv, Books

\* In every reachable state each fee has what was verified of its payments and not
\* returned, no payment has refunds for more than it is, and a request that waits to
\* verify, pay or refuse still finds the row as it read it (verify_payment,
\* process_approved_refund, cancel_withdrawal).
THEOREM MoneyHolds == Spec => []MoneyInv
  BY InvHolds, InitMoney, StepMoney, PTL DEF Spec

\* Rows, locks and what the requests have in memory keep their types: no paid amount
\* is negative and no refund is filed for nothing.
THEOREM TypeCorrect == Spec => []TypeOK
  <1>1. MoneyInv => TypeOK
    BY DEF MoneyInv
  <1> QED BY <1>1, MoneyHolds, PTL

-----------------------------------------------------------------------------
(* The money a profile holds *)

\* The money held is an amount, and there is no more of it when no fee has more.
LEMMA HeldNat ==
    ASSUME NEW x, \A f \in Fees : x[f] \in Nat
    PROVE  /\ Held(x) \in Nat
           /\ \A f \in Fees \ Application : x[f] <= Held(x)
  <1>1. IsFiniteSet(Fees \ Application) /\ \A f \in Fees \ Application : x[f] \in Nat
    BY WithdrawalConstants, FS_Subset
  <1> QED BY <1>1, SumNat, SumTerm DEF Held

LEMMA HeldLe ==
    ASSUME NEW x, NEW y, \A f \in Fees : x[f] \in Nat /\ y[f] \in Nat /\ x[f] <= y[f]
    PROVE  Held(x) <= Held(y)
  <1>1. IsFiniteSet(Fees \ Application)
        /\ \A f \in Fees \ Application : x[f] \in Int /\ y[f] \in Int /\ x[f] <= y[f]
    BY WithdrawalConstants, FS_Subset
  <1> QED BY <1>1, SumLe DEF Held

\* An open refund of a withdrawal is of money that is held.
LEMMA OpenIsHeld == MoneyInv => (OpenWithdrawal # {} => Held(paid) > 0)
  <1> SUFFICES ASSUME MoneyInv, NEW r \in OpenWithdrawal PROVE Held(paid) > 0
    OBVIOUS
  <1>0. TypeOK /\ Books
    BY DEF MoneyInv
  <1> DEFINE p == refund[r].payment
  <1>1. /\ r \in Refunds /\ refund[r].status \in {"pending", "approved"}
        /\ refund[r].source = "withdrawal"
    BY DEF OpenWithdrawal
  <1>2. /\ p \in Payments /\ refund[r].amount \in Nat \ {0}
        /\ payment[p] = "verified" /\ FeeOf[p] \in Fees \ Application
    BY <1>0, <1>1, Rows, Row DEF Books, Filed, Live
  <1>3. Total(refund, p, {"refunded"}) + 1 <= Total(refund, p, Live)
    <2> HIDE DEF p
    <2>0. refund \in RefundTable /\ \A o \in Refunds : refund[o] \in Refund
      BY <1>0, Rows
    <2> DEFINE c == Counted(refund, p, {"refunded"})
               d == Counted(refund, p, Live)
               e == [o \in Refunds |-> IF o = r THEN 1 ELSE c[o]]
    <2>1. \A o \in Refunds : c[o] \in Int /\ d[o] \in Int
      BY <2>0, CountedNat DEF Live
    <2>2. c[r] = 0 /\ 1 <= d[r]
      BY <1>1, <1>2 DEF Counted, Live, p
    <2>3. \A o \in Refunds : c[o] <= d[o]
      BY <2>0, Row DEF Counted, Live
    <2>4. Total(refund, p, {"refunded"}) = SumFunctionOnSet(c, Refunds)
          /\ Total(refund, p, Live) = SumFunctionOnSet(d, Refunds)
      BY DEF Total
    <2> HIDE DEF c, d
    <2>5. \A o \in Refunds : e[o] \in Int /\ e[o] <= d[o]
      BY <2>1, <2>2, <2>3
    <2>6. e[r] = 1 /\ \A o \in Refunds \ {r} : e[o] = c[o]
      BY <1>1
    <2> HIDE DEF e
    <2>7. SumFunctionOnSet(e, Refunds) = SumFunctionOnSet(c, Refunds) + e[r] - c[r]
      BY <1>1, <2>1, <2>5, <2>6, WithdrawalConstants, SumUpdate
    <2>8. SumFunctionOnSet(e, Refunds) <= SumFunctionOnSet(d, Refunds)
      BY <2>1, <2>5, WithdrawalConstants, SumLe
    <2>9. SumFunctionOnSet(c, Refunds) \in Int
      BY <2>1, WithdrawalConstants, SumInt
    <2> QED BY <2>2, <2>4, <2>6, <2>7, <2>8, <2>9
  <1>4. paid[FeeOf[p]] >= 1
    <2>1. /\ Total(refund, p, {"refunded"}) \in Nat /\ Total(refund, p, Live) \in Nat
          /\ Total(refund, p, Live) <= Amount[p] /\ Amount[p] \in Nat
          /\ Share(payment, refund, p) <= paid[FeeOf[p]] /\ paid[FeeOf[p]] \in Nat
      BY <1>0, <1>2, Whole, Rows
    <2>2. Share(payment, refund, p) = Amount[p] - Total(refund, p, {"refunded"})
      BY <1>2 DEF Share
    <2> HIDE DEF p
    <2> QED BY <1>3, <2>1, <2>2
  <1>5. Held(paid) \in Nat /\ paid[FeeOf[p]] <= Held(paid) /\ paid[FeeOf[p]] \in Nat
    BY <1>0, <1>2, HeldNat, Rows
  <1> QED BY <1>4, <1>5

\* What a step may do to the profile and to the money it holds: a wait ends or begins
\* with the money it is for, and a withdrawn profile gets neither money nor refunds.
TakenBack == \E p \in Imported : payment[p] = "refunded"

Moves ==
    /\ TakenBack => TakenBack'
    /\ \/ /\ UNCHANGED <<status, from>>
          /\ OpenWithdrawal' \subseteq OpenWithdrawal
          /\ \/ UNCHANGED paid
             \/ status \in {"draft", "admitted"}
             \/ /\ \A f \in Fees : paid'[f] <= paid[f]
                /\ status = "withdrawal_pending" => Held(paid') > 0 \/ TakenBack'
       \/ status' \in {"draft", "admitted"}
       \/ status' = "withdrawal_pending" /\ Held(paid') > 0
       \/ /\ status' = "withdrawn" /\ from' = status
          /\ \/ Held(paid') = 0
             \/ status = "admitted" /\ OpenWithdrawal' = OpenWithdrawal

\* Steps that leave money, refunds and the profile alone.
LEMMA StillMoves ==
    ASSUME UNCHANGED <<status, from, paid, refund>>, TakenBack => TakenBack'
    PROVE  Moves
  BY SameRefunds DEF Moves

\* Payments that are recorded, refused, imported or verified.
LEMMA PaymentMoves ==
    ASSUME MoneyInv,
           \/ \E p \in Payments : RecordPayment(p) \/ RejectPayment(p)
           \/ ImportPayments
           \/ \E q \in Requests : VerifyCommit(q)
    PROVE  Moves
  <1>0. TypeOK /\ Hands
    BY DEF MoneyInv
  <1>1. CASE \E p \in Payments : RecordPayment(p) \/ RejectPayment(p)
    <2>1. PICK p \in Payments : RecordPayment(p) \/ RejectPayment(p)
      BY <1>1
    <2>2. /\ payment[p] # "refunded" /\ \A o \in Payments \ {p} : payment'[o] = payment[o]
          /\ UNCHANGED <<status, from, paid, refund>>
      BY <1>0, <2>1 DEF RecordPayment, RejectPayment, TypeOK
    <2> QED BY <2>2, WithdrawalConstants, StillMoves DEF TakenBack
  <1>2. CASE ImportPayments
    <2>1. /\ \A p \in Imported : payment[p] = "absent"
          /\ UNCHANGED <<status, from, refund>> /\ status \in Statuses
          /\ status \notin {"withdrawn", "withdrawal_pending"}
      BY <1>0, <1>2 DEF ImportPayments, Payable, TypeOK
    <2> QED BY <2>1, SameRefunds DEF Moves, TakenBack, Statuses
  <1>3. CASE \E q \in Requests : VerifyCommit(q)
    <2>1. PICK q \in Requests : VerifyCommit(q)
      BY <1>3
    <2> DEFINE p == req[q].row
    <2>2. /\ req[q].at = "verify" /\ UNCHANGED <<status, from, refund>>
          /\ payment' = [payment EXCEPT ![p] = "verified"]
          /\ status \notin {"withdrawn", "withdrawal_pending"}
      BY <2>1 DEF VerifyCommit, Payable
    <2>3. p \in Payments /\ payment[p] = "pending"
      BY <1>0, <2>2 DEF Hands, VerifierHolds
    <2> HIDE DEF p
    <2>4. \A o \in Payments \ {p} : payment'[o] = payment[o]
      BY <1>0, <2>2, <2>3 DEF TypeOK
    <2>5. TakenBack => TakenBack'
      BY <2>3, <2>4, WithdrawalConstants DEF TakenBack
    <2>6. status \in {"draft", "admitted"}
      BY <1>0, <2>2 DEF TypeOK, Statuses
    <2> QED BY <2>2, <2>5, <2>6, SameRefunds DEF Moves
  <1> QED BY <1>1, <1>2, <1>3

\* An import that is taken back: what it does not reach it leaves.
LEMMA VoidMoves ==
    ASSUME MoneyInv, NEW q \in Requests, VoidCommit(q)
    PROVE  Moves
  <1>0. TypeOK
    BY DEF MoneyInv
  <1>1. /\ payment' = [p \in Payments |-> IF p \in Recorded THEN "refunded" ELSE payment[p]]
        /\ paid' = [f \in Fees |-> Reverse(paid[f], AmountOn(f, Recorded))]
        /\ UNCHANGED <<status, from, refund>>
    BY DEF VoidCommit
  <1>2. \A f \in Fees : paid'[f] <= paid[f]
    BY VoidCommitStep
  <1>3. TakenBack => TakenBack'
    BY <1>1, WithdrawalConstants DEF TakenBack
  <1>4. CASE Recorded # {}
    <2>1. TakenBack'
      BY <1>1, <1>4, WithdrawalConstants DEF TakenBack, Recorded
    <2> QED BY <1>1, <1>2, <2>1, SameRefunds DEF Moves
  <1>5. CASE Recorded = {}
    <2>1. \A f \in Fees : AmountOn(f, Recorded) = 0
      <3> TAKE f \in Fees
      <3>1. {p \in Recorded : FeeOf[p] = f} = {}
        BY <1>5
      <3> QED BY <3>1, SumEmpty DEF AmountOn
    <2>2. \A f \in Fees : paid'[f] = paid[f]
      BY <1>0, <1>1, <2>1, Rows DEF Reverse
    <2>3. UNCHANGED paid
      BY <1>0, <1>1, <2>2 DEF TypeOK
    <2> QED BY <1>1, <1>3, <2>3, StillMoves
  <1> QED BY <1>4, <1>5

\* Refunds that are requested and decided.
LEMMA RefundMoves ==
    ASSUME MoneyInv,
           \/ \E r \in Refunds, p \in Payments : \E a \in 1..Amount[p] : RequestRefund(r, p, a)
           \/ \E r \in Refunds : ApproveRefund(r) \/ RejectRefund(r)
    PROVE  Moves
  <1>0. TypeOK /\ Books
    BY DEF MoneyInv
  <1>1. ASSUME NEW r \in Refunds, NEW p \in Payments, NEW a \in 1..Amount[p],
               RequestRefund(r, p, a)
        PROVE  Moves
    <2>1. UNCHANGED <<status, from, paid, payment>>
      BY <1>1 DEF RequestRefund
    <2>2. refund'[r].source = "manual" /\ \A o \in Refunds \ {r} : refund'[o] = refund[o]
      BY <1>0, <1>1, RequestShape
    <2>3. OpenWithdrawal' \subseteq OpenWithdrawal
      BY <2>2 DEF OpenWithdrawal
    <2> QED BY <2>1, <2>3 DEF Moves, TakenBack
  <1>2. ASSUME NEW r \in Refunds, ApproveRefund(r) \/ RejectRefund(r) PROVE Moves
    <2>1. UNCHANGED <<status, from, paid, payment>>
      BY <1>2 DEF ApproveRefund, RejectRefund
    <2>2. Stays(r) /\ \A o \in Refunds \ {r} : refund'[o] = refund[o]
      BY <1>0, <1>2, DecideShape
    <2>3. OpenWithdrawal' \subseteq OpenWithdrawal
      BY <2>2 DEF OpenWithdrawal, Stays
    <2> QED BY <2>1, <2>3 DEF Moves, TakenBack
  <1> QED BY <1>1, <1>2

\* A refund that is paid: the profile stops waiting with the last of the money.
LEMMA ProcessMoves ==
    ASSUME MoneyInv, NEW q \in Requests, ProcessCommit(q)
    PROVE  Moves
  <1>0. TypeOK
    BY DEF MoneyInv
  <1> DEFINE r == req[q].row
  <1>1. /\ r \in Refunds /\ \A o \in Refunds \ {r} : refund'[o] = refund[o]
        /\ refund'[r].status = "refunded" /\ UNCHANGED payment
        /\ paid' \in [Fees -> Nat] /\ \A f \in Fees : paid'[f] <= paid[f]
    BY ProcessShape
  <1>2. \/ /\ status = "withdrawal_pending" /\ Held(paid') = 0
           /\ status' = "withdrawn" /\ from' = status
        \/ /\ ~(status = "withdrawal_pending" /\ Held(paid') = 0)
           /\ UNCHANGED <<status, from>>
    BY DEF ProcessCommit, MoveTo
  <1> HIDE DEF r
  <1>3. OpenWithdrawal' \subseteq OpenWithdrawal
    BY <1>1 DEF OpenWithdrawal
  <1>4. Held(paid') \in Nat
    BY <1>1, HeldNat
  <1> QED BY <1>1, <1>2, <1>3, <1>4 DEF Moves, TakenBack

\* The profile's own steps: it waits for what is held, or leaves with nothing.
LEMMA ProfileMoves ==
    ASSUME MoneyInv,
           \/ Admit \/ Rollback
           \/ \E q \in Requests : WithdrawDirectly(q) \/ WithdrawCommit(q) \/ CancelCommit(q)
    PROVE  Moves
  <1>0. TypeOK
    BY DEF MoneyInv
  <1>1. CASE Admit \/ Rollback \/ \E q \in Requests : CancelCommit(q)
    BY <1>1 DEF Admit, Rollback, CancelCommit, MoveTo, Moves, TakenBack, books
  <1>2. CASE \E q \in Requests : WithdrawDirectly(q)
    <2>1. /\ status = "admitted" /\ status' = "withdrawn" /\ from' = status
          /\ UNCHANGED <<refund, payment>>
      BY <1>2 DEF WithdrawDirectly, MoveTo, books
    <2> QED BY <2>1, SameRefunds DEF Moves, TakenBack
  <1>3. CASE \E q \in Requests : WithdrawCommit(q)
    <2>1. /\ status' = (IF Held(paid) > 0 THEN "withdrawal_pending" ELSE "withdrawn")
          /\ from' = status /\ UNCHANGED <<paid, payment>>
      BY <1>3 DEF WithdrawCommit, MoveTo
    <2>2. Held(paid) \in Nat
      BY <1>0, HeldNat, Rows
    <2>3. Held(paid') = Held(paid)
      BY <2>1
    <2> QED BY <2>1, <2>2, <2>3 DEF Moves, TakenBack
  <1> QED BY <1>1, <1>2, <1>3

\* Every step is one of these.
LEMMA StepMoves == ASSUME MoneyInv, [Next]_vars PROVE Moves
  <1>1. ASSUME NEW q \in Requests,
               \/ \E p \in Payments : VerifyBegin(q, p)
               \/ \E r \in Refunds : ProcessBegin(q, r)
               \/ \E f \in Fees : CancelPhantomFee(q, f)
               \/ VoidBegin(q) \/ WithdrawBegin(q) \/ CancelBegin(q) \/ Fail(q)
        PROVE  Moves
    <2>1. UNCHANGED <<status, from, paid, refund, payment>>
      BY <1>1 DEF VerifyBegin, ProcessBegin, CancelPhantomFee, VoidBegin, WithdrawBegin,
                  CancelBegin, Fail, books
    <2> QED BY <2>1, StillMoves DEF TakenBack
  <1>2. CASE UNCHANGED vars
    BY <1>2, StillMoves DEF vars, TakenBack
  <1> QED
    BY <1>1, <1>2, PaymentMoves, VoidMoves, RefundMoves, ProcessMoves, ProfileMoves DEF Next

\* While a profile waits there is money to wait for, save what an import took back: the
\* refund that returns the last of it also ends the withdrawal (process_approved_refund,
\* _finalize_withdrawn).
THEOREM WaitingIsForMoney == Spec => []PendingWaitsForMoney
  <1>1. Init => PendingWaitsForMoney
    BY DEF Init, PendingWaitsForMoney, PendingHoldsMoney
  <1>2. PendingWaitsForMoney /\ MoneyInv /\ MoneyInv' /\ [Next]_vars => PendingWaitsForMoney'
    <2> SUFFICES ASSUME PendingWaitsForMoney, MoneyInv, [Next]_vars
                 PROVE  PendingWaitsForMoney'
      OBVIOUS
    <2>1. Moves
      BY StepMoves
    <2>2. status' = "withdrawal_pending" => Held(paid') > 0 \/ TakenBack'
      BY <2>1 DEF Moves, PendingWaitsForMoney, PendingHoldsMoney, TakenBack
    <2> QED BY <2>2 DEF PendingWaitsForMoney, PendingHoldsMoney, TakenBack
  <1> QED BY <1>1, <1>2, MoneyHolds, PTL DEF Spec

\* A profile withdrawn from another state than admitted holds none of the applicant's
\* money, and none comes in afterwards (withdraw_profile, assert_payable_target).
THEOREM WithdrawnIsEmpty == Spec => []WithdrawnHoldsNoMoney
  <1>1. Init => WithdrawnHoldsNoMoney
    BY DEF Init, WithdrawnHoldsNoMoney
  <1>2. WithdrawnHoldsNoMoney /\ MoneyInv /\ MoneyInv' /\ [Next]_vars => WithdrawnHoldsNoMoney'
    <2> SUFFICES ASSUME WithdrawnHoldsNoMoney, MoneyInv, MoneyInv', [Next]_vars,
                        status' = "withdrawn", from' # "admitted"
                 PROVE  Held(paid') = 0
      BY DEF WithdrawnHoldsNoMoney
    <2>1. Moves
      BY StepMoves
    <2>2. \A f \in Fees : paid[f] \in Nat /\ paid'[f] \in Nat
      BY DEF MoneyInv, TypeOK
    <2>3. CASE UNCHANGED <<status, from>> /\ UNCHANGED paid
      <3>1. Held(paid) = 0
        BY <2>3 DEF WithdrawnHoldsNoMoney
      <3> QED BY <2>3, <3>1
    <2>4. CASE UNCHANGED <<status, from>> /\ \A f \in Fees : paid'[f] <= paid[f]
      <3>1. Held(paid) = 0
        BY <2>4 DEF WithdrawnHoldsNoMoney
      <3>2. Held(paid') <= Held(paid) /\ Held(paid') \in Nat
        BY <2>2, <2>4, HeldLe, HeldNat
      <3> QED BY <3>1, <3>2
    <2> QED BY <2>1, <2>3, <2>4 DEF Moves
  <1> QED BY <1>1, <1>2, MoneyHolds, PTL DEF Spec

\* A refund that a withdrawal filed is open only while that withdrawal waits: neither a
\* profile brought back nor one that is withdrawn leaves a refund finance could still
\* pay (withdraw_profile, cancel_withdrawal, reject_open_refunds_for_profile).
THEOREM RefundsEndWithTheWithdrawal == Spec => []RefundsDieWithTheirWithdrawal
  <1> DEFINE Left == status = "withdrawn" => OpenWithdrawal = {}
  <1>1. Init => Left
    BY DEF Init
  <1>2. (MoneyInv => (OpenWithdrawal # {} => Held(paid) > 0))'
    BY OpenIsHeld, PTL
  <1>3. Left /\ Inv /\ MoneyInv /\ MoneyInv' /\ [Next]_vars => Left'
    <2> SUFFICES ASSUME Left, Inv, MoneyInv, MoneyInv', [Next]_vars, status' = "withdrawn"
                 PROVE  OpenWithdrawal' = {}
      OBVIOUS
    <2>1. Moves
      BY StepMoves
    <2>2. Held(paid') = 0 => OpenWithdrawal' = {}
      BY <1>2 DEF Held
    <2>3. status = "admitted" => OpenWithdrawal = {}
      BY DEF Inv, RevivedHasNoOpenRefund
    <2> QED BY <2>1, <2>2, <2>3 DEF Moves
  <1>4. Inv /\ MoneyInv /\ Left => RefundsDieWithTheirWithdrawal
    BY DEF Inv, MoneyInv, TypeOK, Statuses, RevivedHasNoOpenRefund, RefundsDieWithTheirWithdrawal
  <1> HIDE DEF Left
  <1> QED BY <1>1, <1>3, <1>4, InvHolds, MoneyHolds, PTL DEF Spec

-----------------------------------------------------------------------------
(* The money of a waiting profile is on its way back *)

\* Finance refused one of its own refunds of p.
Refused(p) == \E r \in RefundsOf(p, {"rejected"}) : refund[r].source = "manual"

\* All of a verified payment is reserved, when d more is reserved of it.
Covered(p, d) == Amount[p] <= d + Total(refund, p, Live) \/ Refused(p)

\* ... while a profile waits, and with what a withdrawal is about to file.
Waits == status = "withdrawal_pending" => \A p \in Returnable : Covered(p, 0)
WithdrawerSees ==
    \A q \in Requests : req[q].at = "withdraw" =>
        \A p \in Returnable : Covered(p, req[q].due[p])

Schedule == Waits /\ WithdrawerSees

\* What was covered stays covered.
Kept ==
    \A p \in Returnable' :
        /\ p \in Returnable
        /\ Total(refund, p, Live) <= Total(refund', p, Live) \/ Refused(p)'
        /\ Refused(p) => Refused(p)'

\* A step that reserves no less, starts no wait and no withdrawal keeps the schedule.
LEMMA ScheduleKept ==
    ASSUME MoneyInv, MoneyInv', Schedule, Kept,
           status' = "withdrawal_pending" => status = "withdrawal_pending",
           \A q \in Requests : req'[q].at = "withdraw" => req'[q] = req[q]
    PROVE  Schedule'
  <1>0. \A p \in Payments : Total(refund, p, Live) \in Nat /\ Total(refund', p, Live) \in Nat
                            /\ Amount[p] \in Nat
    <2>1. refund \in RefundTable /\ refund' \in RefundTable
      BY DEF MoneyInv, TypeOK, RefundTable
    <2> QED BY <2>1, TotalNat, WithdrawalConstants DEF Live
  <1>1. \A q \in Requests, p \in Payments : req[q].due[p] \in Nat
    BY Rows DEF MoneyInv
  <1>2. ASSUME NEW p \in Returnable', NEW d \in Nat, Covered(p, d) PROVE Covered(p, d)'
    <2>1. p \in Payments
      BY DEF Returnable
    <2>2. CASE Refused(p)
      BY <2>2 DEF Kept, Covered
    <2>3. CASE Amount[p] <= d + Total(refund, p, Live)
      <3>1. CASE Total(refund, p, Live) <= Total(refund', p, Live)
        BY <1>0, <2>1, <2>3, <3>1 DEF Covered
      <3>2. CASE Refused(p)'
        BY <3>2 DEF Covered
      <3> QED BY <3>1, <3>2 DEF Kept
    <2> QED BY <1>2, <2>2, <2>3 DEF Covered
  <1>3. Waits'
    BY <1>2 DEF Waits, Schedule, Kept
  <1>4. WithdrawerSees'
    <2> SUFFICES ASSUME NEW q \in Requests, req'[q].at = "withdraw", NEW p \in Returnable'
                 PROVE  Covered(p, req[q].due[p])'
      BY DEF WithdrawerSees
    <2>1. req'[q] = req[q] /\ p \in Returnable /\ p \in Payments
      BY DEF Kept, Returnable
    <2>2. Covered(p, req[q].due[p]) /\ req[q].due[p] \in Nat
      BY <1>1, <2>1 DEF Schedule, WithdrawerSees
    <2> DEFINE d == req[q].due[p]
    <2>3. Covered(p, d)
      BY <2>2
    <2>4. d \in Nat /\ d = req'[q].due[p]
      BY <2>1, <2>2
    <2> HIDE DEF d
    <2>5. Covered(p, req'[q].due[p])
      BY <2>3, <2>4
    <2>6. req'[q].due[p] \in Nat
      BY <2>4
    <2> QED BY <1>0, <2>1, <2>5, <2>6 DEF Covered, Kept
  <1> QED BY <1>3, <1>4 DEF Schedule

\* Where nobody waits and nobody withdraws there is nothing to schedule.
LEMMA NoSchedule ==
    ASSUME status' # "withdrawal_pending", \A q \in Requests : req'[q].at # "withdraw"
    PROVE  Schedule'
  BY DEF Schedule, Waits, WithdrawerSees

\* What was refused stays refused.
LEMMA RefusalsStay ==
    ASSUME \A r \in Refunds : refund'[r] = refund[r] \/ refund[r].status # "rejected"
    PROVE  \A p \in Payments : Refused(p) => Refused(p)'
  BY DEF Refused, RefundsOf

\* Refunds and their payments stay as they are, or payments cease to be verified.
LEMMA KeptAsItIs ==
    ASSUME MoneyInv, UNCHANGED refund,
           \A p \in Payments : payment'[p] = "verified" => payment[p] = "verified"
    PROVE  Kept
  <1>1. \A p \in Payments : Total(refund, p, Live) \in Nat
    BY Whole DEF MoneyInv
  <1>2. Returnable' \subseteq Returnable /\ Returnable \subseteq Payments
    BY DEF Returnable
  <1>3. \A p \in Payments : Refused(p) => Refused(p)'
    BY RefusalsStay
  <1>4. \A p \in Payments : Total(refund, p, Live) <= Total(refund', p, Live)
    BY <1>1
  <1> QED BY <1>2, <1>3, <1>4 DEF Kept

\* No withdrawal is under way for one who finds the profile free.
LEMMA Alone ==
    ASSUME Inv, NEW q, q \in Requests \cup {Nobody}, profileLock \in {q, Nobody}
    PROVE  \A o \in Requests \ {q} : req[o].at # "withdraw"
  BY WithdrawalConstants DEF Inv, ReadersHoldRow

\* A request that returns is idle.
LEMMA Idles ==
    ASSUME MoneyInv, NEW q \in Requests, Return(q)
    PROVE  req'[q].at = "idle" /\ \A o \in Requests \ {q} : req'[o] = req[o]
  BY ReturnIdle DEF MoneyInv

\* withdraw_profile reads what is left of every payment, ...
LEMMA WithdrawReads ==
    ASSUME Inv, MoneyInv, NEW q \in Requests, WithdrawBegin(q)
    PROVE  Schedule'
  <1> DEFINE d == [p \in Payments |-> IF p \in Returnable THEN Available(p) ELSE 0]
  <1>1. /\ profileLock = Nobody /\ status \in {"draft", "admitted"}
        /\ req' = [req EXCEPT ![q] = [Idle EXCEPT !.at = "withdraw", !.due = d]]
        /\ UNCHANGED <<status, payment, refund>>
    BY DEF WithdrawBegin, books
  <1>2. \A o \in Requests \ {q} : req'[o] = req[o] /\ req[o].at # "withdraw"
    <2>1. \A o \in Requests \ {q} : req[o].at # "withdraw"
      BY <1>1, Alone
    <2>2. \A o \in Requests \ {q} : req'[o] = req[o]
      BY <1>1 DEF MoneyInv, TypeOK
    <2> QED BY <2>1, <2>2
  <1>3. req'[q].due = d
    <2>1. req'[q] = [Idle EXCEPT !.at = "withdraw", !.due = d]
      BY <1>1 DEF MoneyInv, TypeOK
    <2>2. [Idle EXCEPT !.at = "withdraw", !.due = d].due = d
      <3> HIDE DEF d
      <3> QED BY DEF Idle
    <2> QED BY <2>1, <2>2, Zenon
  <1>4. \A p \in Returnable : Amount[p] <= d[p] + Total(refund, p, Live)
    <2> TAKE p \in Returnable
    <2>1. p \in Payments
      BY DEF Returnable
    <2>2. d[p] = Amount[p] - Total(refund, p, Live)
      BY <2>1, Rows, TotalRefundsAre DEF Available, MoneyInv
    <2>3. Amount[p] \in Nat /\ Total(refund, p, Live) \in Nat
      BY <2>1, Rows, Whole DEF MoneyInv
    <2> HIDE DEF d
    <2> QED BY <2>2, <2>3
  <1> HIDE DEF d
  <1>5. Returnable' = Returnable
    BY <1>1 DEF Returnable
  <1> QED BY <1>1, <1>2, <1>3, <1>4, <1>5 DEF Schedule, Waits, WithdrawerSees, Covered

\* ... and files all of it.
LEMMA WithdrawSchedules ==
    ASSUME Inv, MoneyInv, Schedule, NEW q \in Requests, WithdrawCommit(q)
    PROVE  Schedule'
  <1>0. TypeOK /\ Books /\ Hands
    BY DEF MoneyInv
  <1>1. req[q].at = "withdraw" /\ Return(q) /\ UNCHANGED payment
    BY DEF WithdrawCommit
  <1>2. \A o \in Requests : req'[o].at # "withdraw"
    <2>1. \A o \in Requests \ {q} : req[o].at # "withdraw"
      BY <1>1 DEF Inv, ReadersHoldRow
    <2> QED BY <1>1, <2>1, Idles
  <1>3. /\ \A r \in Refunds : refund'[r] = refund[r] \/ refund[r].status # "rejected"
        /\ ReservesStay
        /\ \A p \in Payments : req[q].due[p] > 0 =>
             Total(refund', p, Live) = Total(refund, p, Live) + req[q].due[p]
        /\ refund' \in RefundTable
    BY <1>0, WithdrawShape DEF NewOf
  <1>4. \A p \in Returnable' : Covered(p, 0)'
    <2> TAKE p \in Returnable'
    <2>1. p \in Payments /\ p \in Returnable
      BY <1>1 DEF Returnable
    <2>2. /\ Amount[p] \in Nat /\ Total(refund, p, Live) \in Nat
          /\ Total(refund', p, Live) \in Nat /\ req[q].due[p] \in Nat
      BY <1>0, <1>3, <2>1, Rows, Whole, TotalNat DEF Live
    <2>3. Amount[p] <= req[q].due[p] + Total(refund, p, Live) \/ Refused(p)
      BY <1>1, <2>1 DEF Schedule, WithdrawerSees, Covered
    <2>4. CASE Refused(p)
      BY <1>3, <2>1, <2>4, RefusalsStay DEF Covered
    <2>5. CASE Amount[p] <= req[q].due[p] + Total(refund, p, Live)
      <3>1. Amount[p] <= Total(refund', p, Live)
        BY <1>3, <2>1, <2>2, <2>5 DEF ReservesStay
      <3> QED BY <2>2, <3>1 DEF Covered
    <2> QED BY <2>3, <2>4, <2>5
  <1> QED BY <1>2, <1>4 DEF Schedule, Waits, WithdrawerSees

\* Refunds that are requested, decided and paid. An open refund of a withdrawal is
\* refused only where no withdrawal waits or begins.
LEMMA RefundsSchedule ==
    ASSUME Inv, MoneyInv, MoneyInv', Schedule,
           \/ \E r \in Refunds, p \in Payments : \E a \in 1..Amount[p] : RequestRefund(r, p, a)
           \/ \E r \in Refunds : ApproveRefund(r) \/ RejectRefund(r)
           \/ \E q \in Requests : ProcessCommit(q)
    PROVE  Schedule'
  <1>0. TypeOK /\ Books /\ Hands
    BY DEF MoneyInv
  <1>1. ASSUME NEW r \in Refunds, NEW p \in Payments, NEW a \in 1..Amount[p],
               RequestRefund(r, p, a)
        PROVE  Schedule'
    <2>1. UNCHANGED <<status, payment, req>>
      BY <1>1 DEF RequestRefund
    <2>2. ReservesStay /\ NewOf(r, p) /\ \A o \in Refunds \ {r} : refund'[o] = refund[o]
      BY <1>0, <1>1, RequestShape
    <2>3. \A o \in Payments : Refused(o) => Refused(o)'
      BY <2>2, RefusalsStay DEF NewOf
    <2>4. Kept
      BY <2>1, <2>2, <2>3 DEF Kept, Returnable, ReservesStay
    <2> QED BY <2>1, <2>4, ScheduleKept
  <1>2. ASSUME NEW r \in Refunds, ApproveRefund(r) \/ RejectRefund(r) PROVE Schedule'
    <2>1. UNCHANGED <<status, payment, req>>
      BY <1>2 DEF ApproveRefund, RejectRefund
    <2>2. /\ Stays(r) /\ \A o \in Refunds \ {r} : refund'[o] = refund[o]
          /\ refund'[r].status = "rejected" => RejectRefund(r)
          /\ ReservesStay \/ refund'[r].status = "rejected"
          /\ \A p \in Payments \ {refund[r].payment} :
               Total(refund, p, Live) = Total(refund', p, Live)
      BY <1>0, <1>2, DecideShape
    <2>3. \A o \in Payments : Refused(o) => Refused(o)'
      BY <2>2, RefusalsStay DEF Stays
    <2>4. CASE refund[r].source = "manual" \/ ReservesStay
      <3>1. ASSUME NEW p \in Payments
            PROVE  Total(refund, p, Live) <= Total(refund', p, Live) \/ Refused(p)'
        <4>1. CASE ReservesStay
          BY <4>1 DEF ReservesStay
        <4>2. CASE refund'[r].status = "rejected" /\ refund[r].source = "manual" /\ p = refund[r].payment
          BY <2>2, <4>2 DEF Refused, RefundsOf, Stays
        <4>3. CASE p # refund[r].payment
          <5>1. Total(refund, p, Live) \in Nat
            BY <1>0, Whole
          <5> QED BY <2>2, <4>3, <5>1
        <4> QED BY <2>2, <2>4, <4>1, <4>2, <4>3
      <3>2. Kept
        BY <2>1, <2>3, <3>1 DEF Kept, Returnable
      <3> QED BY <2>1, <3>2, ScheduleKept
    <2>5. CASE refund[r].source # "manual" /\ refund'[r].status = "rejected"
      <3>1. refund[r].source = "withdrawal"
        <4>1. refund[r].status # "absent" /\ refund[r] \in Refund
          BY <1>0, <2>2, Rows DEF Stays
        <4> QED BY <2>5, <4>1, Row
      <3>2. r \in OpenWithdrawal
        BY <2>2, <3>1 DEF OpenWithdrawal, Stays
      <3>3. status # "withdrawal_pending"
        BY <2>2, <2>5, <3>1 DEF RejectRefund
      <3>4. status \notin {"draft", "admitted"}
        BY <3>2 DEF Inv, RevivedHasNoOpenRefund
      <3>5. \A q \in Requests : req[q].at # "withdraw"
        BY <3>4 DEF Inv, ReadersHoldRow
      <3> QED BY <2>1, <3>3, <3>5, NoSchedule
    <2> QED BY <2>2, <2>4, <2>5
  <1>3. ASSUME NEW q \in Requests, ProcessCommit(q) PROVE Schedule'
    <2> DEFINE r == req[q].row
    <2>1. /\ r \in Refunds /\ refund[r].status = "approved"
          /\ \A o \in Refunds \ {r} : refund'[o] = refund[o]
          /\ UNCHANGED payment /\ ReservesStay
      BY <1>3, ProcessShape
    <2>2. /\ status' = "withdrawal_pending" => status = "withdrawal_pending"
          /\ \E at \in {"idle", "cleanup"} : req' = [req EXCEPT ![q] = [Idle EXCEPT !.at = at]]
      <3>1. [Idle EXCEPT !.at = "idle"] = Idle
        BY DEF Idle
      <3> QED BY <1>3, <3>1 DEF ProcessCommit, MoveTo
    <2>3. req'[q].at # "withdraw" /\ \A o \in Requests \ {q} : req'[o] = req[o]
      <3>1. /\ [Idle EXCEPT !.at = "cleanup"].at = "cleanup"
            /\ [Idle EXCEPT !.at = "idle"].at = "idle"
        BY DEF Idle
      <3> QED BY <1>0, <2>2, <3>1 DEF TypeOK
    <2> HIDE DEF r
    <2>4. \A o \in Payments : Refused(o) => Refused(o)'
      BY <2>1, RefusalsStay
    <2>5. Kept
      BY <2>1, <2>4 DEF Kept, Returnable, ReservesStay
    <2>6. status' = "withdrawal_pending" => status = "withdrawal_pending"
      BY <2>2
    <2>7. \A o \in Requests : req'[o].at = "withdraw" => req'[o] = req[o]
      BY <2>3
    <2> QED BY <2>5, <2>6, <2>7, ScheduleKept
  <1> QED BY <1>1, <1>2, <1>3

\* Money comes in only where nobody waits and no withdrawal is under way; what goes
\* out leaves no verified payment.
LEMMA PaymentsSchedule ==
    ASSUME Inv, MoneyInv, MoneyInv', Schedule,
           \/ \E p \in Payments : RecordPayment(p) \/ RejectPayment(p)
           \/ ImportPayments
           \/ \E q \in Requests : VerifyCommit(q) \/ VoidCommit(q)
    PROVE  Schedule'
  <1>0. TypeOK
    BY DEF MoneyInv
  <1>1. ASSUME NEW p \in Payments, RecordPayment(p) \/ RejectPayment(p) PROVE Schedule'
    <2>1. UNCHANGED <<status, refund, req>>
      BY <1>1 DEF RecordPayment, RejectPayment
    <2>2. payment'[p] # "verified" /\ \A o \in Payments \ {p} : payment'[o] = payment[o]
      BY <1>0, <1>1 DEF RecordPayment, RejectPayment, TypeOK
    <2>3. Kept
      BY <2>1, <2>2, KeptAsItIs
    <2> QED BY <2>1, <2>3, ScheduleKept
  <1>2. CASE ImportPayments
    <2>1. status # "withdrawal_pending" /\ profileLock = Nobody /\ UNCHANGED <<status, req>>
      BY <1>2 DEF ImportPayments, Payable
    <2>2. \A q \in Requests : req[q].at # "withdraw"
      <3>1. \A q \in Requests \ {Nobody} : req[q].at # "withdraw"
        BY <2>1, Alone
      <3> QED BY <3>1, WithdrawalConstants
    <2> QED BY <2>1, <2>2, NoSchedule
  <1>3. ASSUME NEW q \in Requests, VerifyCommit(q) PROVE Schedule'
    <2>1. status # "withdrawal_pending" /\ ProfileFree(q) /\ Return(q) /\ UNCHANGED status
      BY <1>3 DEF VerifyCommit, Payable
    <2>2. \A o \in Requests : req'[o].at # "withdraw"
      <3>1. \A o \in Requests \ {q} : req[o].at # "withdraw"
        <4>1. profileLock \in {q, Nobody}
          BY <2>1 DEF ProfileFree
        <4> QED BY <4>1, Alone
      <3> QED BY <2>1, <3>1, Idles
    <2> QED BY <2>1, <2>2, NoSchedule
  <1>4. ASSUME NEW q \in Requests, VoidCommit(q) PROVE Schedule'
    <2>1. Return(q) /\ UNCHANGED <<status, refund>>
      BY <1>4 DEF VoidCommit
    <2>2. \A p \in Payments : payment'[p] = "verified" => payment[p] = "verified"
      BY <1>4 DEF VoidCommit
    <2>3. Kept
      BY <2>1, <2>2, KeptAsItIs
    <2>4. \A o \in Requests : req'[o].at = "withdraw" => req'[o] = req[o]
      BY <2>1, Idles
    <2> QED BY <2>1, <2>3, <2>4, ScheduleKept
  <1> QED BY <1>1, <1>2, <1>3, <1>4

\* Requests that begin or fail, a fee that is cancelled and the profile's other moves.
LEMMA OthersSchedule ==
    ASSUME Inv, MoneyInv, MoneyInv', Schedule,
           \/ Admit \/ Rollback
           \/ \E q \in Requests :
                \/ \E p \in Payments : VerifyBegin(q, p)
                \/ \E r \in Refunds : ProcessBegin(q, r)
                \/ \E f \in Fees : CancelPhantomFee(q, f)
                \/ VoidBegin(q) \/ CancelBegin(q) \/ Fail(q)
                \/ WithdrawDirectly(q) \/ CancelCommit(q)
           \/ UNCHANGED vars
    PROVE  Schedule'
  <1>0. TypeOK
    BY DEF MoneyInv
  <1>1. ASSUME UNCHANGED <<refund, payment>>,
               status' = "withdrawal_pending" => status = "withdrawal_pending",
               \A q \in Requests : req'[q].at = "withdraw" => req'[q] = req[q]
        PROVE  Schedule'
    <2>1. Kept
      BY <1>1, KeptAsItIs
    <2> QED BY <1>1, <2>1, ScheduleKept
  <1>2. CASE Admit \/ Rollback \/ UNCHANGED vars \/ \E q \in Requests : \E f \in Fees : CancelPhantomFee(q, f)
    <2>1. /\ UNCHANGED <<refund, payment, req>>
          /\ status' = "withdrawal_pending" => status = "withdrawal_pending"
      BY <1>2 DEF Admit, Rollback, CancelPhantomFee, MoveTo, books, vars
    <2> QED BY <1>1, <2>1
  <1>3. ASSUME NEW q \in Requests,
               \/ \E p \in Payments : VerifyBegin(q, p)
               \/ \E r \in Refunds : ProcessBegin(q, r)
               \/ VoidBegin(q) \/ CancelBegin(q)
        PROVE  Schedule'
    <2>1. UNCHANGED <<status, refund, payment>>
      BY <1>3 DEF VerifyBegin, ProcessBegin, VoidBegin, CancelBegin, books
    <2>2. \E i \in Request : i.at # "withdraw" /\ req' = [req EXCEPT ![q] = i]
      <3>1. CASE VoidBegin(q)
        BY <3>1, IdleTyped DEF VoidBegin
      <3>2. ASSUME NEW p \in Payments, VerifyBegin(q, p)
            PROVE  \E i \in Request : i.at # "withdraw" /\ req' = [req EXCEPT ![q] = i]
        <4>1. /\ [Idle EXCEPT !.at = "verify", !.row = p] \in Request
              /\ [Idle EXCEPT !.at = "verify", !.row = p].at = "verify"
          BY DEF Idle, Request, Nothing
        <4> QED BY <3>2, <4>1 DEF VerifyBegin
      <3>3. ASSUME NEW r \in Refunds, ProcessBegin(q, r)
            PROVE  \E i \in Request : i.at # "withdraw" /\ req' = [req EXCEPT ![q] = i]
        <4>1. /\ [Idle EXCEPT !.at = "process", !.row = r] \in Request
              /\ [Idle EXCEPT !.at = "process", !.row = r].at = "process"
          BY DEF Idle, Request, Nothing
        <4> QED BY <3>3, <4>1 DEF ProcessBegin
      <3>4. CASE CancelBegin(q)
        <4>1. /\ [Idle EXCEPT !.at = "cancel", !.rows = OpenWithdrawal] \in Request
              /\ [Idle EXCEPT !.at = "cancel", !.rows = OpenWithdrawal].at = "cancel"
          BY DEF Idle, Request, Nothing, OpenWithdrawal
        <4> QED BY <3>4, <4>1 DEF CancelBegin
      <3> QED BY <1>3, <3>1, <3>2, <3>3, <3>4
    <2>3. req'[q].at # "withdraw" /\ \A o \in Requests \ {q} : req'[o] = req[o]
      BY <1>0, <2>2 DEF TypeOK
    <2> QED BY <1>1, <2>1, <2>3
  <1>4. ASSUME NEW q \in Requests, Fail(q) \/ WithdrawDirectly(q) PROVE Schedule'
    <2>1. /\ Return(q) /\ UNCHANGED <<refund, payment>>
          /\ status' = "withdrawal_pending" => status = "withdrawal_pending"
      BY <1>4 DEF Fail, WithdrawDirectly, MoveTo, books
    <2> QED BY <1>1, <2>1, Idles
  <1>5. ASSUME NEW q \in Requests, CancelCommit(q) PROVE Schedule'
    <2>1. req[q].at = "cancel" /\ Return(q) /\ status' = "draft"
      BY <1>5 DEF CancelCommit, MoveTo
    <2>2. \A o \in Requests \ {q} : req[o].at # "withdraw"
      BY <2>1 DEF Inv, ReadersHoldRow
    <2>3. \A o \in Requests : req'[o].at # "withdraw"
      BY <2>1, <2>2, Idles
    <2> QED BY <2>1, <2>3, NoSchedule
  <1> QED BY <1>2, <1>3, <1>4, <1>5

\* While a profile waits every verified payment that must go back has refunds for all
\* of it, unless finance refused one of its own (withdraw_profile, reject_refund,
\* assert_payable_target).
THEOREM WaitingMoneyIsScheduled == Spec => []PendingMoneyIsScheduled
  <1>1. Init => Schedule
    BY DEF Init, Idle, Schedule, Waits, WithdrawerSees
  <1>2. Schedule /\ Inv /\ MoneyInv /\ MoneyInv' /\ [Next]_vars => Schedule'
    <2> SUFFICES ASSUME Schedule, Inv, MoneyInv, MoneyInv', [Next]_vars PROVE Schedule'
      OBVIOUS
    <2> QED BY RefundsSchedule, PaymentsSchedule, OthersSchedule, WithdrawReads,
               WithdrawSchedules DEF Next
  <1>3. Schedule /\ MoneyInv => PendingMoneyIsScheduled
    <2> SUFFICES ASSUME Schedule, MoneyInv, status = "withdrawal_pending",
                        NEW p \in Returnable, ~Refused(p)
                 PROVE  TotalRefunds(p, Live) = Amount[p]
      BY DEF PendingMoneyIsScheduled, Refused
    <2>1. p \in Payments
      BY DEF Returnable
    <2>2. Amount[p] <= 0 + Total(refund, p, Live)
      BY DEF Schedule, Waits, Covered
    <2>3. /\ Total(refund, p, Live) \in Nat /\ Amount[p] \in Nat
          /\ Total(refund, p, Live) <= Amount[p]
      BY <2>1, Whole, Rows DEF MoneyInv
    <2>4. TotalRefunds(p, Live) = Total(refund, p, Live)
      BY <2>1, Rows, TotalRefundsAre DEF MoneyInv
    <2> QED BY <2>2, <2>3, <2>4
  <1> QED BY <1>1, <1>2, <1>3, InvHolds, MoneyHolds, PTL DEF Spec
=============================================================================
