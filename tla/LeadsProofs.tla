---------------------------- MODULE LeadsProofs ----------------------------
(***************************************************************************)
(* Proofs about Leads for every set of leads, officers, units, requests    *)
(* and workers, every capacity and every number of retries: the task gives *)
(* a lead only to an officer it may go to and who has room for it, and a   *)
(* lead that waits has a message or was lost in a way the code has.        *)
(*                                                                         *)
(* The argument is about what a worker knows while it holds its locks      *)
(* (Holds). Whoever writes a lead needs its lock, and whoever makes an     *)
(* officer its officer needs his: so between the count and the commit a    *)
(* locked officer can only lose leads. That requests decide on outdated    *)
(* copies does not matter for it, because they write under the same locks. *)
(***************************************************************************)
EXTENDS Leads, FiniteSetTheorems, TLAPS

Held(o) == {m \in Leads : lead[m].officer = o}

\* What is true of a worker's lead and officers as long as it holds them.
Holds(w) ==
    LET l == work[w].lead
    IN  /\ work[w].at # "idle" =>
             /\ l \in Leads /\ leadLock[l] = w
             /\ lead[l].officer = Nobody /\ ~lead[l].deleted /\ lead[l].life = "open"
        /\ work[w].at \in {"pooled", "counted"} =>
             \A o \in work[w].pool :
                 /\ officerLock[o] = w /\ desk[o] = "available"
                 /\ UnitOf[o] = lead[l].unit /\ o \notin lead[l].refused
        /\ work[w].at = "counted" =>
             /\ work[w].free \subseteq work[w].pool
             /\ \A o \in work[w].free : Cardinality(Held(o) \ work[w].asleep) < Capacity[o]

\* A request works on a lead that is there.
Loaded(r) == req[r].at = "loaded" => req[r].lead \in Leads /\ lead[req[r].lead].life # "absent"

Waits(l) == /\ l \notin excused /\ lead[l].life # "absent"
            /\ lead[l].officer = Nobody /\ lead[l].status # "failed"

Serves(w, l) == work[w].at # "idle" /\ work[w].lead = l

UnderWay(l) == \/ \E k \in 0 .. MaxRetries : queue[<<l, k>>] > 0
               \/ \E w \in Workers : Serves(w, l)

\* Closed and deleted leads are included, since they may come back.
Inv == /\ TypeOK
       /\ \A w \in Workers : Holds(w)
       /\ \A r \in Requests : Loaded(r)
       /\ \A l \in Leads : Waits(l) => UnderWay(l)

-----------------------------------------------------------------------------
(* Locks *)

\* Nobody but the holder of a lock changes what it protects; a worker that is left in
\* peace and whose locks are respected still holds what it held.
LEMMA Undisturbed ==
    ASSUME TypeOK, NEW v \in Workers, Holds(v), work'[v] = work[v],
           work[v].at # "idle" =>
               leadLock'[work[v].lead] = v /\ lead'[work[v].lead] = lead[work[v].lead],
           \A o \in Officers : officerLock[o] = v =>
               /\ officerLock'[o] = v /\ desk'[o] = desk[o]
               /\ \A m \in Leads : lead'[m].officer = o => lead[m].officer = o
    PROVE  Holds(v)'
  <1> DEFINE l == work[v].lead
  <1>1. work[v].pool \subseteq Officers
    BY DEF TypeOK
  <1>2. ASSUME work[v].at # "idle"
        PROVE  /\ l \in Leads /\ leadLock'[l] = v
               /\ lead'[l] = lead[l]
               /\ lead[l].officer = Nobody /\ ~lead[l].deleted /\ lead[l].life = "open"
    BY <1>2 DEF Holds
  <1>3. ASSUME work[v].at \in {"pooled", "counted"}
        PROVE  \A o \in work[v].pool :
                  /\ officerLock'[o] = v /\ desk'[o] = "available"
                  /\ UnitOf[o] = lead'[l].unit /\ o \notin lead'[l].refused
    BY <1>1, <1>2, <1>3 DEF Holds
  <1>4. ASSUME work[v].at = "counted"
        PROVE  /\ work[v].free \subseteq work[v].pool
               /\ \A o \in work[v].free : Cardinality(Held(o)' \ work[v].asleep) < Capacity[o]
    <2>1. work[v].free \subseteq work[v].pool
      BY <1>4 DEF Holds
    <2>2. SUFFICES ASSUME NEW o \in work[v].free
                   PROVE  Cardinality(Held(o)' \ work[v].asleep) < Capacity[o]
      BY <2>1
    <2>3. o \in Officers /\ officerLock[o] = v
      BY <1>1, <1>4, <2>1 DEF Holds
    <2> DEFINE before == Held(o) \ work[v].asleep
               after == Held(o)' \ work[v].asleep
    <2>4. after \subseteq before /\ before \subseteq Leads
      BY <2>3 DEF Held
    <2>5. IsFiniteSet(before) /\ Cardinality(before) < Capacity[o] /\ Capacity[o] \in Nat
      BY <1>4, <2>3, <2>4, FS_Subset, LeadsConstants DEF Holds
    <2> HIDE DEF before, after
    <2>6. IsFiniteSet(after) /\ Cardinality(after) <= Cardinality(before)
      BY <2>4, <2>5, FS_Subset
    <2>7. Cardinality(after) < Capacity[o]
      BY <2>5, <2>6, FS_CardinalityType
    <2> QED BY <2>7 DEF after
  <1> QED BY <1>2, <1>3, <1>4 DEF Holds

-----------------------------------------------------------------------------
(* Messages *)

\* A dispatch adds a message, or says that the lead has none.
LEMMA DispatchTells ==
    ASSUME TypeOK, NEW l \in Leads, Dispatch(l)
    PROVE  /\ queue' \in [Message -> Nat] /\ excused' \subseteq Leads
           /\ l \in excused' \/ queue'[<<l, 0>>] > 0
           /\ \A x \in Message : queue'[x] >= queue[x]
           /\ excused \subseteq excused' \cup {l}
  <1>1. <<l, 0>> \in Message /\ queue \in [Message -> Nat] /\ excused \subseteq Leads
    BY LeadsConstants DEF TypeOK, Message
  <1>2. \A x \in Message : queue[x] \in Nat
    BY <1>1
  <1>3. CASE /\ queue' = [queue EXCEPT ![<<l, 0>>] = @ + 1] /\ excused' = excused \ {l}
    <2>1. queue[<<l, 0>>] + 1 \in Nat /\ queue[<<l, 0>>] + 1 > 0
      BY <1>1, <1>2
    <2> QED BY <1>1, <1>2, <1>3, <2>1
  <1>4. CASE excused' = excused \cup {l} /\ UNCHANGED queue
    BY <1>1, <1>2, <1>4
  <1> QED BY <1>3, <1>4 DEF Dispatch

\* A retry adds a message, or there were too many.
LEMMA RetryTells ==
    ASSUME NEW l \in Leads, NEW k \in 0 .. MaxRetries, NEW q \in [Message -> Nat],
           NEW lost \in BOOLEAN, excused \subseteq Leads, Retry(l, k, q, lost)
    PROVE  /\ queue' \in [Message -> Nat] /\ excused' \subseteq Leads
           /\ \/ \E n \in 0 .. MaxRetries : queue'[<<l, n>>] > 0
              \/ l \in excused'
              \/ ~lost
           /\ \A x \in Message : queue'[x] >= q[x]
           /\ excused \subseteq excused' \cup {l}
  <1>1. MaxRetries \in Nat /\ \A x \in Message : q[x] \in Nat
    BY LeadsConstants
  <1>2. CASE k < MaxRetries
    <2>1. k + 1 \in 0 .. MaxRetries
      BY <1>1, <1>2
    <2>2. <<l, k + 1>> \in Message
      BY <2>1 DEF Message
    <2>3. q[<<l, k + 1>>] + 1 \in Nat /\ q[<<l, k + 1>>] + 1 > 0
      BY <1>1, <2>2
    <2>4. queue' = [q EXCEPT ![<<l, k + 1>>] = @ + 1] /\ excused' = excused \ {l}
      BY <1>2 DEF Retry
    <2>5. queue' \in [Message -> Nat] /\ queue'[<<l, k + 1>>] > 0
      BY <2>2, <2>3, <2>4
    <2>6. \A x \in Message : queue'[x] >= q[x]
      BY <1>1, <2>2, <2>4
    <2> QED BY <2>1, <2>4, <2>5, <2>6
  <1>3. CASE ~(k < MaxRetries)
    <2>1. queue' = q /\ excused' = IF lost THEN excused \cup {l} ELSE excused
      BY <1>3 DEF Retry
    <2> QED BY <1>1, <2>1
  <1> QED BY <1>2, <1>3

-----------------------------------------------------------------------------
(* Requests *)

\* What a request holds in its hands.
Order == [at : {"new", "loaded", "done"}, what : Kinds \cup {"none"}, who : Somebody,
          lead : Leads \cup {Nobody}, copy : Row]

\* Leads that have been followed up still are, when messages are only added.
LEMMA StillUnderWay ==
    ASSUME Inv, NEW m \in Leads, m \notin excused, Waits(m),
           \A k \in 0 .. MaxRetries : queue[<<m, k>>] > 0 => queue'[<<m, k>>] > 0,
           \A w \in Workers : Serves(w, m) => Serves(w, m)'
    PROVE  UnderWay(m)'
  BY DEF Inv, UnderWay

\* A request that writes one lead, under its lock and with an officer who is not locked,
\* and either tells what becomes of the lead or leaves who waits for what as it was.
LEMMA WriteKeepsInv ==
    ASSUME Inv, NEW l \in Leads, NEW row \in Row, row.life # "absent",
           lead' = [lead EXCEPT ![l] = row],
           row.officer \in Officers =>
               row.officer = lead[l].officer \/ officerLock[row.officer] = Nobody,
           leadLock[l] = Nobody \/ lead[l].life = "absent",
           UNCHANGED <<desk, leadLock, officerLock, work>>,
           req' \in [Requests -> Order],
           \A q \in Requests : req'[q] = req[q] \/ req'[q].at # "loaded",
           queue' \in [Message -> Nat], excused' \subseteq Leads,
           \A x \in Message : queue'[x] >= queue[x],
           excused \subseteq excused' \cup {l},
           \/ l \in excused' \/ queue'[<<l, 0>>] > 0 \/ row.officer # Nobody
           \/ /\ row.officer = lead[l].officer /\ row.status = lead[l].status
              /\ lead[l].life # "absent" /\ excused \subseteq excused'
    PROVE  Inv'
  <1>1. TypeOK /\ lead' \in [Leads -> Row] /\ Nobody \notin Workers \cup Officers
    BY LeadsConstants DEF Inv, TypeOK
  <1>2. TypeOK'
    BY <1>1 DEF TypeOK, Order
  <1>3. ASSUME NEW v \in Workers PROVE Holds(v)'
    <2>1. Holds(v)
      BY DEF Inv
    <2>2. ASSUME work[v].at # "idle"
          PROVE  leadLock'[work[v].lead] = v /\ lead'[work[v].lead] = lead[work[v].lead]
      <3>1. work[v].lead \in Leads /\ leadLock[work[v].lead] = v /\ lead[work[v].lead].life = "open"
        BY <2>1, <2>2 DEF Holds
      <3>2. work[v].lead # l
        BY <1>1, <3>1
      <3> QED BY <1>1, <3>1, <3>2 DEF TypeOK
    <2>3. ASSUME NEW o \in Officers, officerLock[o] = v
          PROVE  /\ officerLock'[o] = v /\ desk'[o] = desk[o]
                 /\ \A m \in Leads : lead'[m].officer = o => lead[m].officer = o
      <3>1. ASSUME NEW m \in Leads, lead'[m].officer = o PROVE lead[m].officer = o
        <4>1. CASE m = l
          BY <1>1, <2>3, <3>1, <4>1 DEF TypeOK
        <4>2. CASE m # l
          BY <1>1, <3>1, <4>2 DEF TypeOK
        <4> QED BY <4>1, <4>2
      <3> QED BY <2>3, <3>1
    <2> QED BY <1>1, <2>1, <2>2, <2>3, Undisturbed
  <1>4. ASSUME NEW m \in Leads, lead[m].life # "absent" PROVE lead'[m].life # "absent"
    BY <1>1, <1>4 DEF TypeOK
  <1>5. ASSUME NEW q \in Requests PROVE Loaded(q)'
    <2>1. Loaded(q)
      BY DEF Inv
    <2> QED BY <1>4, <2>1 DEF Loaded
  <1>6. ASSUME NEW m \in Leads, Waits(m)' PROVE UnderWay(m)'
    <2>1. \A k \in 0 .. MaxRetries : <<m, k>> \in Message
      BY DEF Message
    <2>2. \A k \in 0 .. MaxRetries : queue[<<m, k>>] > 0 => queue'[<<m, k>>] > 0
      <3>1. \A x \in Message : queue[x] \in Nat /\ queue'[x] \in Nat
        BY <1>1 DEF TypeOK
      <3> QED BY <2>1, <3>1
    <2>3. \A w \in Workers : Serves(w, m) => Serves(w, m)'
      BY DEF Serves
    <2>4. CASE m # l
      <3>1. m \notin excused /\ Waits(m)
        BY <1>1, <1>6, <2>4 DEF Waits, TypeOK
      <3> QED BY <2>2, <2>3, <3>1, StillUnderWay
    <2>5. CASE m = l /\ queue'[<<l, 0>>] > 0
      <3>1. 0 \in 0 .. MaxRetries
        BY LeadsConstants
      <3> QED BY <2>5, <3>1 DEF UnderWay
    <2>6. CASE m = l /\ ~(queue'[<<l, 0>>] > 0)
      <3>1. lead'[l] = row
        BY <1>1 DEF TypeOK
      <3>2. l \notin excused' /\ row.officer = Nobody /\ row.status # "failed"
        BY <1>6, <2>6, <3>1 DEF Waits
      <3>3. Waits(l) /\ l \notin excused
        BY <2>6, <3>2 DEF Waits
      <3> QED BY <2>2, <2>3, <2>6, <3>3, StillUnderWay
    <2> QED BY <2>4, <2>5, <2>6
  <1> QED BY <1>2, <1>3, <1>5, <1>6 DEF Inv

\* What a commit does to the request and to the rows.
LEMMA CommitWrites ==
    ASSUME Inv, NEW r \in Requests, NEW what, NEW row, Commit(r, what, row)
    PROVE  /\ req[r].lead \in Leads /\ lead[req[r].lead].life # "absent"
           /\ lead[req[r].lead] \in Row /\ req[r].copy \in Row /\ req[r].who \in Somebody
           /\ lead' = [lead EXCEPT ![req[r].lead] = row]
           /\ leadLock[req[r].lead] = Nobody
           /\ UNCHANGED <<desk, leadLock, officerLock, work>>
           /\ req' \in [Requests -> Order]
           /\ \A q \in Requests : req'[q] = req[q] \/ req'[q].at # "loaded"
  <1>1. req \in [Requests -> Order] /\ lead \in [Leads -> Row] /\ Loaded(r)
    BY DEF Inv, TypeOK, Order
  <1>2. Done \in Order /\ Done.at = "done"
    BY DEF Done, New, Blank, Order, Row, Kinds, Somebody
  <1>3. req[r].at = "loaded" /\ req' = [req EXCEPT ![r] = Done]
    BY DEF Commit
  <1>4. req[r] \in Order /\ req[r].copy \in Row /\ req[r].who \in Somebody
    BY <1>1 DEF Order
  <1>5. req' \in [Requests -> Order] /\ \A q \in Requests : req'[q] = req[q] \/ req'[q].at # "loaded"
    BY <1>1, <1>2, <1>3
  <1> QED BY <1>1, <1>3, <1>4, <1>5 DEF Commit, Loaded

\* The flush of a copy writes a row, column by column.
LEMMA FlushWrites ==
    ASSUME NEW row \in Row, NEW copy \in Row, NEW new \in Row
    PROVE  /\ Flush(row, copy, new) \in Row
           /\ Flush(row, copy, new).life = IF new.life = copy.life THEN row.life ELSE new.life
           /\ Flush(row, copy, new).officer =
                IF new.officer = copy.officer THEN row.officer ELSE new.officer
           /\ Flush(row, copy, new).status =
                IF new.status = copy.status THEN row.status ELSE new.status
  BY DEF Flush, Row

\* A request that writes what differs from its copy.
LEMMA CopyKeepsInv ==
    ASSUME Inv, NEW r \in Requests, NEW what, NEW new \in Row, Write(r, what, new),
           new.life = req[r].copy.life,
           queue' \in [Message -> Nat], excused' \subseteq Leads,
           \A x \in Message : queue'[x] >= queue[x],
           excused \subseteq excused' \cup {req[r].lead},
           \/ req[r].lead \in excused' \/ queue'[<<req[r].lead, 0>>] > 0
           \/ lead'[req[r].lead].officer # Nobody
           \/ /\ new.officer = req[r].copy.officer /\ new.status = req[r].copy.status
              /\ excused \subseteq excused'
    PROVE  Inv'
  <1> DEFINE l == req[r].lead
             copy == req[r].copy
             row == Flush(lead[l], copy, new)
  <1>1. Commit(r, what, row)
        /\ (new.officer \notin {Nobody, copy.officer} => officerLock[new.officer] = Nobody)
    BY DEF Write
  <1> HIDE DEF row
  <1>2. /\ l \in Leads /\ lead[l].life # "absent" /\ lead[l] \in Row /\ copy \in Row
        /\ lead' = [lead EXCEPT ![l] = row] /\ leadLock[l] = Nobody
        /\ UNCHANGED <<desk, leadLock, officerLock, work>>
        /\ req' \in [Requests -> Order]
        /\ \A q \in Requests : req'[q] = req[q] \/ req'[q].at # "loaded"
    BY <1>1, CommitWrites
  <1> HIDE DEF l, copy
  <1>3. /\ row \in Row /\ row.life = lead[l].life
        /\ row.officer = IF new.officer = copy.officer THEN lead[l].officer ELSE new.officer
        /\ new.status = copy.status => row.status = lead[l].status
    BY <1>2, FlushWrites DEF row, copy
  <1>4. row.officer \in Officers => row.officer = lead[l].officer \/ officerLock[row.officer] = Nobody
    BY <1>1, <1>3, LeadsConstants
  <1>5. lead'[l] = row
    BY <1>2 DEF Inv, TypeOK
  <1>6. \/ l \in excused' \/ queue'[<<l, 0>>] > 0 \/ row.officer # Nobody
        \/ /\ row.officer = lead[l].officer /\ row.status = lead[l].status
           /\ lead[l].life # "absent" /\ excused \subseteq excused'
    BY <1>2, <1>3, <1>5 DEF l, copy
  <1>7. excused \subseteq excused' \cup {l}
    BY DEF l
  <1> QED BY <1>2, <1>3, <1>4, <1>6, <1>7, WriteKeepsInv

\* A copy with some columns changed is a row.
LEMMA CopyFits ==
    ASSUME Inv, NEW r \in Requests
    PROVE  /\ req[r].copy \in Row /\ req[r].who \in Somebody
           /\ queue \in [Message -> Nat] /\ excused \subseteq Leads
           /\ \A x \in Message : queue[x] >= queue[x]
  <1>1. \A x \in Message : queue[x] \in Nat
    BY DEF Inv, TypeOK
  <1> QED BY <1>1 DEF Inv, TypeOK

\* An assignment by hand keeps the invariant: where it leaves nobody, the lead is excused.
LEMMA AssignKeepsInv ==
    ASSUME Inv, NEW r \in Requests, NEW o \in Officers, Assign(r, o)
    PROVE  Inv'
  <1> DEFINE new == [req[r].copy EXCEPT !.officer = o, !.status = "assigned"]
  <1>1. new \in Row /\ new.life = req[r].copy.life
    BY CopyFits DEF Row, Somebody
  <1>2. /\ Write(r, "assign", new) /\ UNCHANGED queue
        /\ excused' = excused \cup {l \in {req[r].lead} : lead'[l].officer = Nobody}
    BY DEF Assign
  <1>3. req[r].lead \in Leads
    BY <1>2, CommitWrites DEF Write
  <1> HIDE DEF new
  <1>4. excused' \subseteq Leads /\ excused \subseteq excused'
        /\ (req[r].lead \in excused' \/ lead'[req[r].lead].officer # Nobody)
    BY <1>2, <1>3, CopyFits
  <1> QED BY <1>1, <1>2, <1>4, CopyFits, CopyKeepsInv

\* Giving a lead back keeps the invariant: it dispatches.
LEMMA ReassignKeepsInv ==
    ASSUME Inv, NEW r \in Requests, Reassign(r)
    PROVE  Inv'
  <1> DEFINE copy == req[r].copy
             new == [copy EXCEPT !.officer = Nobody, !.status = "reassign_pending",
                                 !.refused = @ \cup (Officers \cap {req[r].who})]
  <1>1. new \in Row /\ new.life = req[r].copy.life
    BY CopyFits DEF Row, Somebody
  <1>2. Write(r, "reassign", new) /\ Dispatch(req[r].lead)
    BY DEF Reassign
  <1>3. req[r].lead \in Leads
    BY <1>2, CommitWrites DEF Write
  <1> HIDE DEF new
  <1>4. TypeOK
    BY DEF Inv
  <1>5. /\ queue' \in [Message -> Nat] /\ excused' \subseteq Leads
        /\ req[r].lead \in excused' \/ queue'[<<req[r].lead, 0>>] > 0
        /\ \A x \in Message : queue'[x] >= queue[x]
        /\ excused \subseteq excused' \cup {req[r].lead}
    BY <1>2, <1>3, <1>4, DispatchTells
  <1> QED BY <1>1, <1>2, <1>5, CopyKeepsInv

\* A change of unit keeps the invariant: it keeps the officer, or dispatches.
LEMMA MoveKeepsInv ==
    ASSUME Inv, NEW r \in Requests, NEW u \in Units, Move(r, u)
    PROVE  Inv'
  <1> DEFINE copy == req[r].copy
             kept == [copy EXCEPT !.unit = u]
             freed == [copy EXCEPT !.unit = u, !.officer = Nobody, !.status = "pending"]
  <1>1. /\ kept \in Row /\ kept.life = copy.life
        /\ kept.officer = copy.officer /\ kept.status = copy.status
        /\ freed \in Row /\ freed.life = copy.life
    BY CopyFits DEF Row, Somebody
  <1>2. \/ Write(r, "move", kept) /\ UNCHANGED <<queue, excused>>
        \/ Write(r, "move", freed) /\ Dispatch(req[r].lead)
    BY DEF Move
  <1> HIDE DEF kept, freed
  <1>3. CASE Write(r, "move", kept) /\ UNCHANGED <<queue, excused>>
    <2>1. excused' \subseteq Leads /\ excused \subseteq excused'
      BY <1>3, CopyFits
    <2> QED BY <1>1, <1>3, <2>1, CopyFits, CopyKeepsInv
  <1>4. CASE Write(r, "move", freed) /\ Dispatch(req[r].lead)
    <2>1. req[r].lead \in Leads
      BY <1>4, CommitWrites DEF Write
    <2>2. TypeOK
      BY DEF Inv
    <2>3. /\ queue' \in [Message -> Nat] /\ excused' \subseteq Leads
          /\ req[r].lead \in excused' \/ queue'[<<req[r].lead, 0>>] > 0
          /\ \A x \in Message : queue'[x] >= queue[x]
          /\ excused \subseteq excused' \cup {req[r].lead}
      BY <1>4, <2>1, <2>2, DispatchTells
    <2> QED BY <1>1, <1>4, <2>3, CopyKeepsInv
  <1> QED BY <1>2, <1>3, <1>4

\* A deletion keeps the invariant: who has the lead stays as it was.
LEMMA DeleteKeepsInv ==
    ASSUME Inv, NEW r \in Requests, Delete(r)
    PROVE  Inv'
  <1> DEFINE new == [req[r].copy EXCEPT !.deleted = TRUE]
  <1>1. /\ new \in Row /\ new.life = req[r].copy.life
        /\ new.officer = req[r].copy.officer /\ new.status = req[r].copy.status
    BY CopyFits DEF Row
  <1>2. Write(r, "delete", new) /\ UNCHANGED <<queue, excused>>
    BY DEF Delete
  <1> HIDE DEF new
  <1>3. excused' \subseteq Leads /\ excused \subseteq excused'
    BY <1>2, CopyFits
  <1> QED BY <1>1, <1>2, <1>3, CopyFits, CopyKeepsInv

\* A claim keeps the invariant: it writes an officer, or what the copy had already.
LEMMA ClaimKeepsInv ==
    ASSUME Inv, NEW r \in Requests, ClaimByProfile(r)
    PROVE  Inv'
  <1> DEFINE who == req[r].who
             copy == req[r].copy
             new == [copy EXCEPT !.officer = who]
  <1>1. /\ new \in Row /\ new.life = copy.life /\ new.officer = who
        /\ new.status = copy.status /\ who # Nobody
    BY CopyFits, LeadsConstants DEF Row, Somebody, ClaimByProfile
  <1>2. Write(r, "claim", new) /\ UNCHANGED <<queue, excused>>
    BY DEF ClaimByProfile
  <1>3. /\ req[r].lead \in Leads /\ lead[req[r].lead] \in Row /\ copy \in Row
        /\ lead' = [lead EXCEPT ![req[r].lead] = Flush(lead[req[r].lead], copy, new)]
    BY <1>2, CommitWrites DEF Write
  <1> HIDE DEF new
  <1>4. lead'[req[r].lead] = Flush(lead[req[r].lead], copy, new)
    BY <1>3 DEF Inv, TypeOK
  <1>5. new.officer = copy.officer \/ lead'[req[r].lead].officer # Nobody
    BY <1>1, <1>3, <1>4, FlushWrites
  <1>6. excused' \subseteq Leads /\ excused \subseteq excused'
    BY <1>2, CopyFits
  <1> QED BY <1>1, <1>2, <1>5, <1>6, CopyFits, CopyKeepsInv

\* Consultations and restorations keep the invariant: they write the lead under its lock,
\* whether it is open and whether it is there, and no more.
LEMMA LifeKeepsInv ==
    ASSUME Inv, NEW r \in Requests, Consult(r) \/ Restore(r)
    PROVE  Inv'
  <1> DEFINE l == req[r].lead
  <1>1. UNCHANGED <<queue, excused>>
    BY DEF Consult, Restore
  <1>2. PICK row : \E life \in {"open", "closed"}, what \in Kinds, deleted \in BOOLEAN :
           Commit(r, what, row)
           /\ (lead[l] \in Row => row = [lead[l] EXCEPT !.deleted = deleted, !.life = life])
    <2>1. CASE Consult(r)
      <3>1. PICK life \in {"open", "closed"} : Commit(r, "consult", [lead[l] EXCEPT !.life = life])
        BY <2>1 DEF Consult
      <3>2. lead[l] \in Row => /\ lead[l].deleted \in BOOLEAN
                               /\ [lead[l] EXCEPT !.life = life]
                                  = [lead[l] EXCEPT !.deleted = lead[l].deleted, !.life = life]
        BY DEF Row
      <3>3. lead[l] \in Row
        BY <3>1, CommitWrites
      <3> QED BY <3>1, <3>2, <3>3 DEF Kinds
    <2>2. CASE Restore(r)
      BY <2>2 DEF Restore, Kinds
    <2> QED BY <2>1, <2>2
  <1>3. /\ l \in Leads /\ lead[l].life # "absent" /\ lead[l] \in Row
        /\ lead' = [lead EXCEPT ![l] = row] /\ leadLock[l] = Nobody
        /\ UNCHANGED <<desk, leadLock, officerLock, work>>
        /\ req' \in [Requests -> Order]
        /\ \A q \in Requests : req'[q] = req[q] \/ req'[q].at # "loaded"
    BY <1>2, CommitWrites
  <1> HIDE DEF l
  <1>4. /\ row \in Row /\ row.life # "absent"
        /\ row.officer = lead[l].officer /\ row.status = lead[l].status
    BY <1>2, <1>3 DEF Row
  <1>5. queue' \in [Message -> Nat] /\ excused' \subseteq Leads /\ excused \subseteq excused'
    BY <1>1, CopyFits
  <1> QED BY <1>1, <1>3, <1>4, <1>5, CopyFits, WriteKeepsInv

\* The request of an operation that loads no copy is used up.
LEMMA AnswerUses ==
    ASSUME Inv, NEW r \in Requests, Answer(r)
    PROVE  /\ req' \in [Requests -> Order]
           /\ \A q \in Requests : req'[q] = req[q] \/ req'[q].at # "loaded"
  <1>1. Done \in Order /\ Done.at = "done"
    BY DEF Done, New, Blank, Order, Row, Kinds, Somebody
  <1>2. req \in [Requests -> Order] /\ req' = [req EXCEPT ![r] = Done]
    BY DEF Inv, TypeOK, Order, Answer
  <1> QED BY <1>1, <1>2

\* A new lead keeps the invariant: it has an officer, a message or an excuse.
LEMMA CreateKeepsInv ==
    ASSUME Inv, NEW l \in Leads, NEW u \in Units, Create(l, u)
    PROVE  Inv'
  <1> DEFINE plain == [Blank EXCEPT !.life = "open", !.unit = u]
             given(o) == [Blank EXCEPT !.life = "open", !.unit = u,
                                       !.officer = o, !.status = "assigned"]
  <1>1. /\ plain \in Row /\ plain.life = "open" /\ plain.officer = Nobody
        /\ \A o \in Officers : given(o) \in Row /\ given(o).life = "open" /\ given(o).officer = o
    BY DEF Blank, Row, Somebody
  <1>2. /\ lead[l].life = "absent" /\ UNCHANGED <<desk, leadLock, officerLock, work>>
        /\ req' = req
    BY DEF Create
  <1>3. \/ /\ \E o \in Officers : officerLock[o] = Nobody /\ lead' = [lead EXCEPT ![l] = given(o)]
           /\ UNCHANGED <<queue, excused>>
        \/ lead' = [lead EXCEPT ![l] = plain] /\ Dispatch(l)
        \/ lead' = [lead EXCEPT ![l] = plain] /\ excused' = excused \cup {l} /\ UNCHANGED queue
    BY DEF Create
  <1> HIDE DEF plain, given
  <1>4. req' \in [Requests -> Order] /\ \A q \in Requests : req'[q] = req[q] \/ req'[q].at # "loaded"
    BY <1>2 DEF Inv, TypeOK, Order
  <1>5. /\ TypeOK /\ queue \in [Message -> Nat] /\ excused \subseteq Leads
        /\ \A x \in Message : queue[x] >= queue[x]
    <2>1. \A x \in Message : queue[x] \in Nat
      BY DEF Inv, TypeOK
    <2> QED BY <2>1 DEF Inv, TypeOK
  <1>6. CASE /\ \E o \in Officers : officerLock[o] = Nobody /\ lead' = [lead EXCEPT ![l] = given(o)]
             /\ UNCHANGED <<queue, excused>>
    <2>1. PICK o \in Officers : officerLock[o] = Nobody /\ lead' = [lead EXCEPT ![l] = given(o)]
      BY <1>6
    <2>2. PICK row \in Row : row = given(o)
      BY <1>1
    <2>3. /\ row.life # "absent" /\ row.officer = o /\ row.officer # Nobody
          /\ lead' = [lead EXCEPT ![l] = row]
      BY <1>1, <2>1, <2>2, LeadsConstants
    <2> QED BY <1>2, <1>4, <1>5, <1>6, <2>1, <2>3, WriteKeepsInv
  <1>7. CASE lead' = [lead EXCEPT ![l] = plain] /\ Dispatch(l)
    <2>1. /\ queue' \in [Message -> Nat] /\ excused' \subseteq Leads
          /\ l \in excused' \/ queue'[<<l, 0>>] > 0
          /\ \A x \in Message : queue'[x] >= queue[x]
          /\ excused \subseteq excused' \cup {l}
      BY <1>5, <1>7, DispatchTells
    <2>2. plain.officer \notin Officers /\ plain.life # "absent"
      BY <1>1, LeadsConstants
    <2> QED BY <1>1, <1>2, <1>4, <1>7, <2>1, <2>2, WriteKeepsInv
  <1>8. CASE lead' = [lead EXCEPT ![l] = plain] /\ excused' = excused \cup {l} /\ UNCHANGED queue
    <2>1. plain.officer \notin Officers /\ plain.life # "absent"
      BY <1>1, LeadsConstants
    <2>2. excused' \subseteq Leads /\ l \in excused' /\ excused \subseteq excused' \cup {l}
      BY <1>5, <1>8
    <2> QED BY <1>1, <1>2, <1>4, <1>5, <1>8, <2>1, <2>2, WriteKeepsInv
  <1> QED BY <1>3, <1>6, <1>7, <1>8

\* Reopening a lead, and assigning its profile, keep the invariant.
LEMMA AnswersKeepInv ==
    ASSUME Inv, NEW r \in Requests, NEW l \in Leads,
           Reopen(r, l) \/ \E o \in Officers : AssignProfile(r, l, o)
    PROVE  Inv'
  <1>1. /\ lead[l] \in Row /\ queue \in [Message -> Nat] /\ excused \subseteq Leads
        /\ \A x \in Message : queue[x] >= queue[x]
    <2>1. \A x \in Message : queue[x] \in Nat
      BY DEF Inv, TypeOK
    <2> QED BY <2>1 DEF Inv, TypeOK
  <1>2. /\ Answer(r) /\ leadLock[l] = Nobody /\ lead[l].life # "absent"
        /\ UNCHANGED <<desk, leadLock, officerLock, queue, work, excused>>
    BY DEF Reopen, AssignProfile
  <1>3. PICK row \in Row :
           /\ lead' = [lead EXCEPT ![l] = row] /\ row.life # "absent"
           /\ \/ row.officer = lead[l].officer /\ row.status = lead[l].status
              \/ row.officer \in Officers /\ officerLock[row.officer] = Nobody
    <2>1. CASE Reopen(r, l)
      <3> DEFINE row == [lead[l] EXCEPT !.life = "open"]
      <3>1. /\ row \in Row /\ row.life = "open"
            /\ row.officer = lead[l].officer /\ row.status = lead[l].status
        BY <1>1 DEF Row
      <3>2. lead' = [lead EXCEPT ![l] = row]
        BY <2>1 DEF Reopen
      <3> HIDE DEF row
      <3> QED BY <3>1, <3>2
    <2>2. CASE \E o \in Officers : AssignProfile(r, l, o)
      <3>1. PICK o \in Officers : AssignProfile(r, l, o)
        BY <2>2
      <3> DEFINE row == [lead[l] EXCEPT !.officer = o]
      <3>2. row \in Row /\ row.life = lead[l].life /\ row.officer = o
        BY <1>1 DEF Row, Somebody
      <3>3. lead' = [lead EXCEPT ![l] = row] /\ officerLock[o] = Nobody
        BY <3>1 DEF AssignProfile
      <3> HIDE DEF row
      <3> QED BY <1>2, <3>2, <3>3
    <2> QED BY <2>1, <2>2
  <1>4. /\ row.officer \in Officers =>
              row.officer = lead[l].officer \/ officerLock[row.officer] = Nobody
        /\ row.officer # Nobody \/ (row.officer = lead[l].officer /\ row.status = lead[l].status)
    BY <1>3, LeadsConstants
  <1>5. req' \in [Requests -> Order] /\ \A q \in Requests : req'[q] = req[q] \/ req'[q].at # "loaded"
    BY <1>2, AnswerUses
  <1>6. excused \subseteq excused' /\ excused' \subseteq Leads /\ queue' = queue
    BY <1>1, <1>2
  <1> QED BY <1>1, <1>2, <1>3, <1>4, <1>5, <1>6, WriteKeepsInv

\* A step that writes no lead and disturbs no worker.
LEMMA RowsKeptKeepsInv ==
    ASSUME Inv, UNCHANGED <<lead, leadLock, officerLock, work>>,
           desk' \in [Officers -> {"available", "away", "gone"}],
           \A o \in Officers : officerLock[o] # Nobody => desk'[o] = desk[o],
           req' \in [Requests -> Order],
           \A q \in Requests : Loaded(q)',
           queue' \in [Message -> Nat], excused' \subseteq Leads,
           \A x \in Message : queue'[x] >= queue[x],
           \A m \in Leads : m \in excused' \/ m \notin excused
                            \/ \E k \in 0 .. MaxRetries : queue'[<<m, k>>] > 0
    PROVE  Inv'
  <1>1. TypeOK /\ Nobody \notin Workers
    BY LeadsConstants DEF Inv
  <1>2. TypeOK'
    BY <1>1 DEF TypeOK, Order
  <1>3. ASSUME NEW v \in Workers PROVE Holds(v)'
    <2>1. Holds(v)
      BY DEF Inv
    <2>2. work[v].at # "idle" => leadLock'[work[v].lead] = v
      BY <2>1 DEF Holds
    <2>3. \A o \in Officers : officerLock[o] = v => desk'[o] = desk[o]
      BY <1>1
    <2> QED BY <1>1, <2>1, <2>2, <2>3, Undisturbed
  <1>4. ASSUME NEW m \in Leads, Waits(m)' PROVE UnderWay(m)'
    <2>1. CASE \E k \in 0 .. MaxRetries : queue'[<<m, k>>] > 0
      BY <2>1 DEF UnderWay
    <2>2. CASE m \notin excused
      <3>1. Waits(m)
        BY <1>4, <2>2 DEF Waits
      <3>2. \A k \in 0 .. MaxRetries : queue[<<m, k>>] > 0 => queue'[<<m, k>>] > 0
        <4>1. \A k \in 0 .. MaxRetries : <<m, k>> \in Message
          BY DEF Message
        <4>2. \A x \in Message : queue[x] \in Nat /\ queue'[x] \in Nat
          BY <1>1 DEF TypeOK
        <4> QED BY <4>1, <4>2
      <3>3. \A w \in Workers : Serves(w, m) => Serves(w, m)'
        BY DEF Serves
      <3> QED BY <2>2, <3>1, <3>2, <3>3, StillUnderWay
    <2> QED BY <1>4, <2>1, <2>2 DEF Waits
  <1> QED BY <1>2, <1>3, <1>4 DEF Inv

\* Loading a copy, giving up and sending a task keep the invariant.
LEMMA OthersKeepInv ==
    ASSUME Inv, NEW r \in Requests,
           \/ \E what \in Kinds, who \in Somebody, l \in Leads : Begin(r, what, who, l)
           \/ GiveUp(r)
           \/ \E l \in Leads : SendTask(r, l)
    PROVE  Inv'
  <1>1. /\ TypeOK /\ req \in [Requests -> Order] /\ \A q \in Requests : Loaded(q)
        /\ desk \in [Officers -> {"available", "away", "gone"}]
        /\ queue \in [Message -> Nat] /\ excused \subseteq Leads
        /\ \A x \in Message : queue[x] >= queue[x]
    <2>1. \A x \in Message : queue[x] \in Nat
      BY DEF Inv, TypeOK
    <2> QED BY <2>1 DEF Inv, TypeOK, Order
  <1>2. Done \in Order /\ Done.at = "done"
    BY DEF Done, New, Blank, Order, Row, Kinds, Somebody
  <1>3. UNCHANGED <<lead, desk, leadLock, officerLock, work>>
    BY DEF Begin, GiveUp, SendTask
  <1>4. req' \in [Requests -> Order] /\ \A q \in Requests : Loaded(q)'
    <2>1. CASE \E what \in Kinds, who \in Somebody, l \in Leads : Begin(r, what, who, l)
      <3>1. PICK what \in Kinds, who \in Somebody, l \in Leads : Begin(r, what, who, l)
        BY <2>1
      <3> DEFINE order == [at |-> "loaded", what |-> what, who |-> who,
                           lead |-> l, copy |-> lead[l]]
      <3>2. order \in Order /\ order.lead = l
        BY <1>1 DEF Order, TypeOK
      <3>3. req' = [req EXCEPT ![r] = order] /\ lead[l].life # "absent"
        BY <3>1 DEF Begin
      <3> HIDE DEF order
      <3> QED BY <1>1, <1>3, <3>2, <3>3 DEF Loaded
    <2>2. CASE GiveUp(r) \/ \E l \in Leads : SendTask(r, l)
      <3>1. req' = [req EXCEPT ![r] = Done]
        BY <2>2 DEF GiveUp, SendTask, Answer
      <3> QED BY <1>1, <1>2, <1>3, <3>1 DEF Loaded
    <2> QED BY <2>1, <2>2
  <1>5. CASE UNCHANGED <<queue, excused>>
    <2>1. excused' \subseteq Leads /\ \A m \in Leads : m \in excused' \/ m \notin excused
      BY <1>1, <1>5
    <2> QED BY <1>1, <1>3, <1>4, <1>5, <2>1, RowsKeptKeepsInv
  <1>6. CASE \E l \in Leads : SendTask(r, l)
    <2>1. PICK l \in Leads : Dispatch(l)
      BY <1>6 DEF SendTask
    <2>2. /\ queue' \in [Message -> Nat] /\ excused' \subseteq Leads
          /\ l \in excused' \/ queue'[<<l, 0>>] > 0
          /\ \A x \in Message : queue'[x] >= queue[x]
          /\ excused \subseteq excused' \cup {l}
      BY <1>1, <2>1, DispatchTells
    <2>3. 0 \in 0 .. MaxRetries
      BY LeadsConstants
    <2>4. \A m \in Leads : m \in excused' \/ m \notin excused
                           \/ \E k \in 0 .. MaxRetries : queue'[<<m, k>>] > 0
      BY <2>2, <2>3
    <2> QED BY <1>1, <1>3, <1>4, <2>2, <2>4, RowsKeptKeepsInv
  <1> QED BY <1>5, <1>6 DEF Begin, GiveUp

\* An officer who comes or goes keeps the invariant.
LEMMA AvailabilityKeepsInv ==
    ASSUME Inv, NEW o \in Officers, SetAvailability(o)
    PROVE  Inv'
  <1>1. /\ desk \in [Officers -> {"available", "away", "gone"}] /\ req \in [Requests -> Order]
        /\ queue \in [Message -> Nat] /\ excused \subseteq Leads
        /\ \A q \in Requests : Loaded(q)
        /\ \A x \in Message : queue[x] >= queue[x]
    <2>1. \A x \in Message : queue[x] \in Nat
      BY DEF Inv, TypeOK
    <2> QED BY <2>1 DEF Inv, TypeOK, Order
  <1>2. /\ officerLock[o] = Nobody
        /\ desk' = [desk EXCEPT ![o] = IF @ = "away" THEN "available" ELSE "away"]
        /\ UNCHANGED <<lead, leadLock, officerLock, queue, work, req, excused>>
    BY DEF SetAvailability
  <1>3. /\ desk' \in [Officers -> {"available", "away", "gone"}]
        /\ \A p \in Officers : officerLock[p] # Nobody => desk'[p] = desk[p]
    BY <1>1, <1>2
  <1>4. /\ req' \in [Requests -> Order] /\ \A q \in Requests : Loaded(q)'
        /\ queue' \in [Message -> Nat] /\ excused' \subseteq Leads
        /\ \A x \in Message : queue'[x] >= queue[x]
        /\ \A m \in Leads : m \in excused' \/ m \notin excused
    BY <1>1, <1>2 DEF Loaded
  <1> QED BY <1>2, <1>3, <1>4, RowsKeptKeepsInv

\* Deleting an officer keeps the invariant: no worker has him or a lead of his, and the
\* leads he leaves are excused.
LEMMA DeleteOfficerKeepsInv ==
    ASSUME Inv, NEW r \in Requests, NEW o \in Officers, DeleteOfficer(r, o)
    PROVE  Inv'
  <1> DEFINE his == {l \in Leads : lead[l].officer = o}
  <1>1. /\ TypeOK /\ lead \in [Leads -> Row] /\ Nobody \notin Workers \cup Officers
        /\ desk \in [Officers -> {"available", "away", "gone"}]
    BY LeadsConstants DEF Inv, TypeOK
  <1>2. /\ officerLock[o] = Nobody /\ \A l \in his : leadLock[l] = Nobody
        /\ desk' = [desk EXCEPT ![o] = "gone"]
        /\ lead' = [l \in Leads |-> IF l \in his THEN [lead[l] EXCEPT !.officer = Nobody]
                                                 ELSE lead[l]]
        /\ excused' = excused \cup his
        /\ UNCHANGED <<leadLock, officerLock, queue, work>>
    BY DEF DeleteOfficer
  <1>3. req' \in [Requests -> Order] /\ \A q \in Requests : req'[q] = req[q] \/ req'[q].at # "loaded"
    BY AnswerUses DEF DeleteOfficer
  <1>4. \A l \in Leads : /\ [lead[l] EXCEPT !.officer = Nobody] \in Row
                         /\ [lead[l] EXCEPT !.officer = Nobody].life = lead[l].life
                         /\ [lead[l] EXCEPT !.officer = Nobody].officer = Nobody
    BY <1>1 DEF Row, Somebody
  <1>5. \A l \in Leads : /\ lead'[l] \in Row /\ lead'[l].life = lead[l].life
                         /\ l \in his => lead'[l].officer = Nobody
                         /\ l \notin his => lead'[l] = lead[l]
    BY <1>1, <1>2, <1>4
  <1>6. lead' \in [Leads -> Row]
    BY <1>2, <1>5
  <1>7. TypeOK'
    BY <1>1, <1>2, <1>3, <1>6 DEF TypeOK, Order
  <1>8. ASSUME NEW v \in Workers PROVE Holds(v)'
    <2>1. Holds(v)
      BY DEF Inv
    <2>2. work[v].at # "idle" =>
              leadLock'[work[v].lead] = v /\ lead'[work[v].lead] = lead[work[v].lead]
      <3> SUFFICES ASSUME work[v].at # "idle"
                   PROVE  leadLock'[work[v].lead] = v /\ lead'[work[v].lead] = lead[work[v].lead]
        OBVIOUS
      <3>1. work[v].lead \in Leads /\ leadLock[work[v].lead] = v
        BY <2>1 DEF Holds
      <3>2. work[v].lead \notin his
        BY <1>1, <1>2, <3>1
      <3> QED BY <1>2, <1>5, <3>1, <3>2
    <2>3. \A p \in Officers : officerLock[p] = v =>
              /\ officerLock'[p] = v /\ desk'[p] = desk[p]
              /\ \A m \in Leads : lead'[m].officer = p => lead[m].officer = p
      <3> SUFFICES ASSUME NEW p \in Officers, officerLock[p] = v
                   PROVE  /\ officerLock'[p] = v /\ desk'[p] = desk[p]
                          /\ \A m \in Leads : lead'[m].officer = p => lead[m].officer = p
        OBVIOUS
      <3>1. p # o /\ p # Nobody
        BY <1>1, <1>2
      <3>2. officerLock'[p] = v /\ desk'[p] = desk[p]
        BY <1>1, <1>2, <3>1
      <3> QED BY <1>5, <3>1, <3>2
    <2>4. work'[v] = work[v]
      BY <1>2
    <2> QED BY <1>1, <2>1, <2>2, <2>3, <2>4, Undisturbed
  <1>9. ASSUME NEW q \in Requests PROVE Loaded(q)'
    <2>1. Loaded(q)
      BY DEF Inv
    <2> QED BY <1>3, <1>5, <2>1 DEF Loaded
  <1>10. ASSUME NEW m \in Leads, Waits(m)' PROVE UnderWay(m)'
    <2>1. m \notin his /\ m \notin excused
      BY <1>2, <1>10 DEF Waits
    <2>2. Waits(m)
      BY <1>5, <1>10, <2>1 DEF Waits
    <2>3. UnderWay(m)
      BY <2>2 DEF Inv
    <2> QED BY <1>2, <2>3 DEF UnderWay, Serves
  <1> QED BY <1>7, <1>8, <1>9, <1>10 DEF Inv

\* No request breaks the invariant.
LEMMA RequestKeepsInv ==
    ASSUME Inv, NEW r \in Requests, Request(r)
    PROVE  Inv'
  <1>1. ASSUME NEW o \in Officers, Assign(r, o) \/ DeleteOfficer(r, o) PROVE Inv'
    BY <1>1, AssignKeepsInv, DeleteOfficerKeepsInv
  <1>2. ASSUME NEW u \in Units, Move(r, u) PROVE Inv'
    BY <1>2, MoveKeepsInv
  <1>3. ASSUME NEW l \in Leads, Reopen(r, l) \/ \E o \in Officers : AssignProfile(r, l, o)
        PROVE  Inv'
    BY <1>3, AnswersKeepInv
  <1>4. CASE Reassign(r) \/ Consult(r) \/ Delete(r) \/ Restore(r) \/ ClaimByProfile(r)
    BY <1>4, ReassignKeepsInv, LifeKeepsInv, DeleteKeepsInv, ClaimKeepsInv
  <1>5. CASE \/ \E what \in Kinds, who \in Somebody, l \in Leads : Begin(r, what, who, l)
             \/ GiveUp(r)
             \/ \E l \in Leads : SendTask(r, l)
    BY <1>5, OthersKeepInv
  <1> QED BY <1>1, <1>2, <1>3, <1>4, <1>5 DEF Request

-----------------------------------------------------------------------------
(* Workers *)

\* What a worker does.
Job == [at : {"idle", "locked", "pooled", "counted"}, lead : Leads \cup {Nobody},
        tries : 0 .. MaxRetries, pool : SUBSET Officers, free : SUBSET Officers,
        asleep : SUBSET Leads]

\* A worker that deals with one lead: it respects the locks of the others, writes that
\* lead only under its lock and with an officer it has locked, and leaves the lead either
\* not waiting or under way.
LEMMA WorkerKeepsInv ==
    ASSUME Inv, NEW w \in Workers, NEW l \in Leads, TypeOK', Holds(w)',
           \A v \in Workers \ {w} : work'[v] = work[v],
           work[w].at # "idle" => work[w].lead = l,
           UNCHANGED <<desk, req>>,
           \A m \in Leads : leadLock[m] \notin {w, Nobody} => leadLock'[m] = leadLock[m],
           \A o \in Officers : officerLock[o] \notin {w, Nobody} => officerLock'[o] = officerLock[o],
           \A m \in Leads \ {l} : lead'[m] = lead[m],
           \/ lead'[l] = lead[l]
           \/ /\ leadLock[l] = w /\ lead'[l].life = lead[l].life
              /\ \/ lead'[l].officer = lead[l].officer
                 \/ officerLock[lead'[l].officer] = w,
           \A m \in Leads \ {l}, k \in 0 .. MaxRetries : queue'[<<m, k>>] >= queue[<<m, k>>],
           excused \subseteq excused' \cup {l},
           Waits(l)' => UnderWay(l)'
    PROVE  Inv'
  <1>1. TypeOK /\ Nobody \notin Workers
    BY LeadsConstants DEF Inv
  <1>2. ASSUME NEW v \in Workers PROVE Holds(v)'
    <2>1. CASE v # w
      <3>1. Holds(v) /\ work'[v] = work[v]
        BY <2>1 DEF Inv
      <3>2. work[v].at # "idle" =>
                leadLock'[work[v].lead] = v /\ lead'[work[v].lead] = lead[work[v].lead]
        <4> SUFFICES ASSUME work[v].at # "idle"
                     PROVE  leadLock'[work[v].lead] = v /\ lead'[work[v].lead] = lead[work[v].lead]
          OBVIOUS
        <4>1. work[v].lead \in Leads /\ leadLock[work[v].lead] = v
          BY <3>1 DEF Holds
        <4>2. leadLock'[work[v].lead] = v
          BY <1>1, <2>1, <4>1
        <4>3. work[v].lead = l => lead'[l] = lead[l]
          BY <2>1, <4>1
        <4> QED BY <4>1, <4>2, <4>3
      <3>3. \A o \in Officers : officerLock[o] = v =>
                /\ officerLock'[o] = v /\ desk'[o] = desk[o]
                /\ \A m \in Leads : lead'[m].officer = o => lead[m].officer = o
        BY <1>1, <2>1
      <3> QED BY <1>1, <3>1, <3>2, <3>3, Undisturbed
    <2> QED BY <2>1
  <1>3. ASSUME NEW q \in Requests PROVE Loaded(q)'
    <2>1. Loaded(q)
      BY DEF Inv
    <2>2. \A m \in Leads : lead'[m].life = lead[m].life
      OBVIOUS
    <2> QED BY <2>1, <2>2 DEF Loaded
  <1>4. ASSUME NEW m \in Leads, Waits(m)' PROVE UnderWay(m)'
    <2>1. CASE m # l
      <3>1. m \notin excused /\ Waits(m)
        BY <1>4, <2>1 DEF Waits
      <3>2. \A k \in 0 .. MaxRetries : queue[<<m, k>>] > 0 => queue'[<<m, k>>] > 0
        <4>1. \A k \in 0 .. MaxRetries : <<m, k>> \in Message
          BY DEF Message
        <4>2. \A x \in Message : queue[x] \in Nat /\ queue'[x] \in Nat
          BY <1>1 DEF TypeOK
        <4> QED BY <2>1, <4>1, <4>2
      <3>3. \A v \in Workers : Serves(v, m) => Serves(v, m)'
        BY <2>1 DEF Serves
      <3> QED BY <3>1, <3>2, <3>3, StillUnderWay
    <2> QED BY <1>4, <2>1
  <1> QED BY <1>2, <1>3, <1>4 DEF Inv

\* Taking a message leaves the others.
LEMMA ReceivedTells ==
    ASSUME TypeOK, NEW l \in Leads, NEW k \in 0 .. MaxRetries, queue[<<l, k>>] > 0
    PROVE  /\ Received(l, k) \in [Message -> Nat]
           /\ \A m \in Leads \ {l}, n \in 0 .. MaxRetries :
                 <<m, n>> \in Message /\ Received(l, k)[<<m, n>>] = queue[<<m, n>>]
           /\ \A m \in Leads \ {l}, n \in 0 .. MaxRetries : queue[<<m, n>>] \in Nat
  <1>1. <<l, k>> \in Message /\ queue \in [Message -> Nat]
    BY DEF Message, TypeOK
  <1>2. queue[<<l, k>>] - 1 \in Nat
    BY <1>1
  <1>3. \A m \in Leads \ {l}, n \in 0 .. MaxRetries : <<m, n>> \in Message /\ <<m, n>> # <<l, k>>
    BY DEF Message
  <1> QED BY <1>1, <1>2, <1>3 DEF Received

\* A message that is used up, or meets a lock, keeps the invariant.
LEMMA MessagesKeepInv ==
    ASSUME Inv, NEW w \in Workers, NEW l \in Leads, NEW k \in 0 .. MaxRetries,
           AutoSkip(w, l, k) \/ AutoContended(w, l, k)
    PROVE  Inv'
  <1>1. TypeOK /\ excused \subseteq Leads /\ work[w].at = "idle" /\ queue[<<l, k>>] > 0
        /\ UNCHANGED <<lead, desk, leadLock, officerLock, work, req>>
    BY DEF AutoSkip, AutoContended, Inv, TypeOK
  <1> DEFINE rest == Received(l, k)
  <1>2. /\ rest \in [Message -> Nat]
        /\ \A m \in Leads \ {l}, n \in 0 .. MaxRetries :
               <<m, n>> \in Message /\ rest[<<m, n>>] = queue[<<m, n>>] /\ queue[<<m, n>>] \in Nat
    BY <1>1, ReceivedTells
  <1> HIDE DEF rest
  <1>3. /\ queue' \in [Message -> Nat] /\ excused' \subseteq Leads
        /\ \A m \in Leads \ {l}, n \in 0 .. MaxRetries : queue'[<<m, n>>] >= queue[<<m, n>>]
        /\ excused \subseteq excused' \cup {l}
        /\ Waits(l)' => UnderWay(l)'
    <2>1. CASE AutoSkip(w, l, k)
      <3>1. queue' = rest /\ excused' = IF lead[l].officer = Nobody THEN excused \cup {l} ELSE excused
        BY <2>1 DEF AutoSkip, rest
      <3>2. ~Waits(l)'
        BY <1>1, <3>1 DEF Waits
      <3> QED BY <1>1, <1>2, <3>1, <3>2
    <2>2. CASE AutoContended(w, l, k)
      <3>1. Retry(l, k, rest, TRUE)
        BY <2>2 DEF AutoContended, rest
      <3>2. /\ queue' \in [Message -> Nat] /\ excused' \subseteq Leads
            /\ (\E n \in 0 .. MaxRetries : queue'[<<l, n>>] > 0) \/ l \in excused'
            /\ \A x \in Message : queue'[x] >= rest[x]
            /\ excused \subseteq excused' \cup {l}
        BY <1>1, <1>2, <3>1, RetryTells
      <3>3. \A m \in Leads \ {l}, n \in 0 .. MaxRetries : queue'[<<m, n>>] >= queue[<<m, n>>]
        BY <1>2, <3>2
      <3> QED BY <3>2, <3>3 DEF Waits, UnderWay
    <2> QED BY <2>1, <2>2
  <1>4. TypeOK'
    BY <1>1, <1>3 DEF TypeOK
  <1>5. Holds(w)'
    BY <1>1 DEF Holds
  <1> QED BY <1>1, <1>3, <1>4, <1>5, WorkerKeepsInv

\* Locking the lead keeps the invariant.
LEMMA LockKeepsInv ==
    ASSUME Inv, NEW w \in Workers, NEW l \in Leads, NEW k \in 0 .. MaxRetries, AutoLock(w, l, k)
    PROVE  Inv'
  <1>1. /\ TypeOK /\ work \in [Workers -> Job] /\ leadLock \in [Leads -> Workers \cup {Nobody}]
        /\ work[w].at = "idle" /\ queue[<<l, k>>] > 0 /\ leadLock[l] = Nobody
        /\ ~lead[l].deleted /\ lead[l].officer = Nobody /\ lead[l].life = "open"
        /\ queue' = Received(l, k) /\ leadLock' = [leadLock EXCEPT ![l] = w]
        /\ UNCHANGED <<lead, desk, officerLock, req, excused>>
    BY DEF AutoLock, Inv, TypeOK, Job
  <1> DEFINE job == [work[w] EXCEPT !.at = "locked", !.lead = l, !.tries = k]
  <1>2. job \in Job /\ job.at = "locked" /\ job.lead = l
    BY <1>1 DEF Job
  <1>3. work' = [work EXCEPT ![w] = job]
    BY DEF AutoLock
  <1> HIDE DEF job
  <1>4. /\ work' \in [Workers -> Job] /\ work'[w].at = "locked" /\ work'[w].lead = l
        /\ \A v \in Workers \ {w} : work'[v] = work[v]
    BY <1>1, <1>2, <1>3
  <1>5. /\ queue' \in [Message -> Nat]
        /\ \A m \in Leads \ {l}, n \in 0 .. MaxRetries : queue'[<<m, n>>] >= queue[<<m, n>>]
    <2> DEFINE rest == Received(l, k)
    <2>1. /\ rest \in [Message -> Nat]
          /\ \A m \in Leads \ {l}, n \in 0 .. MaxRetries :
                 rest[<<m, n>>] = queue[<<m, n>>] /\ queue[<<m, n>>] \in Nat
      BY <1>1, ReceivedTells
    <2>2. queue' = rest
      BY <1>1
    <2> HIDE DEF rest
    <2> QED BY <2>1, <2>2
  <1>6. /\ leadLock' \in [Leads -> Workers \cup {Nobody}] /\ leadLock'[l] = w
        /\ \A m \in Leads : leadLock[m] \notin {w, Nobody} => leadLock'[m] = leadLock[m]
    BY <1>1
  <1>7. TypeOK'
    BY <1>1, <1>4, <1>5, <1>6 DEF TypeOK, Job
  <1>8. Holds(w)'
    BY <1>1, <1>4, <1>6 DEF Holds
  <1>9. UnderWay(l)'
    BY <1>4 DEF UnderWay, Serves
  <1>10. excused \subseteq excused' \cup {l}
    BY <1>1
  <1> QED BY <1>1, <1>4, <1>5, <1>6, <1>7, <1>8, <1>9, <1>10, WorkerKeepsInv

\* Locking the officers keeps the invariant: the worker holds those it found free.
LEMMA PoolKeepsInv ==
    ASSUME Inv, NEW w \in Workers, NEW skipped \in SUBSET Officers, AutoPool(w, skipped)
    PROVE  Inv'
  <1>0. PICK l \in Leads : l = work[w].lead
    BY DEF AutoPool, Inv, Holds
  <1> DEFINE pool == {o \in Eligible(l) : officerLock[o] = Nobody} \ skipped
             job == [work[w] EXCEPT !.at = "pooled", !.pool = pool]
  <1>1. /\ TypeOK /\ work \in [Workers -> Job] /\ work[w].at = "locked" /\ Holds(w)
        /\ officerLock \in [Officers -> Workers \cup {Nobody}]
        /\ officerLock' = [o \in Officers |-> IF o \in pool THEN w ELSE officerLock[o]]
        /\ UNCHANGED <<lead, desk, leadLock, queue, req, excused>>
    BY <1>0 DEF AutoPool, Inv, TypeOK, Job
  <1>2. /\ pool \subseteq Officers
        /\ \A o \in pool : /\ officerLock[o] = Nobody /\ desk[o] = "available"
                           /\ UnitOf[o] = lead[l].unit /\ o \notin lead[l].refused
    BY DEF Eligible
  <1>3. work' = [work EXCEPT ![w] = job]
    BY <1>0 DEF AutoPool
  <1> HIDE DEF pool
  <1>4. job \in Job /\ job.at = "pooled" /\ job.lead = l /\ job.pool = pool
    BY <1>0, <1>1, <1>2 DEF Job
  <1>5. /\ l \in Leads /\ leadLock[l] = w
        /\ lead[l].officer = Nobody /\ ~lead[l].deleted /\ lead[l].life = "open"
    BY <1>0, <1>1 DEF Holds
  <1> HIDE DEF job
  <1>6. /\ work' \in [Workers -> Job] /\ work'[w] = job
        /\ \A v \in Workers \ {w} : work'[v] = work[v]
    BY <1>1, <1>3, <1>4
  <1>7. /\ officerLock' \in [Officers -> Workers \cup {Nobody}]
        /\ \A o \in pool : officerLock'[o] = w
        /\ \A o \in Officers : officerLock[o] \notin {w, Nobody} => officerLock'[o] = officerLock[o]
    BY <1>1, <1>2
  <1>8. TypeOK'
    BY <1>1, <1>6, <1>7 DEF TypeOK, Job
  <1>9. Holds(w)'
    BY <1>1, <1>2, <1>4, <1>5, <1>6, <1>7 DEF Holds
  <1>10. UnderWay(l)'
    BY <1>4, <1>6 DEF UnderWay, Serves
  <1>11. /\ excused \subseteq excused' \cup {l}
         /\ \A m \in Leads \ {l}, n \in 0 .. MaxRetries : queue'[<<m, n>>] >= queue[<<m, n>>]
    <2>1. \A m \in Leads, n \in 0 .. MaxRetries : <<m, n>> \in Message
      BY DEF Message
    <2>2. \A x \in Message : queue[x] \in Nat
      BY <1>1 DEF TypeOK
    <2>3. queue' = queue /\ excused' = excused
      BY <1>1
    <2> QED BY <2>1, <2>2, <2>3
  <1>12. /\ work[w].at # "idle" => work[w].lead = l
         /\ UNCHANGED <<desk, req>> /\ lead' = lead /\ leadLock' = leadLock
    BY <1>0, <1>1
  <1> QED BY <1>5, <1>6, <1>7, <1>8, <1>9, <1>10, <1>11, <1>12, WorkerKeepsInv

\* Counting keeps the invariant: the leads that count, and those asleep, are all the
\* leads of an officer.
LEMMA CountKeepsInv ==
    ASSUME Inv, NEW w \in Workers, AutoCount(w)
    PROVE  Inv'
  <1>0. PICK l \in Leads : l = work[w].lead
    BY DEF AutoCount, Inv, Holds
  <1> DEFINE pool == work[w].pool
             free == {o \in pool : Cardinality(Load(o)) < Capacity[o]}
             asleep == {m \in Leads : lead[m].officer \in pool /\ m \notin Load(lead[m].officer)}
             job == [work[w] EXCEPT !.at = "counted", !.free = free, !.asleep = asleep]
  <1>1. /\ TypeOK /\ work \in [Workers -> Job] /\ work[w].at = "pooled" /\ Holds(w)
        /\ UNCHANGED <<lead, desk, leadLock, officerLock, queue, req, excused>>
    BY DEF AutoCount, Inv, TypeOK, Job
  <1>2. pool \subseteq Officers /\ free \subseteq pool /\ asleep \subseteq Leads
    BY <1>1 DEF Job
  <1>3. work' = [work EXCEPT ![w] = job]
    BY DEF AutoCount
  <1>4. \A o \in free : Cardinality(Held(o) \ asleep) < Capacity[o]
    <2> SUFFICES ASSUME NEW o \in free PROVE Cardinality(Held(o) \ asleep) < Capacity[o]
      OBVIOUS
    <2>1. /\ o \in Officers /\ Cardinality(Load(o)) < Capacity[o]
          /\ Held(o) \ asleep \subseteq Load(o) /\ Load(o) \subseteq Leads
      BY <1>2 DEF Held, Load
    <2>2. IsFiniteSet(Load(o)) /\ Capacity[o] \in Nat
      BY <2>1, FS_Subset, LeadsConstants
    <2> DEFINE awake == Held(o) \ asleep
    <2> HIDE DEF awake
    <2>3. IsFiniteSet(awake) /\ Cardinality(awake) <= Cardinality(Load(o))
      BY <2>1, <2>2, FS_Subset DEF awake
    <2>4. Cardinality(awake) \in Nat /\ Cardinality(Load(o)) \in Nat
      BY <2>2, <2>3, FS_CardinalityType
    <2>5. Cardinality(awake) < Capacity[o]
      BY <2>1, <2>2, <2>3, <2>4
    <2> QED BY <2>5 DEF awake
  <1> HIDE DEF free, asleep
  <1>5. /\ job \in Job /\ job.at = "counted" /\ job.lead = l /\ job.pool = pool
        /\ job.free = free /\ job.asleep = asleep
    BY <1>0, <1>1, <1>2 DEF Job
  <1> HIDE DEF job
  <1>6. /\ work' \in [Workers -> Job] /\ work'[w] = job
        /\ \A v \in Workers \ {w} : work'[v] = work[v]
    BY <1>1, <1>3, <1>5
  <1>7. TypeOK'
    BY <1>1, <1>6 DEF TypeOK, Job
  <1>8. \A o \in Officers : Held(o)' = Held(o)
    BY <1>1 DEF Held
  <1>9. Holds(w)'
    <2>1. /\ l \in Leads /\ leadLock'[l] = w
          /\ lead'[l].officer = Nobody /\ ~lead'[l].deleted /\ lead'[l].life = "open"
      BY <1>0, <1>1 DEF Holds
    <2>2. \A o \in pool : /\ officerLock'[o] = w /\ desk'[o] = "available"
                          /\ UnitOf[o] = lead'[l].unit /\ o \notin lead'[l].refused
      BY <1>0, <1>1 DEF Holds
    <2>3. \A o \in free : Cardinality(Held(o)' \ asleep) < Capacity[o]
      BY <1>2, <1>4, <1>8
    <2> QED BY <1>2, <1>5, <1>6, <2>1, <2>2, <2>3 DEF Holds
  <1>10. UnderWay(l)'
    BY <1>5, <1>6 DEF UnderWay, Serves
  <1>11. /\ excused \subseteq excused' \cup {l}
         /\ \A m \in Leads \ {l}, n \in 0 .. MaxRetries : queue'[<<m, n>>] >= queue[<<m, n>>]
    <2>1. \A m \in Leads, n \in 0 .. MaxRetries : <<m, n>> \in Message
      BY DEF Message
    <2>2. \A x \in Message : queue[x] \in Nat
      BY <1>1 DEF TypeOK
    <2>3. queue' = queue /\ excused' = excused
      BY <1>1
    <2> QED BY <2>1, <2>2, <2>3
  <1>12. /\ work[w].at # "idle" => work[w].lead = l
         /\ UNCHANGED <<desk, req>> /\ lead' = lead /\ leadLock' = leadLock
         /\ officerLock' = officerLock
    BY <1>0, <1>1
  <1> QED BY <1>6, <1>7, <1>9, <1>10, <1>11, <1>12, WorkerKeepsInv

\* The end of a worker's transaction: it lets go of its locks and of its job, and the lead
\* has an officer, says it failed, has a message or is excused.
LEMMA EndKeepsInv ==
    ASSUME Inv, NEW w \in Workers, NEW l \in Leads, work[w].at # "idle", work[w].lead = l,
           NEW row \in Row, lead' = [lead EXCEPT ![l] = row], row.life = lead[l].life,
           row.officer = lead[l].officer \/ officerLock[row.officer] = w,
           leadLock' = [leadLock EXCEPT ![l] = Nobody],
           officerLock' = Unlocked(w) \/ officerLock' = officerLock,
           work' = [work EXCEPT ![w] = Idle],
           UNCHANGED <<desk, req>>,
           queue' \in [Message -> Nat], excused' \subseteq Leads,
           \A x \in Message : queue'[x] >= queue[x],
           excused \subseteq excused' \cup {l},
           \/ row.officer # Nobody \/ row.status = "failed" \/ l \in excused'
           \/ \E n \in 0 .. MaxRetries : queue'[<<l, n>>] > 0
    PROVE  Inv'
  <1>1. /\ TypeOK /\ work \in [Workers -> Job] /\ lead \in [Leads -> Row]
        /\ leadLock \in [Leads -> Workers \cup {Nobody}]
        /\ officerLock \in [Officers -> Workers \cup {Nobody}]
        /\ leadLock[l] = w
    BY DEF Inv, TypeOK, Job, Holds
  <1>2. Idle \in Job /\ Idle.at = "idle"
    BY LeadsConstants DEF Idle, Job
  <1>3. /\ work' \in [Workers -> Job] /\ work'[w].at = "idle"
        /\ \A v \in Workers \ {w} : work'[v] = work[v]
    BY <1>1, <1>2
  <1>4. /\ leadLock' \in [Leads -> Workers \cup {Nobody}]
        /\ \A m \in Leads : leadLock[m] \notin {w, Nobody} => leadLock'[m] = leadLock[m]
    BY <1>1
  <1>5. /\ officerLock' \in [Officers -> Workers \cup {Nobody}]
        /\ \A o \in Officers : officerLock[o] \notin {w, Nobody} => officerLock'[o] = officerLock[o]
    BY <1>1 DEF Unlocked
  <1>6. /\ lead' \in [Leads -> Row] /\ lead'[l] = row
        /\ \A m \in Leads \ {l} : lead'[m] = lead[m]
    BY <1>1
  <1>7. TypeOK'
    BY <1>1, <1>3, <1>4, <1>5, <1>6 DEF TypeOK, Job
  <1>8. Holds(w)'
    BY <1>3 DEF Holds
  <1>9. Waits(l)' => UnderWay(l)'
    BY <1>6 DEF Waits, UnderWay
  <1>10. \A m \in Leads \ {l}, n \in 0 .. MaxRetries : queue'[<<m, n>>] >= queue[<<m, n>>]
    BY DEF Message
  <1> QED BY <1>1, <1>3, <1>4, <1>5, <1>6, <1>7, <1>8, <1>9, <1>10, WorkerKeepsInv

\* The worker's job when it ends.
LEMMA JobIsTyped ==
    ASSUME Inv, NEW w \in Workers, work[w].at # "idle"
    PROVE  /\ TypeOK /\ work[w].lead \in Leads /\ work[w].tries \in 0 .. MaxRetries
           /\ lead[work[w].lead] \in Row /\ lead \in [Leads -> Row]
           /\ lead[work[w].lead].officer = Nobody /\ lead[work[w].lead].life = "open"
           /\ queue \in [Message -> Nat] /\ excused \subseteq Leads
           /\ \A x \in Message : queue[x] >= queue[x]
  <1>1. \A x \in Message : queue[x] \in Nat
    BY DEF Inv, TypeOK
  <1> QED BY <1>1 DEF Inv, TypeOK, Holds

\* An assignment keeps the invariant: the officer is one the worker has locked.
LEMMA AutoAssignKeepsInv ==
    ASSUME Inv, NEW w \in Workers, AutoAssign(w)
    PROVE  Inv'
  <1>0. work[w].at = "counted" /\ work[w].at # "idle"
    BY DEF AutoAssign
  <1>1. PICK l \in Leads : l = work[w].lead
    BY <1>0, JobIsTyped
  <1>2. PICK o \in work[w].free :
           lead' = [lead EXCEPT ![l] = [@ EXCEPT !.officer = o, !.status = "assigned"]]
    BY <1>1 DEF AutoAssign
  <1>3. o \in Officers /\ officerLock[o] = w /\ o # Nobody
    <2>1. work[w].pool \subseteq Officers /\ Holds(w)
      BY DEF Inv, TypeOK
    <2>2. o \in work[w].pool
      BY <1>0, <2>1 DEF Holds
    <2> QED BY <1>0, <2>1, <2>2, LeadsConstants DEF Holds
  <1>4. PICK row \in Row : /\ row.life = lead[l].life /\ row.officer = o
                           /\ lead' = [lead EXCEPT ![l] = row]
    <2> DEFINE row == [lead[l] EXCEPT !.officer = o, !.status = "assigned"]
    <2>1. row \in Row /\ row.life = lead[l].life /\ row.officer = o
      BY <1>0, <1>1, <1>3, JobIsTyped DEF Row, Somebody
    <2>2. lead' = [lead EXCEPT ![l] = row]
      BY <1>0, <1>1, <1>2, JobIsTyped
    <2> HIDE DEF row
    <2> QED BY <2>1, <2>2
  <1>5. /\ leadLock' = [leadLock EXCEPT ![l] = Nobody] /\ officerLock' = Unlocked(w)
        /\ work' = [work EXCEPT ![w] = Idle]
        /\ UNCHANGED <<desk, queue, req, excused>>
    BY <1>1 DEF AutoAssign, Finish
  <1>6. /\ queue' \in [Message -> Nat] /\ excused' \subseteq Leads
        /\ \A x \in Message : queue'[x] >= queue[x]
        /\ excused \subseteq excused' \cup {l}
    BY <1>0, <1>5, JobIsTyped
  <1> QED BY <1>0, <1>1, <1>3, <1>4, <1>5, <1>6, EndKeepsInv

\* A failure keeps the invariant: the lead says so.
LEMMA AutoFailKeepsInv ==
    ASSUME Inv, NEW w \in Workers, AutoNoOfficers(w) \/ AutoFull(w)
    PROVE  Inv'
  <1>0. work[w].at # "idle"
    BY DEF AutoNoOfficers, AutoFull
  <1>1. PICK l \in Leads : l = work[w].lead
    BY <1>0, JobIsTyped
  <1>2. PICK row \in Row : /\ row.life = lead[l].life /\ row.officer = lead[l].officer
                           /\ row.status = "failed" /\ lead' = [lead EXCEPT ![l] = row]
    <2> DEFINE row == [lead[l] EXCEPT !.status = "failed"]
    <2>1. /\ row \in Row /\ row.life = lead[l].life /\ row.officer = lead[l].officer
          /\ row.status = "failed"
      BY <1>0, <1>1, JobIsTyped DEF Row
    <2>2. lead' = [lead EXCEPT ![l] = row]
      BY <1>0, <1>1, JobIsTyped DEF AutoNoOfficers, AutoFull
    <2> HIDE DEF row
    <2> QED BY <2>1, <2>2
  <1>3. /\ leadLock' = [leadLock EXCEPT ![l] = Nobody]
        /\ officerLock' = Unlocked(w) \/ officerLock' = officerLock
        /\ work' = [work EXCEPT ![w] = Idle] /\ UNCHANGED <<desk, req>>
    BY <1>1 DEF AutoNoOfficers, AutoFull, Finish
  <1>4. /\ queue' \in [Message -> Nat] /\ excused' \subseteq Leads
        /\ \A x \in Message : queue'[x] >= queue[x]
        /\ excused \subseteq excused' \cup {l}
    <2>1. CASE AutoNoOfficers(w)
      BY <1>0, <2>1, JobIsTyped DEF AutoNoOfficers
    <2>2. CASE AutoFull(w)
      <3>1. PICK k \in 0 .. MaxRetries, q \in [Message -> Nat] :
               Retry(l, k, q, FALSE) /\ q = queue
        BY <1>0, <1>1, <2>2, JobIsTyped DEF AutoFull
      <3>2. excused \subseteq Leads
        BY <1>0, JobIsTyped
      <3> QED BY <3>1, <3>2, RetryTells
    <2> QED BY <2>1, <2>2
  <1> QED BY <1>0, <1>1, <1>2, <1>3, <1>4, EndKeepsInv

\* An error or a death keeps the invariant: there is a retry, or the lead is excused.
LEMMA AutoAbortKeepsInv ==
    ASSUME Inv, NEW w \in Workers, AutoAbort(w)
    PROVE  Inv'
  <1>0. work[w].at # "idle"
    BY DEF AutoAbort
  <1>1. PICK l \in Leads : l = work[w].lead
    BY <1>0, JobIsTyped
  <1>2. PICK row \in Row : row = lead[l]
    BY <1>0, <1>1, JobIsTyped
  <1>3. /\ row.life = lead[l].life /\ row.officer = lead[l].officer
        /\ lead' = [lead EXCEPT ![l] = row]
    BY <1>0, <1>2, JobIsTyped DEF AutoAbort
  <1>4. /\ leadLock' = [leadLock EXCEPT ![l] = Nobody] /\ officerLock' = Unlocked(w)
        /\ work' = [work EXCEPT ![w] = Idle] /\ UNCHANGED <<desk, req>>
    BY <1>1 DEF AutoAbort, Finish
  <1>5. /\ queue' \in [Message -> Nat] /\ excused' \subseteq Leads
        /\ \A x \in Message : queue'[x] >= queue[x]
        /\ excused \subseteq excused' \cup {l}
        /\ l \in excused' \/ \E n \in 0 .. MaxRetries : queue'[<<l, n>>] > 0
    <2>1. CASE queue' = queue /\ excused' = excused \cup {l}
      BY <1>0, <2>1, JobIsTyped
    <2>2. CASE Retry(l, work[w].tries, queue, TRUE)
      <3>1. PICK k \in 0 .. MaxRetries, q \in [Message -> Nat] :
               Retry(l, k, q, TRUE) /\ q = queue
        BY <1>0, <2>2, JobIsTyped
      <3>2. excused \subseteq Leads
        BY <1>0, JobIsTyped
      <3> QED BY <3>1, <3>2, RetryTells
    <2> QED BY <1>1, <2>1, <2>2 DEF AutoAbort
  <1> QED BY <1>0, <1>1, <1>3, <1>4, <1>5, EndKeepsInv

\* No worker breaks the invariant.
LEMMA TaskKeepsInv ==
    ASSUME Inv, NEW w \in Workers, TaskStep(w)
    PROVE  Inv'
  <1>1. ASSUME NEW l \in Leads, NEW k \in 0 .. MaxRetries,
               AutoSkip(w, l, k) \/ AutoLock(w, l, k) \/ AutoContended(w, l, k)
        PROVE  Inv'
    BY <1>1, MessagesKeepInv, LockKeepsInv
  <1>2. ASSUME NEW m \in Message,
               AutoSkip(w, m[1], m[2]) \/ AutoLock(w, m[1], m[2]) \/ AutoContended(w, m[1], m[2])
        PROVE  Inv'
    <2>1. m[1] \in Leads /\ m[2] \in 0 .. MaxRetries
      BY DEF Message
    <2> QED BY <1>1, <1>2, <2>1
  <1>3. ASSUME NEW skipped \in SUBSET Officers, AutoPool(w, skipped)
        PROVE  Inv'
    BY <1>3, PoolKeepsInv
  <1>4. CASE \/ AutoNoOfficers(w) \/ AutoCount(w)
             \/ AutoAssign(w) \/ AutoFull(w) \/ AutoAbort(w)
    BY <1>4, AutoFailKeepsInv, CountKeepsInv, AutoAssignKeepsInv, AutoAbortKeepsInv
  <1> QED BY <1>2, <1>3, <1>4 DEF TaskStep

-----------------------------------------------------------------------------
(* The theorems *)

\* Nothing has happened yet.
LEMMA InitGivesInv == Init => Inv
  <1> SUFFICES ASSUME Init PROVE Inv
    OBVIOUS
  <1>1. Blank \in Row /\ Blank.life = "absent"
    BY DEF Blank, Row, Somebody
  <1>2. Idle \in Job /\ Idle.at = "idle" /\ New \in Order /\ New.at = "new"
    BY <1>1, LeadsConstants DEF Idle, Job, New, Order, Kinds, Somebody
  <1>3. TypeOK
    BY <1>1, <1>2 DEF Init, TypeOK, Job, Order
  <1>4. \A w \in Workers : Holds(w)
    BY <1>2 DEF Init, Holds
  <1>5. \A r \in Requests : Loaded(r)
    BY <1>2 DEF Init, Loaded
  <1>6. \A l \in Leads : ~Waits(l)
    BY <1>1 DEF Init, Waits
  <1> QED BY <1>3, <1>4, <1>5, <1>6 DEF Inv

\* No step breaks the invariant.
LEMMA NextKeepsInv == Inv /\ [Next]_vars => Inv'
  <1> SUFFICES ASSUME Inv, [Next]_vars PROVE Inv'
    OBVIOUS
  <1>1. ASSUME NEW w \in Workers, TaskStep(w) PROVE Inv'
    BY <1>1, TaskKeepsInv
  <1>2. ASSUME NEW r \in Requests, Request(r) PROVE Inv'
    BY <1>2, RequestKeepsInv
  <1>3. ASSUME NEW l \in Leads, NEW u \in Units, Create(l, u) PROVE Inv'
    BY <1>3, CreateKeepsInv
  <1>4. ASSUME NEW o \in Officers, SetAvailability(o) PROVE Inv'
    BY <1>4, AvailabilityKeepsInv
  <1>5. CASE UNCHANGED vars
    <2>1. TypeOK'
      BY <1>5 DEF Inv, TypeOK, vars
    <2>2. \A w \in Workers : Holds(w)'
      BY <1>5 DEF Inv, Holds, Held, vars
    <2>3. \A r \in Requests : Loaded(r)'
      BY <1>5 DEF Inv, Loaded, vars
    <2>4. \A l \in Leads : Waits(l)' => UnderWay(l)'
      BY <1>5 DEF Inv, Waits, UnderWay, Serves, vars
    <2> QED BY <2>1, <2>2, <2>3, <2>4 DEF Inv
  <1> QED BY <1>1, <1>2, <1>3, <1>4, <1>5 DEF Next

\* The inductive invariant: types, what workers hold, requests work on leads that are
\* there, and a lead without officer is excused, failed or under way.
THEOREM InvHolds == Spec => []Inv
  BY InitGivesInv, NextKeepsInv, PTL DEF Spec

\* Rows, locks, messages and what workers and requests hold have their types.
THEOREM TypeCorrect == Spec => []TypeOK
  <1>1. Inv => TypeOK
    BY DEF Inv
  <1> QED BY <1>1, InvHolds, PTL

\* A lead that waits for an officer and does not say it failed has a message or a worker,
\* or its last message came to nothing in one of the ways the code has.
THEOREM NobodyIsForgotten == Spec => []NobodyForgotten
  <1>1. Inv => NobodyForgotten
    BY DEF Inv, NobodyForgotten, Waits, UnderWay, Serves
  <1> QED BY <1>1, InvHolds, PTL

\* Only AutoAssign gives a lead, to an officer the worker found free.
LEMMA GivingIsAssigning ==
    ASSUME Inv, [Next]_vars, NEW w \in Workers, NEW o \in Officers, Gives(w, o)
    PROVE  /\ work[w].at = "counted" /\ o \in work[w].free
           /\ \A m \in Leads : lead'[m].officer = o => lead[m].officer = o \/ m = work[w].lead
           /\ UNCHANGED desk
  <1>1. work[w].at = "counted" /\ work'[w].at = "idle" /\ work[w].lead \in Leads
        /\ lead \in [Leads -> Row] /\ work \in [Workers -> Job]
    BY DEF Gives, Inv, Holds, TypeOK, Job
  <1>2. lead'[work[w].lead].officer = o /\ lead[work[w].lead].officer # o
    BY DEF Gives
  <1>3. work' # work
    BY <1>1
  <1>4. PICK v \in Workers : TaskStep(v)
    <2>1. ASSUME NEW r \in Requests, Request(r) PROVE work' = work
      BY <2>1 DEF Request, Begin, Assign, Reassign, Consult, Move, Delete, Restore, Write, Commit,
                  ClaimByProfile, GiveUp, Reopen, AssignProfile, DeleteOfficer, SendTask
    <2>2. ASSUME NEW l \in Leads, NEW u \in Units, Create(l, u) PROVE work' = work
      BY <2>2 DEF Create
    <2>3. ASSUME NEW p \in Officers, SetAvailability(p) PROVE work' = work
      BY <2>3 DEF SetAvailability
    <2> QED BY <1>3, <2>1, <2>2, <2>3 DEF Next, vars
  <1>5. ASSUME NEW m \in Message,
               AutoSkip(v, m[1], m[2]) \/ AutoLock(v, m[1], m[2]) \/ AutoContended(v, m[1], m[2])
        PROVE  FALSE
    <2>1. lead' = lead
      BY <1>5 DEF AutoSkip, AutoLock, AutoContended
    <2> QED BY <1>2, <2>1
  <1>6. ASSUME NEW skipped \in SUBSET Officers, AutoPool(v, skipped) PROVE FALSE
    <2>1. lead' = lead
      BY <1>6 DEF AutoPool
    <2> QED BY <1>2, <2>1
  <1>7. ~AutoCount(v) /\ ~AutoAbort(v)
    <2>1. AutoCount(v) \/ AutoAbort(v) => lead' = lead
      BY DEF AutoCount, AutoAbort
    <2> QED BY <1>2, <2>1
  <1>8. ~AutoNoOfficers(v) /\ ~AutoFull(v)
    <2>1. AutoNoOfficers(v) \/ AutoFull(v) =>
              lead' = [lead EXCEPT ![work[v].lead].status = "failed"]
      BY DEF AutoNoOfficers, AutoFull
    <2>2. lead[work[w].lead] \in Row
      BY <1>1
    <2>3. [lead[work[w].lead] EXCEPT !.status = "failed"].officer = lead[work[w].lead].officer
      BY <2>2 DEF Row
    <2> QED BY <1>1, <1>2, <2>1, <2>3
  <1>9. AutoAssign(v)
    BY <1>4, <1>5, <1>6, <1>7, <1>8 DEF TaskStep
  <1>10. v = w
    <2>1. work' = [work EXCEPT ![v] = Idle]
      BY <1>9 DEF AutoAssign, Finish
    <2> QED BY <1>1, <2>1
  <1>11. PICK p \in work[w].free :
            lead' = [lead EXCEPT ![work[w].lead] = [@ EXCEPT !.officer = p, !.status = "assigned"]]
    BY <1>9, <1>10 DEF AutoAssign
  <1>12. lead[work[w].lead] \in Row /\ UNCHANGED desk
    BY <1>1, <1>9 DEF AutoAssign
  <1>13. [lead[work[w].lead] EXCEPT !.officer = p, !.status = "assigned"].officer = p
    BY <1>12 DEF Row
  <1>14. lead'[work[w].lead].officer = p
    BY <1>1, <1>11, <1>13
  <1>15. \A m \in Leads : m # work[w].lead => lead'[m] = lead[m]
    BY <1>1, <1>11
  <1> QED BY <1>1, <1>2, <1>11, <1>12, <1>14, <1>15

\* The task gives nobody a lead beyond his capacity: since its count, the officer can only
\* have lost leads.
THEOREM CapacityRespected == Spec => AutoRespectsCapacity
  <1> DEFINE Step == \A w \in Workers, o \in Officers :
                        Gives(w, o) => Cardinality(Load(o)' \ work[w].asleep) <= Capacity[o]
  <1>1. Inv /\ [Next]_vars => Step
    <2> SUFFICES ASSUME Inv, [Next]_vars, NEW w \in Workers, NEW o \in Officers, Gives(w, o)
                 PROVE  Cardinality(Load(o)' \ work[w].asleep) <= Capacity[o]
      OBVIOUS
    <2>1. /\ work[w].at = "counted" /\ o \in work[w].free
          /\ \A m \in Leads : lead'[m].officer = o => lead[m].officer = o \/ m = work[w].lead
      BY GivingIsAssigning
    <2> DEFINE before == Held(o) \ work[w].asleep
               after == Load(o)' \ work[w].asleep
               both == before \cup {work[w].lead}
    <2>2. after \subseteq both /\ before \subseteq Leads
      BY <2>1 DEF Held, Load
    <2>3. Cardinality(before) < Capacity[o]
      BY <2>1 DEF Inv, Holds
    <2>4. IsFiniteSet(before) /\ Capacity[o] \in Nat
      BY <2>2, FS_Subset, LeadsConstants
    <2> HIDE DEF before, after
    <2>5. Cardinality(before) \in Nat
      BY <2>4, FS_CardinalityType
    <2>6. /\ IsFiniteSet(both)
          /\ Cardinality(both) = IF work[w].lead \in before THEN Cardinality(before)
                                 ELSE Cardinality(before) + 1
      BY <2>4, FS_AddElement
    <2> HIDE DEF both
    <2>7. IsFiniteSet(after) /\ Cardinality(after) <= Cardinality(both)
      BY <2>2, <2>6, FS_Subset
    <2>8. Cardinality(after) \in Nat
      BY <2>7, FS_CardinalityType
    <2>9. Cardinality(after) <= Capacity[o]
      BY <2>3, <2>4, <2>5, <2>6, <2>7, <2>8
    <2> QED BY <2>9 DEF after
  <1>2. Spec => [][Step]_vars
    BY <1>1, InvHolds, PTL DEF Spec
  <1> QED BY <1>2 DEF AutoRespectsCapacity

\* When the task commits, the lead is still one to give away and the officer one it may go to.
THEOREM GivenRightly == Spec => AutoGivesRightly
  <1> DEFINE Step == \A w \in Workers, o \in Officers : Gives(w, o) =>
                        LET l == lead[work[w].lead]
                        IN  /\ l.officer = Nobody /\ ~l.deleted /\ l.life = "open"
                            /\ desk[o] = "available" /\ UnitOf[o] = l.unit /\ o \notin l.refused
  <1>1. Inv /\ [Next]_vars => Step
    <2> SUFFICES ASSUME Inv, [Next]_vars, NEW w \in Workers, NEW o \in Officers, Gives(w, o)
                 PROVE  LET l == lead[work[w].lead]
                        IN  /\ l.officer = Nobody /\ ~l.deleted /\ l.life = "open"
                            /\ desk[o] = "available" /\ UnitOf[o] = l.unit /\ o \notin l.refused
      OBVIOUS
    <2>1. work[w].at = "counted" /\ o \in work[w].free /\ Holds(w)
      BY GivingIsAssigning DEF Inv
    <2> QED BY <2>1 DEF Holds
  <1>2. Spec => [][Step]_vars
    BY <1>1, InvHolds, PTL DEF Spec
  <1> QED BY <1>2 DEF AutoGivesRightly

=============================================================================
