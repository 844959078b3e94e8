--------------------------- MODULE AdmissionProofs ---------------------------
(***************************************************************************)
(* Proofs about Admission for every set of profiles, paths and offerings,  *)
(* every quota and every number of requests at a time: the places of a     *)
(* round are never oversubscribed, a published status agrees with the      *)
(* decisions on its choices, and the engine never admits beyond a quota.   *)
(*                                                                         *)
(* None is inductive.  The round quota is compared with a counter, so      *)
(* what is kept is that the counter never falls below the profiles in play *)
(* (PlacesAreCounted), an open change of major included: it gives a place  *)
(* back when it ends.  The decisions of a cascade are made in memory: they *)
(* stand at the commit because its profile's lock has kept the choices as  *)
(* they were (DecidersHoldRow, CascadeFollowsChoices).  And the seat it    *)
(* has counted is free at the commit because whoever decides a guarded     *)
(* seat holds a lock of the path or of the year that the cascade has       *)
(* (SeatsKept, OthersKeepSeats).                                           *)
(***************************************************************************)
EXTENDS Admission, FiniteSetTheorems, SequenceTheorems, TLAPS

\* The profiles that hold a place on a path, or that will give one back on it.
Placed(c) ==
    {p \in Profiles : applied[p] = c /\ (status[p] \in InPlay \/ p \in requested)}

PlacesAreCounted == \A c \in Paths : Cardinality(Placed(c)) <= count[c]

\* The profiles a request has read and will decide.
Deciding(q) ==
    {p \in Profiles :
        \/ req[q].at \in {"publish", "promote"} /\ p = req[q].who
        \/ req[q].at = "approve" /\ p \in req[q].approved
        \/ req[q].at = "approve" /\ req[q].tier = 2 /\ p = req[q].who}

\* A profile's row is locked from the moment it was found decidable.
DecidersHoldRow ==
    \A q \in Requests :
        /\ req[q].at = "idle" => req[q].approved = {}
        /\ req[q].at \in {"publish", "promote"} => req[q].who \in Profiles
        /\ req[q].at = "approve" /\ req[q].tier = 2 => req[q].who \in Profiles
        /\ \A p \in Deciding(q) :
             /\ profileLock[p] = q
             /\ status[p] \in {"submitted", "resubmitted", "waitlisted"}
             /\ ~CycleOpen(p)

\* What a cascade has decided, and has yet to decide, are choices of its profile; it
\* ends with its first admission.
CascadeOf(q) ==
    LET judged == req[q].judged
        chosen == ToSet(choices[req[q].who])
    IN  /\ \A c, d \in Options : judged[c] = "admitted" /\ judged[d] = "admitted" => c = d
        /\ req[q].todo # <<>> => \A c \in Options : judged[c] # "admitted"
        /\ \A c \in Options : judged[c] # "none" => c \in chosen
        /\ ToSet(req[q].todo) \subseteq chosen

CascadeFollowsChoices ==
    \A q \in Requests : req[q].at \in {"publish", "promote"} => CascadeOf(q)

\* A decision of p is one on a choice p has.
OnChoices(p) == \A c \in Options : decision[p][c] # "none" => c \in ToSet(choices[p])

\* The status a profile was published with follows from its decisions.
Published(p) ==
    /\ status[p] = "admitted" => \E c \in Options : \A d \in Options :
                                   decision[p][d] = "admitted" <=> d = c
    /\ status[p] = "waitlisted" => /\ \A c \in Options : decision[p][c] # "admitted"
                                   /\ \E c \in Options : decision[p][c] = "waitlisted"

\* No seat is held and none is waited for while a change of major is open.
Settled(p) == status[p] \in Occupying \cup {"waitlisted"} => ~CycleOpen(p)

RowsAgree == \A p \in Profiles : OnChoices(p) /\ Published(p) /\ Settled(p)

Inv == TypeOK /\ PlacesAreCounted /\ DecidersHoldRow /\ CascadeFollowsChoices /\ RowsAgree

-----------------------------------------------------------------------------
(* Sequences of paths *)

\* The first element of what is left of a cascade, and what is left after it.
LEMMA HeadAndTail ==
    ASSUME NEW s \in Seq(Options), s # <<>>
    PROVE  /\ Head(s) \in Options /\ Head(s) \in ToSet(s)
           /\ Tail(s) \in Seq(Options) /\ ToSet(Tail(s)) \subseteq ToSet(s)
  <1>1. Len(s) \in Nat /\ Len(s) > 0 /\ Head(s) = s[1]
    OBVIOUS
  <1>2. /\ Len(Tail(s)) = Len(s) - 1
        /\ \A i \in 1..Len(s) - 1 : Tail(s)[i] = s[i + 1]
    BY <1>1
  <1>3. DOMAIN s = 1..Len(s) /\ DOMAIN Tail(s) = 1..Len(s) - 1
    BY <1>1, <1>2
  <1>4. \A i \in 1..Len(s) - 1 : i + 1 \in 1..Len(s)
    BY <1>1
  <1>5. ToSet(Tail(s)) \subseteq ToSet(s)
    BY <1>2, <1>3, <1>4 DEF ToSet
  <1> QED BY <1>1, <1>3, <1>5 DEF ToSet

\* The elements of a sequence of options are options.
LEMMA ElementsAreOptions == ASSUME NEW s \in Seq(Options) PROVE ToSet(s) \subseteq Options
  BY DEF ToSet

\* AddChoice appends a choice and keeps the others.
LEMMA AppendKeeps ==
    ASSUME NEW s \in Seq(Options), NEW c \in Options
    PROVE  Append(s, c) \in Seq(Options) /\ ToSet(s) \subseteq ToSet(Append(s, c))
  <1>1. /\ Len(s) \in Nat /\ Len(Append(s, c)) = Len(s) + 1
        /\ \A i \in 1..Len(s) : Append(s, c)[i] = s[i]
    OBVIOUS
  <1>2. DOMAIN s = 1..Len(s) /\ DOMAIN Append(s, c) = 1..Len(s) + 1
    BY <1>1
  <1>3. \A i \in 1..Len(s) : i \in 1..Len(s) + 1
    BY <1>1
  <1> QED BY <1>1, <1>2, <1>3 DEF ToSet

\* DeleteChoice removes one choice and keeps the others.
LEMMA RemoveKeeps ==
    ASSUME NEW s \in Seq(Options), NEW i \in DOMAIN s
    PROVE  /\ RemoveAt(s, i) \in Seq(Options)
           /\ \A c \in ToSet(s) : c # s[i] => c \in ToSet(RemoveAt(s, i))
  <1> DEFINE a == SubSeq(s, 1, i - 1)
             b == SubSeq(s, i + 1, Len(s))
  <1>1. Len(s) \in Nat /\ DOMAIN s = 1..Len(s) /\ i \in 1..Len(s)
    OBVIOUS
  <1>2. /\ a \in Seq(Options) /\ Len(a) = i - 1
        /\ \A j \in 1..i - 1 : a[j] = s[j]
    BY <1>1
  <1>3. /\ b \in Seq(Options) /\ Len(b) = Len(s) - i
        /\ \A j \in 1..Len(s) - i : b[j] = s[i + j]
    BY <1>1
  <1> HIDE DEF a, b
  <1>4. /\ a \o b \in Seq(Options) /\ Len(a \o b) = Len(s) - 1
        /\ \A j \in 1..Len(s) - 1 :
             (a \o b)[j] = IF j <= i - 1 THEN a[j] ELSE b[j - (i - 1)]
    <2>1. /\ a \o b \in Seq(Options) /\ Len(a \o b) = Len(a) + Len(b)
          /\ \A j \in 1..Len(a) + Len(b) :
               (a \o b)[j] = IF j <= Len(a) THEN a[j] ELSE b[j - Len(a)]
      BY <1>2, <1>3, ConcatProperties, Zenon
    <2>2. Len(a) + Len(b) = Len(s) - 1
      BY <1>1, <1>2, <1>3
    <2> QED BY <1>2, <2>1, <2>2, Zenon
  <1>5. \A j \in 1..Len(s) : j < i => j \in 1..Len(s) - 1 /\ (a \o b)[j] = s[j]
    BY <1>1, <1>2, <1>4
  <1>6. \A j \in 1..Len(s) : j > i => j - 1 \in 1..Len(s) - 1 /\ (a \o b)[j - 1] = s[j]
    <2> TAKE j \in 1..Len(s)
    <2> HAVE j > i
    <2>1. /\ j - 1 \in 1..Len(s) - 1 /\ ~(j - 1 <= i - 1)
          /\ (j - 1) - (i - 1) = j - i /\ j - i \in 1..Len(s) - i /\ i + (j - i) = j
      BY <1>1
    <2>2. (a \o b)[j - 1] = b[j - i]
      BY <1>4, <2>1
    <2> QED BY <1>3, <2>1, <2>2
  <1>7. DOMAIN (a \o b) = 1..Len(s) - 1
    <2>1. \A t \in Seq(Options) : DOMAIN t = 1..Len(t)
      OBVIOUS
    <2> QED BY <1>4, <2>1, Zenon
  <1>8. \A j \in 1..Len(s) : j # i => s[j] \in ToSet(a \o b)
    <2> TAKE j \in 1..Len(s)
    <2> HAVE j # i
    <2>1. j < i \/ j > i
      BY <1>1
    <2>2. \E k \in 1..Len(s) - 1 : (a \o b)[k] = s[j]
      BY <1>5, <1>6, <2>1
    <2> QED BY <1>7, <2>2, Zenon DEF ToSet
  <1>9. RemoveAt(s, i) = a \o b
    BY DEF RemoveAt, a, b
  <1> QED BY <1>1, <1>4, <1>8, <1>9 DEF ToSet

\* Reorder gives every choice a new place.
LEMMA ReorderKeeps ==
    ASSUME NEW s \in Seq(Options), NEW order \in SetToSeqs(ToSet(s))
    PROVE  order \in Seq(Options) /\ ToSet(order) = ToSet(s)
  <1> DEFINE S == ToSet(s)
             n == Cardinality(S)
  <1>1. IsFiniteSet(S) /\ S \subseteq Options
    <2>1. Len(s) \in Nat /\ DOMAIN s = 1..Len(s)
      OBVIOUS
    <2>2. IsFiniteSet(1..Len(s))
      BY <2>1, FS_Interval
    <2>3. s \in [1..Len(s) -> S] /\ \A x \in S : \E i \in 1..Len(s) : s[i] = x
      BY <2>1 DEF ToSet
    <2>4. s \in Surjection(1..Len(s), S)
      BY <2>3 DEF Surjection
    <2> QED BY <2>2, <2>4, FS_Surjection, ElementsAreOptions
  <1>2. n \in Nat
    BY <1>1, FS_CardinalityType
  <1>3. Cardinality(1..n) = n
    BY <1>2, FS_Interval
  <1>4. order \in Injection(1..n, S)
    BY DEF SetToSeqs, Injection, IsInjective
  <1>5. order \in Surjection(1..n, S)
    BY <1>1, <1>3, <1>4, FS_Injection
  <1>6. order \in [1..n -> S] /\ \A x \in S : \E i \in 1..n : order[i] = x
    BY <1>5 DEF Surjection
  <1>7. order \in Seq(Options)
    BY <1>1, <1>2, <1>6
  <1>8. ToSet(order) = S
    BY <1>6 DEF ToSet
  <1> QED BY <1>7, <1>8

-----------------------------------------------------------------------------
(* The counter of a path *)

Counts(counts) ==
    /\ counts \in [Paths -> Nat]
    /\ \A c \in Paths : RoundQuota[c] # Unlimited => counts[c] <= RoundQuota[c]

\* A place that is given back.
LEMMA LessCounts ==
    ASSUME NEW counts, Counts(counts), NEW c \in Paths
    PROVE  /\ Counts(Less(counts, c))
           /\ Less(counts, c)[c] = IF counts[c] > 0 THEN counts[c] - 1 ELSE 0
           /\ \A d \in Paths \ {c} : Less(counts, c)[d] = counts[d]
  <1> DEFINE n == IF counts[c] > 0 THEN counts[c] - 1 ELSE 0
  <1>1. n \in Nat /\ n <= counts[c]
    BY DEF Counts
  <1>2. Less(counts, c) = [counts EXCEPT ![c] = n]
    BY DEF Less
  <1> HIDE DEF n
  <1>3. Less(counts, c)[c] = n /\ \A d \in Paths \ {c} : Less(counts, c)[d] = counts[d]
    BY <1>2 DEF Counts
  <1>4. Less(counts, c) \in [Paths -> Nat]
    BY <1>1, <1>2 DEF Counts
  <1>5. RoundQuota[c] # Unlimited => RoundQuota[c] \in Nat
    BY AdmissionConstants
  <1>6. RoundQuota[c] # Unlimited => n <= RoundQuota[c]
    BY <1>1, <1>5 DEF Counts
  <1>7. Counts(Less(counts, c))
    BY <1>3, <1>4, <1>6 DEF Counts
  <1> QED BY <1>3, <1>7 DEF n

\* A place that is taken: the round had one left.
LEMMA TakeCounts ==
    ASSUME NEW counts, Counts(counts), NEW c \in Paths, TakePlace(counts, c)
    PROVE  /\ Counts(count')
           /\ count'[c] = counts[c] + 1
           /\ \A d \in Paths \ {c} : count'[d] = counts[d]
  <1>1. count' = [counts EXCEPT ![c] = counts[c] + 1]
    BY DEF TakePlace
  <1>2. count'[c] = counts[c] + 1 /\ \A d \in Paths \ {c} : count'[d] = counts[d]
    BY <1>1 DEF Counts
  <1>3. count' \in [Paths -> Nat]
    BY <1>1 DEF Counts
  <1>4. RoundQuota[c] # Unlimited => counts[c] < RoundQuota[c] /\ RoundQuota[c] \in Nat
    BY AdmissionConstants DEF TakePlace, Unclaimed
  <1>5. RoundQuota[c] # Unlimited => count'[c] <= RoundQuota[c]
    BY <1>2, <1>4 DEF Counts
  <1> QED BY <1>2, <1>3, <1>5 DEF Counts

\* Placed profiles are finitely many.
LEMMA PlacedFinite ==
    /\ \A c \in Paths : IsFiniteSet(Placed(c)) /\ Cardinality(Placed(c)) \in Nat
    /\ \A S \in SUBSET Profiles : IsFiniteSet(S) /\ Cardinality(S) \in Nat
  <1>1. ASSUME NEW S \in SUBSET Profiles PROVE IsFiniteSet(S) /\ Cardinality(S) \in Nat
    BY AdmissionConstants, FS_Subset, FS_CardinalityType
  <1>2. \A c \in Paths : Placed(c) \in SUBSET Profiles
    BY DEF Placed
  <1> QED BY <1>1, <1>2

-----------------------------------------------------------------------------
(* A request of one step changes one row that nobody holds *)

RowOnly(p) ==
    /\ profileLock[p] = Nobody
    /\ UNCHANGED <<locks, req>>
    /\ \A o \in Profiles \ {p} :
         /\ status'[o] = status[o] /\ applied'[o] = applied[o]
         /\ choices'[o] = choices[o] /\ decision'[o] = decision[o]
         /\ o \in requested' <=> o \in requested
         /\ o \in awaiting' <=> o \in awaiting

\* No place is taken and the row keeps, at most, the one it has.
SamePlace(p) ==
    /\ count' = count
    /\ \A c \in Paths : p \in Placed(c)' => p \in Placed(c)

RowAgrees(p) == OnChoices(p) /\ Published(p) /\ Settled(p)

\* Placed changes for no other row.
LEMMA OthersPlaced ==
    ASSUME NEW p \in Profiles, RowOnly(p)
    PROVE  \A c \in Paths : Placed(c)' \ {p} = Placed(c) \ {p}
  BY DEF RowOnly, Placed

\* Where no place is taken the counters are still large enough.
LEMMA SamePlaces ==
    ASSUME PlacesAreCounted, TypeOK, NEW p \in Profiles, RowOnly(p), SamePlace(p)
    PROVE  PlacesAreCounted'
  <1> SUFFICES ASSUME NEW c \in Paths PROVE Cardinality(Placed(c)') <= count[c]
    BY DEF PlacesAreCounted, SamePlace
  <1>1. Placed(c)' \subseteq Placed(c)
    BY OthersPlaced DEF SamePlace
  <1>2. Cardinality(Placed(c)') <= Cardinality(Placed(c))
    BY <1>1, PlacedFinite, FS_Subset
  <1>3. Placed(c)' \in SUBSET Profiles
    BY DEF Placed
  <1>4. Cardinality(Placed(c)') \in Nat
    BY <1>3, PlacedFinite
  <1> QED BY <1>2, <1>4, PlacedFinite DEF PlacesAreCounted, TypeOK

\* One more profile on a path needs one place more.
LEMMA OnePlaceMore ==
    ASSUME PlacesAreCounted, TypeOK, Counts(count'), NEW p \in Profiles, RowOnly(p),
           \A c \in Paths :
               \/ /\ count'[c] >= count[c]
                  /\ p \in Placed(c)' => p \in Placed(c)
               \/ count'[c] = count[c] + 1
               \/ count'[c] = count[c] - 1 /\ p \in Placed(c) /\ p \notin Placed(c)'
    PROVE  PlacesAreCounted'
  <1> SUFFICES ASSUME NEW c \in Paths PROVE Cardinality(Placed(c)') <= count'[c]
    BY DEF PlacesAreCounted
  <1> DEFINE S == Placed(c)
             T == Placed(c)'
  <1>1. /\ T \ {p} = S \ {p}
        /\ IsFiniteSet(S) /\ IsFiniteSet(T)
        /\ Cardinality(S) \in Nat /\ Cardinality(T) \in Nat
        /\ Cardinality(S) <= count[c] /\ count[c] \in Nat /\ count'[c] \in Nat
    <2>1. T \in SUBSET Profiles
      BY DEF Placed
    <2> QED BY <2>1, OthersPlaced, PlacedFinite DEF PlacesAreCounted, TypeOK, Counts
  <1> HIDE DEF S, T
  <1>2. /\ Cardinality(S \ {p}) = IF p \in S THEN Cardinality(S) - 1 ELSE Cardinality(S)
        /\ Cardinality(T \ {p}) = IF p \in T THEN Cardinality(T) - 1 ELSE Cardinality(T)
    BY <1>1, FS_RemoveElement
  <1>3. \/ count'[c] >= count[c] /\ (p \in T => p \in S)
        \/ count'[c] = count[c] + 1
        \/ count'[c] = count[c] - 1 /\ p \in S /\ p \notin T
    BY DEF S, T
  <1>4. Cardinality(T) <= count'[c]
    BY <1>1, <1>2, <1>3
  <1> QED BY <1>4 DEF T

\* A change of one row that nobody holds disturbs no request.
LEMMA RowStepKeepsInv ==
    ASSUME Inv, NEW p \in Profiles, RowOnly(p), TypeOK', PlacesAreCounted', RowAgrees(p)'
    PROVE  Inv'
  <1>1. \A q \in Requests : p \notin Deciding(q)
    BY AdmissionConstants DEF Inv, DecidersHoldRow, RowOnly
  <1>2. \A q \in Requests : Deciding(q)' = Deciding(q)
    BY DEF RowOnly, Deciding
  <1>3. DecidersHoldRow'
    BY <1>1, <1>2 DEF Inv, DecidersHoldRow, RowOnly, CycleOpen, locks, Deciding
  <1>4. ASSUME NEW q \in Requests, req[q].at \in {"publish", "promote"}
        PROVE  req[q].who \in Profiles /\ choices'[req[q].who] = choices[req[q].who]
    BY <1>1, <1>4 DEF Inv, DecidersHoldRow, Deciding, RowOnly
  <1>5. CascadeFollowsChoices'
    BY <1>4 DEF Inv, CascadeFollowsChoices, CascadeOf, RowOnly
  <1>6. ASSUME NEW o \in Profiles PROVE OnChoices(o)' /\ Published(o)' /\ Settled(o)'
    BY DEF Inv, RowsAgree, RowAgrees, OnChoices, Published, Settled, CycleOpen, RowOnly
  <1> QED BY <1>3, <1>5, <1>6 DEF Inv, RowsAgree

-----------------------------------------------------------------------------
(* The actions of one step *)

\* What is kept when only the status of a row changes, or its change of major ends.
LEMMA StatusMoves ==
    ASSUME Inv, NEW p \in Profiles, NEW new \in Statuses \ {"admitted", "waitlisted"},
           profileLock[p] = Nobody,
           Move(p, new),
           UNCHANGED <<applied, choices, decision, count, locks, req>>,
           requested' \ {p} = requested \ {p}, awaiting' \ {p} = awaiting \ {p},
           requested' \subseteq FirstTerm, awaiting' \subseteq FirstTerm,
           new \in Occupying => p \notin requested' \cup awaiting',
           status[p] \in InPlay \/ (new \notin InPlay /\ requested' \subseteq requested)
    PROVE  Inv'
  <1>1. /\ status' \in [Profiles -> Statuses] /\ status'[p] = new
        /\ \A o \in Profiles \ {p} : status'[o] = status[o]
    BY DEF Move, Inv, TypeOK
  <1>2. TypeOK'
    BY <1>1 DEF Inv, TypeOK, locks
  <1>3. RowOnly(p)
    BY <1>1 DEF RowOnly
  <1>4. SamePlace(p)
    BY <1>1 DEF SamePlace, Placed
  <1>5. RowAgrees(p)'
    BY <1>1 DEF Inv, RowsAgree, RowAgrees, OnChoices, Published, Settled, CycleOpen
  <1> QED BY <1>2, <1>3, <1>4, <1>5, SamePlaces, RowStepKeepsInv DEF Inv

\* Accept, Enroll, Reject and GiveUpSeat are such moves.
LEMMA PlainMoves ==
    ASSUME Inv, NEW p \in Profiles, Accept(p) \/ Enroll(p) \/ Reject(p) \/ GiveUpSeat(p)
    PROVE  Inv'
  <1> USE DEF Finds, major, Statuses, Occupying, InPlay
  <1>1. CASE Accept(p)
    <2>1. ~CycleOpen(p)
      BY <1>1 DEF Accept, Inv, RowsAgree, Settled
    <2> QED BY <1>1, <2>1, StatusMoves DEF Accept, Inv, TypeOK, CycleOpen
  <1>2. CASE Enroll(p)
    BY <1>2, StatusMoves DEF Enroll, Inv, TypeOK, CycleOpen
  <1>3. CASE Reject(p)
    BY <1>3, StatusMoves DEF Reject, Inv, TypeOK
  <1>4. CASE GiveUpSeat(p)
    BY <1>4, StatusMoves DEF GiveUpSeat, Inv, TypeOK
  <1> QED BY <1>1, <1>2, <1>3, <1>4

\* What opening or clearing a change of major does to the row.
LEMMA OpenOrClears ==
    ASSUME TypeOK, NEW p \in Profiles, NEW allow \in BOOLEAN, OpenOrClear(p, allow)
    PROVE  /\ requested' \ {p} = requested \ {p} /\ requested' \subseteq FirstTerm
           /\ status[p] \in {"submitted", "resubmitted"} \/ requested' \subseteq requested
  BY DEF OpenOrClear, MayOpen, TypeOK

\* So are Withdraw, RequestRevision and Rollback, which also touch the change of major.
LEMMA MajorMoves ==
    ASSUME Inv, NEW p \in Profiles,
           \/ \E to \in {"withdrawn", "draft"} : Withdraw(p, to)
           \/ \E allow \in BOOLEAN : RequestRevision(p, allow) \/ Rollback(p, allow)
    PROVE  Inv'
  <1> USE DEF Finds, Statuses, Occupying, InPlay
  <1>1. ASSUME NEW to \in {"withdrawn", "draft"}, Withdraw(p, to) PROVE Inv'
    BY <1>1, StatusMoves DEF Withdraw, Inv, TypeOK
  <1>2. ASSUME NEW allow \in BOOLEAN, RequestRevision(p, allow) PROVE Inv'
    <2>1. /\ requested' \ {p} = requested \ {p} /\ requested' \subseteq FirstTerm
      BY <1>2, OpenOrClears DEF RequestRevision, Inv
    <2> QED BY <1>2, <2>1, StatusMoves DEF RequestRevision, Inv, TypeOK
  <1>3. ASSUME NEW allow \in BOOLEAN, Rollback(p, allow) PROVE Inv'
    <2>1. /\ requested' \ {p} = requested \ {p} /\ requested' \subseteq FirstTerm
          /\ status[p] \in {"submitted", "resubmitted"} \/ requested' \subseteq requested
      BY <1>3, OpenOrClears DEF Rollback, Inv
    <2> QED BY <1>3, <2>1, StatusMoves DEF Rollback, Inv, TypeOK
  <1> QED BY <1>1, <1>2, <1>3

\* The accountant ends the wait for a repriced fee.
LEMMA ConfirmStep ==
    ASSUME Inv, NEW p \in Profiles, ConfirmMajorChange(p) PROVE Inv'
  <1> USE DEF ConfirmMajorChange
  <1>1. TypeOK'
    BY DEF Inv, TypeOK, locks
  <1>2. RowOnly(p) /\ SamePlace(p)
    BY DEF RowOnly, SamePlace, Placed
  <1>3. RowAgrees(p)'
    BY DEF Inv, RowsAgree, RowAgrees, OnChoices, Published, Settled, CycleOpen
  <1> QED BY <1>1, <1>2, <1>3, SamePlaces, RowStepKeepsInv DEF Inv

\* The place of a row whose change of major ends moves with it.
LEMMA ChangePathCounts ==
    ASSUME Inv, NEW p \in Profiles, p \in requested, ChangePath(p), UNCHANGED choices
    PROVE  /\ applied' \in [Profiles -> Paths]
           /\ \A o \in Profiles \ {p} : applied'[o] = applied[o]
           /\ requested' = requested \ {p}
           /\ awaiting' \subseteq FirstTerm /\ awaiting' \ {p} = awaiting \ {p}
           /\ Counts(count')
           /\ \A c \in Paths :
                 \/ /\ count'[c] >= count[c]
                    /\ p \in Placed(c)' => p \in Placed(c)
                 \/ count'[c] = count[c] + 1
                 \/ count'[c] = count[c] - 1 /\ p \in Placed(c) /\ p \notin Placed(c)'
  <1>1. PICK new \in Resolved(p) :
          /\ applied' = [applied EXCEPT ![p] = new]
          /\ TakePlace(Less(count, applied[p]), new)
          /\ requested' = requested \ {p}
          /\ awaiting' = IF InfoOf[new] = InfoOf[applied[p]] THEN awaiting ELSE awaiting \cup {p}
    BY DEF ChangePath
  <1>2. new \in Paths
    <2>1. choices[p] \in Seq(Options)
      BY DEF Inv, TypeOK
    <2>2. ToSet(choices[p]) \subseteq Options
      BY <2>1, ElementsAreOptions
    <2>3. \E c \in ToSet(choices[p]) : new = PathOf[c]
      BY <1>1 DEF Resolved
    <2> QED BY <2>2, <2>3, AdmissionConstants
  <1> DEFINE old == applied[p]
  <1>3. /\ applied' \in [Profiles -> Paths] /\ applied'[p] = new /\ old \in Paths
        /\ \A o \in Profiles \ {p} : applied'[o] = applied[o]
    BY <1>1, <1>2 DEF Inv, TypeOK
  <1>4. /\ p \in FirstTerm /\ awaiting' \subseteq FirstTerm /\ awaiting' \ {p} = awaiting \ {p}
    BY <1>1 DEF Inv, TypeOK
  <1>5. Counts(count) /\ \A c \in Paths : count[c] \in Nat
    BY DEF Counts, Inv, TypeOK
  <1>6. p \in Placed(old) /\ count[old] > 0
    <2>1. p \in Placed(old)
      BY DEF Placed
    <2>2. Cardinality(Placed(old)) # 0
      BY <1>3, <2>1, PlacedFinite, FS_EmptySet
    <2>3. Cardinality(Placed(old)) \in Nat /\ Cardinality(Placed(old)) <= count[old]
      BY <1>3, PlacedFinite DEF Inv, PlacesAreCounted
    <2> QED BY <1>3, <1>5, <2>1, <2>2, <2>3
  <1>7. /\ Counts(Less(count, old))
        /\ Less(count, old)[old] = count[old] - 1
        /\ \A c \in Paths \ {old} : Less(count, old)[c] = count[c]
    BY <1>3, <1>5, <1>6, LessCounts
  <1>8. /\ Counts(count')
        /\ count'[new] = Less(count, old)[new] + 1
        /\ \A c \in Paths \ {new} : count'[c] = Less(count, old)[c]
    BY <1>1, <1>2, <1>7, TakeCounts
  <1>9. \A c \in Paths : (p \in Placed(c)' => c = new) /\ (p \in Placed(c) <=> c = old)
    BY <1>3, <1>6 DEF Placed
  <1> HIDE DEF old
  <1>10. ASSUME NEW c \in Paths
         PROVE  \/ /\ count'[c] >= count[c]
                   /\ p \in Placed(c)' => p \in Placed(c)
                \/ count'[c] = count[c] + 1
                \/ count'[c] = count[c] - 1 /\ p \in Placed(c) /\ p \notin Placed(c)'
    <2>0. count[c] \in Nat
      BY <1>5
    <2>1. CASE c = old /\ c = new
      <3>1. count'[c] = count[c] - 1 + 1
        BY <2>1, <1>7, <1>8
      <3>2. count'[c] >= count[c]
        BY <2>0, <3>1
      <3>3. p \in Placed(c)
        BY <2>1, <1>6
      <3> QED BY <3>2, <3>3
    <2>2. CASE c = old /\ c # new
      BY <2>0, <2>2, <1>7, <1>8, <1>9
    <2>3. CASE c # old /\ c = new
      BY <2>0, <2>3, <1>7, <1>8, <1>9
    <2>4. CASE c # old /\ c # new
      BY <2>0, <2>4, <1>7, <1>8, <1>9
    <2> QED BY <2>1, <2>2, <2>3, <2>4
  <1> QED BY <1>1, <1>3, <1>4, <1>8, <1>10

\* A submission takes its place, with or without a change of path.
LEMMA SubmitStep ==
    ASSUME Inv, NEW p \in Profiles, Submit(p) \/ Resubmit(p) PROVE Inv'
  <1> USE DEF Finds
  <1>1. /\ profileLock[p] = Nobody
        /\ UNCHANGED <<choices, decision, locks, req>>
        /\ \E s \in {"submitted", "resubmitted"} : status' = [status EXCEPT ![p] = s]
    BY DEF Submit, Resubmit, Move
  <1>2. /\ status' \in [Profiles -> Statuses] /\ status'[p] \in {"submitted", "resubmitted"}
        /\ \A o \in Profiles \ {p} : status'[o] = status[o]
    BY <1>1 DEF Inv, TypeOK, Statuses
  <1>3. /\ applied' \in [Profiles -> Paths]
        /\ \A o \in Profiles \ {p} : applied'[o] = applied[o]
        /\ requested' \subseteq FirstTerm /\ requested' \ {p} = requested \ {p}
        /\ awaiting' \subseteq FirstTerm /\ awaiting' \ {p} = awaiting \ {p}
        /\ Counts(count')
        /\ \A c \in Paths :
              \/ /\ count'[c] >= count[c]
                 /\ p \in Placed(c)' => p \in Placed(c)
              \/ count'[c] = count[c] + 1
              \/ count'[c] = count[c] - 1 /\ p \in Placed(c) /\ p \notin Placed(c)'
    <2>1. CASE p \in requested
      <3>1. ChangePath(p)
        BY <2>1 DEF Submit, Resubmit
      <3> QED BY <1>1, <2>1, <3>1, ChangePathCounts DEF Inv, TypeOK
    <2>2. CASE p \notin requested
      <3>0. Counts(count) /\ \A c \in Paths : count[c] \in Nat
        BY DEF Counts, Inv, TypeOK
      <3>1. UNCHANGED <<applied, requested, awaiting>>
        BY <2>2 DEF Submit, Resubmit, major
      <3>2. CASE Submit(p)
        <4>1. TakePlace(count, applied[p]) /\ applied[p] \in Paths
          BY <2>2, <3>2 DEF Submit, Inv, TypeOK
        <4>2. /\ Counts(count') /\ count'[applied[p]] = count[applied[p]] + 1
              /\ \A c \in Paths \ {applied[p]} : count'[c] = count[c]
          BY <3>0, <4>1, TakeCounts
        <4>3. \A c \in Paths : p \in Placed(c)' => c = applied[p]
          BY <3>1 DEF Placed
        <4> QED BY <3>0, <3>1, <4>2, <4>3 DEF Inv, TypeOK
      <3>3. CASE Resubmit(p)
        <4>1. count' = count /\ status[p] \in InPlay
          BY <2>2, <3>3 DEF Resubmit, InPlay, Statuses
        <4>2. \A c \in Paths : p \in Placed(c)' => p \in Placed(c)
          BY <3>1, <4>1 DEF Placed
        <4> QED BY <3>0, <3>1, <4>1, <4>2 DEF Inv, TypeOK
      <3> QED BY <3>2, <3>3
    <2> QED BY <2>1, <2>2
  <1>4. TypeOK'
    BY <1>1, <1>2, <1>3 DEF Inv, TypeOK, Counts, locks
  <1>5. RowOnly(p)
    BY <1>1, <1>2, <1>3 DEF RowOnly
  <1>6. PlacesAreCounted'
    BY <1>3, <1>5, OnePlaceMore DEF Inv
  <1>7. RowAgrees(p)'
    BY <1>1, <1>2 DEF Inv, RowsAgree, RowAgrees, OnChoices, Published, Settled, Occupying
  <1> QED BY <1>4, <1>5, <1>6, <1>7, RowStepKeepsInv

\* Edits of the choices: the decisions stay decisions on choices of the row, which is
\* neither published nor in anybody's cascade.
LEMMA ChoiceEdits ==
    ASSUME Inv, NEW p \in Profiles, NEW order \in Seq(Options),
           profileLock[p] = Nobody, status[p] \in {"draft", "revision_requested"},
           choices' = [choices EXCEPT ![p] = order],
           decision' \in [Profiles -> [Options -> Decisions]],
           \A o \in Profiles \ {p} : decision'[o] = decision[o],
           OnChoices(p)',
           UNCHANGED <<status, applied, major, count, locks, req>>
    PROVE  Inv'
  <1> USE DEF major
  <1>1. TypeOK'
    BY DEF Inv, TypeOK, locks
  <1>2. RowOnly(p)
    BY DEF RowOnly, Inv, TypeOK
  <1>3. SamePlace(p)
    BY DEF SamePlace, Placed
  <1>4. RowAgrees(p)'
    BY DEF RowAgrees, Published, Settled, Occupying
  <1> QED BY <1>1, <1>2, <1>3, <1>4, SamePlaces, RowStepKeepsInv DEF Inv

\* AddChoice, DeleteChoice and Reorder are such edits.
LEMMA ChoiceSteps ==
    ASSUME Inv, NEW p \in Profiles,
           (\E c \in Options : AddChoice(p, c)) \/ DeleteChoice(p) \/ Reorder(p)
    PROVE  Inv'
  <1> USE DEF Editable, Finds
  <1>1. choices[p] \in Seq(Options) /\ choices \in [Profiles -> Seq(Options)]
    BY DEF Inv, TypeOK
  <1>2. /\ decision \in [Profiles -> [Options -> Decisions]]
        /\ \A c \in Options : decision[p][c] # "none" => c \in ToSet(choices[p])
    BY DEF Inv, TypeOK, RowsAgree, OnChoices
  <1>3. ASSUME NEW c \in Options, AddChoice(p, c) PROVE Inv'
    <2>1. /\ Append(choices[p], c) \in Seq(Options)
          /\ ToSet(choices[p]) \subseteq ToSet(Append(choices[p], c))
      BY <1>1, AppendKeeps
    <2>2. choices' = [choices EXCEPT ![p] = Append(choices[p], c)] /\ decision' = decision
      BY <1>3 DEF AddChoice
    <2>3. OnChoices(p)'
      BY <1>1, <1>2, <2>1, <2>2 DEF OnChoices
    <2> QED BY <1>2, <1>3, <2>1, <2>2, <2>3, ChoiceEdits DEF AddChoice
  <1>4. CASE DeleteChoice(p)
    <2>1. PICK i \in DOMAIN choices[p] :
            /\ choices' = [choices EXCEPT ![p] = RemoveAt(choices[p], i)]
            /\ decision' = [decision EXCEPT ![p][choices[p][i]] = "none"]
      BY <1>4 DEF DeleteChoice
    <2>2. /\ RemoveAt(choices[p], i) \in Seq(Options)
          /\ \A c \in ToSet(choices[p]) :
               c # choices[p][i] => c \in ToSet(RemoveAt(choices[p], i))
      BY <1>1, RemoveKeeps
    <2>3. choices[p][i] \in Options
      BY <1>1
    <2>4. /\ decision' \in [Profiles -> [Options -> Decisions]]
          /\ \A o \in Profiles \ {p} : decision'[o] = decision[o]
          /\ \A c \in Options : decision'[p][c] # "none" =>
                c # choices[p][i] /\ decision[p][c] # "none"
      BY <1>2, <2>1, <2>3 DEF Decisions
    <2>5. OnChoices(p)'
      BY <1>1, <1>2, <2>1, <2>2, <2>4 DEF OnChoices
    <2> QED BY <1>4, <2>1, <2>2, <2>4, <2>5, ChoiceEdits DEF DeleteChoice
  <1>5. CASE Reorder(p)
    <2>1. PICK order \in SetToSeqs(ToSet(choices[p])) :
            choices' = [choices EXCEPT ![p] = order]
      BY <1>5 DEF Reorder
    <2>2. order \in Seq(Options) /\ ToSet(order) = ToSet(choices[p])
      BY <1>1, ReorderKeeps
    <2>3. decision' = decision
      BY <1>5 DEF Reorder
    <2>4. OnChoices(p)'
      BY <1>1, <1>2, <2>1, <2>2, <2>3 DEF OnChoices
    <2> QED BY <1>2, <1>5, <2>1, <2>2, <2>3, <2>4, ChoiceEdits DEF Reorder
  <1> QED BY <1>3, <1>4, <1>5

\* The end of the waiting list for a profile.
LEMMA RejectWaitlistedStep ==
    ASSUME Inv, NEW p \in Profiles, NEW c \in Options, RejectWaitlisted(p, c) PROVE Inv'
  <1> USE DEF RejectWaitlisted, Finds, Move, major
  <1>1. /\ status' \in [Profiles -> Statuses] /\ status'[p] = "rejected"
        /\ \A o \in Profiles \ {p} : status'[o] = status[o]
    BY DEF Inv, TypeOK, Statuses
  <1>2. /\ decision' \in [Profiles -> [Options -> Decisions]]
        /\ \A o \in Profiles \ {p} : decision'[o] = decision[o]
        /\ \A d \in Options : decision'[p][d] # "none" => decision[p][d] # "none"
    BY DEF Inv, TypeOK, Decisions
  <1>3. TypeOK'
    BY <1>1, <1>2 DEF Inv, TypeOK, locks
  <1>4. RowOnly(p)
    BY <1>1, <1>2 DEF RowOnly
  <1>5. SamePlace(p)
    BY <1>1 DEF SamePlace, Placed, InPlay, Statuses
  <1>6. RowAgrees(p)'
    BY <1>1, <1>2 DEF Inv, RowsAgree, RowAgrees, OnChoices, Published, Settled, Occupying
  <1> QED BY <1>3, <1>4, <1>5, <1>6, SamePlaces, RowStepKeepsInv DEF Inv

-----------------------------------------------------------------------------
(* Requests that work lock by lock *)

rows == <<status, applied, choices, decision, major, count>>

\* A request that takes a lock or decides in memory disturbs no other one.
LEMMA MemoryStep ==
    ASSUME Inv, NEW q \in Requests, NEW new \in Request,
           UNCHANGED rows,
           req' = [req EXCEPT ![q] = new],
           profileLock' \in [Profiles -> Requests \cup {Nobody}],
           pathLock' \in [Paths -> Requests \cup {Nobody}],
           infoLock' \in [Infos -> Requests \cup {Nobody}],
           \A p \in Profiles : \A o \in Requests \ {q} : profileLock[p] = o => profileLock'[p] = o,
           new.at \in {"publish", "promote"} => new.who \in Profiles /\ CascadeOf(q)',
           new.at = "idle" => new.approved = {},
           new.at = "approve" /\ new.tier = 2 => new.who \in Profiles,
           \A p \in Deciding(q)' :
               /\ profileLock'[p] = q
               /\ status[p] \in {"submitted", "resubmitted", "waitlisted"}
               /\ ~CycleOpen(p)
    PROVE  Inv'
  <1>1. /\ req' \in [Requests -> Request] /\ req'[q] = new
        /\ \A o \in Requests \ {q} : req'[o] = req[o]
    BY DEF Inv, TypeOK
  <1>2. TypeOK'
    BY <1>1 DEF Inv, TypeOK, rows, major
  <1>3. PlacesAreCounted'
    BY DEF Inv, PlacesAreCounted, Placed, rows, major
  <1>4. RowsAgree'
    BY DEF Inv, RowsAgree, OnChoices, Published, Settled, CycleOpen, rows, major
  <1>5. \A o \in Requests \ {q} : Deciding(o)' = Deciding(o)
    BY <1>1 DEF Deciding
  <1>6. \A p : CycleOpen(p)' <=> CycleOpen(p)
    BY DEF CycleOpen, rows, major
  <1>7. ASSUME NEW o \in Requests
        PROVE  /\ req'[o].at = "idle" => req'[o].approved = {}
               /\ req'[o].at \in {"publish", "promote"} => req'[o].who \in Profiles
               /\ req'[o].at = "approve" /\ req'[o].tier = 2 => req'[o].who \in Profiles
               /\ \A p \in Deciding(o)' :
                    /\ profileLock'[p] = o
                    /\ status'[p] \in {"submitted", "resubmitted", "waitlisted"}
                    /\ ~CycleOpen(p)'
    <2>1. CASE o = q
      BY <1>1, <1>6, <2>1 DEF rows
    <2>2. CASE o # q
      <3>1. \A p \in Deciding(o) : p \in Profiles
        BY DEF Deciding
      <3> QED BY <1>1, <1>5, <1>6, <2>2, <3>1 DEF Inv, DecidersHoldRow, rows
    <2> QED BY <2>1, <2>2
  <1>8. DecidersHoldRow'
    BY <1>7 DEF DecidersHoldRow
  <1>9. CascadeFollowsChoices'
    <2> SUFFICES ASSUME NEW o \in Requests, req'[o].at \in {"publish", "promote"}
                 PROVE  CascadeOf(o)'
      BY DEF CascadeFollowsChoices
    <2>1. CASE o = q
      BY <1>1, <2>1
    <2>2. CASE o # q
      BY <1>1, <2>2 DEF Inv, CascadeFollowsChoices, CascadeOf, rows
    <2> QED BY <2>1, <2>2
  <1> QED BY <1>2, <1>3, <1>4, <1>8, <1>9 DEF Inv

\* Idle is a request.
LEMMA IdleTyped == Idle \in Request /\ Idle.at = "idle" /\ Idle.approved = {}
  BY DEF Idle, Request, Undecided, Decisions

\* The locks of the others outlive the end of a request.
LEMMA Returned ==
    ASSUME TypeOK, NEW q \in Requests, Return(q)
    PROVE  /\ profileLock' \in [Profiles -> Requests \cup {Nobody}]
           /\ pathLock' \in [Paths -> Requests \cup {Nobody}]
           /\ infoLock' \in [Infos -> Requests \cup {Nobody}]
           /\ \A p \in Profiles : \A o \in Requests \ {q} :
                 profileLock[p] = o => profileLock'[p] = o
           /\ req' = [req EXCEPT ![q] = Idle]
  BY DEF TypeOK, Return, Held

\* A request that fails leaves nothing behind.
LEMMA FailStep == ASSUME Inv, NEW q \in Requests, Fail(q) PROVE Inv'
  <1>1. Return(q) /\ UNCHANGED rows
    BY DEF Fail, rows
  <1>2. req'[q] = Idle
    BY <1>1 DEF Return, Inv, TypeOK
  <1>3. Deciding(q)' = {}
    BY <1>2, IdleTyped DEF Deciding
  <1> QED BY <1>1, <1>3, IdleTyped, Returned, MemoryStep DEF Inv

\* What a request has in memory once a choice is judged d (Judged) ...
LEMMA JudgedYields ==
    ASSUME TypeOK, NEW q \in Requests, req[q].todo # <<>>, NEW d \in Decisions, Judged(q, d)
    PROVE  /\ req'[q] \in Request /\ req' = [req EXCEPT ![q] = req'[q]]
           /\ req'[q].at = req[q].at /\ req'[q].who = req[q].who
           /\ req'[q].tier = 1
           /\ req'[q].todo = Tail(req[q].todo)
           /\ req'[q].judged = [req[q].judged EXCEPT ![Head1(q)] = d]
  <1>1. req[q] \in Request /\ req \in [Requests -> Request]
    BY DEF TypeOK
  <1>2. Head1(q) \in Options /\ Tail(req[q].todo) \in Seq(Options)
    BY <1>1, HeadAndTail DEF Head1, Request
  <1> DEFINE judged == [req[q].judged EXCEPT ![Head1(q)] = d]
             new == [[[req[q] EXCEPT !.judged = judged] EXCEPT !.todo = Tail(req[q].todo)] EXCEPT !.tier = 1]
  <1>3. judged \in [Options -> Decisions]
    BY <1>1, <1>2 DEF Request
  <1>4. req' = [req EXCEPT ![q] = new]
    BY <1>1 DEF Judged, Request
  <1>5. /\ new \in Request
        /\ new.at = req[q].at /\ new.who = req[q].who /\ new.tier = 1
        /\ new.todo = Tail(req[q].todo) /\ new.judged = judged
    BY <1>1, <1>2, <1>3 DEF Request
  <1> HIDE DEF new, judged
  <1>6. req'[q] = new
    BY <1>1, <1>4
  <1> QED BY <1>4, <1>5, <1>6 DEF judged

\* ... and once it is admitted (Admitted), which ends the cascade.
LEMMA AdmittedYields ==
    ASSUME TypeOK, NEW q \in Requests, req[q].todo # <<>>, Admitted(q)
    PROVE  /\ req'[q] \in Request /\ req' = [req EXCEPT ![q] = req'[q]]
           /\ req'[q].at = req[q].at /\ req'[q].who = req[q].who
           /\ req'[q].todo = <<>>
           /\ \A d \in Options : req'[q].judged[d] =
                 IF d = Head1(q) THEN "admitted"
                 ELSE IF d \in ToSet(Tail(req[q].todo)) THEN "skip" ELSE req[q].judged[d]
  <1>1. req[q] \in Request /\ req \in [Requests -> Request]
    BY DEF TypeOK
  <1> DEFINE judged == [d \in Options |-> IF d = Head1(q) THEN "admitted"
                          ELSE IF d \in ToSet(Tail(req[q].todo)) THEN "skip"
                          ELSE req[q].judged[d]]
             new == [[req[q] EXCEPT !.judged = judged] EXCEPT !.todo = <<>>]
  <1>2. judged \in [Options -> Decisions]
    BY <1>1 DEF Request, Decisions
  <1>3. req' = [req EXCEPT ![q] = new]
    BY <1>1 DEF Admitted, Request
  <1> HIDE DEF judged
  <1>4. /\ new \in Request
        /\ new.at = req[q].at /\ new.who = req[q].who
        /\ new.todo = <<>> /\ new.judged = judged
    <2>1. <<>> \in Seq(Options)
      OBVIOUS
    <2> QED BY <1>1, <1>2, <2>1 DEF Request
  <1> HIDE DEF new
  <1>5. req'[q] = new
    BY <1>1, <1>3
  <1> QED BY <1>3, <1>4, <1>5 DEF judged

\* What a cascade in progress knows of itself.
LEMMA InCascade ==
    ASSUME Inv, NEW q \in Requests, Judging(q)
    PROVE  /\ req[q] \in Request /\ req[q].at \in {"publish", "promote"}
           /\ req[q].todo # <<>> /\ req[q].todo \in Seq(Options)
           /\ req[q].who \in Profiles /\ CascadeOf(q)
           /\ Deciding(q) = {req[q].who}
           /\ profileLock[req[q].who] = q
           /\ status[req[q].who] \in {"submitted", "resubmitted", "waitlisted"}
           /\ ~CycleOpen(req[q].who)
  <1>1. req[q] \in Request /\ req[q].at \in {"publish", "promote"} /\ req[q].todo # <<>>
    BY DEF Judging, Inv, TypeOK
  <1>2. req[q].todo \in Seq(Options) /\ req[q].who \in Profiles /\ CascadeOf(q)
    BY <1>1 DEF Request, Inv, DecidersHoldRow, CascadeFollowsChoices
  <1>3. Deciding(q) = {req[q].who}
    BY <1>1, <1>2 DEF Deciding
  <1> QED BY <1>1, <1>2, <1>3 DEF Inv, DecidersHoldRow

\* A step of a cascade that takes locks of the configuration and keeps its facts.
LEMMA CascadeStep ==
    ASSUME Inv, NEW q \in Requests, Judging(q), UNCHANGED <<rows, profileLock>>,
           pathLock' \in [Paths -> Requests \cup {Nobody}],
           infoLock' \in [Infos -> Requests \cup {Nobody}],
           req'[q] \in Request, req' = [req EXCEPT ![q] = req'[q]],
           req'[q].at = req[q].at, req'[q].who = req[q].who, CascadeOf(q)'
    PROVE  Inv'
  <1>1. Deciding(q)' = {req[q].who}
    BY InCascade DEF Deciding
  <1>2. profileLock' \in [Profiles -> Requests \cup {Nobody}]
    BY DEF Inv, TypeOK
  <1> QED BY <1>1, <1>2, InCascade, MemoryStep

\* A decision short of admission leaves the cascade without one.
LEMMA JudgedKeeps ==
    ASSUME Inv, NEW q \in Requests, Judging(q), UNCHANGED choices,
           NEW d \in {"waitlisted", "rejected"}, Judged(q, d)
    PROVE  CascadeOf(q)'
  <1> DEFINE chosen == ToSet(choices[req[q].who])
             h == Head1(q)
  <1>1. h \in Options /\ h \in ToSet(req[q].todo) /\ ToSet(Tail(req[q].todo)) \subseteq ToSet(req[q].todo)
    BY InCascade, HeadAndTail DEF Head1
  <1>2. /\ req'[q].who = req[q].who /\ req'[q].todo = Tail(req[q].todo)
        /\ req'[q].judged = [req[q].judged EXCEPT ![h] = d]
    <2>1. TypeOK /\ req[q].todo # <<>> /\ d \in Decisions
      BY InCascade DEF Inv, Decisions
    <2> QED BY <2>1, JudgedYields
  <1>3. req[q].judged \in [Options -> Decisions]
    BY InCascade DEF Request
  <1>4. \A c \in Options : req'[q].judged[c] = IF c = h THEN d ELSE req[q].judged[c]
    BY <1>2, <1>3
  <1> HIDE DEF h
  <1>5. /\ \A c \in Options : req[q].judged[c] # "admitted"
        /\ \A c \in Options : req[q].judged[c] # "none" => c \in chosen
        /\ ToSet(req[q].todo) \subseteq chosen
    BY InCascade DEF CascadeOf
  <1>6. \A c \in Options : req'[q].judged[c] # "admitted"
    BY <1>4, <1>5
  <1>7. \A c \in Options : req'[q].judged[c] # "none" => c \in chosen
    BY <1>1, <1>4, <1>5
  <1>8. ToSet(req'[q].todo) \subseteq chosen
    BY <1>1, <1>2, <1>5
  <1>9. ToSet(choices'[req'[q].who]) = chosen
    BY <1>2
  <1> QED BY <1>6, <1>7, <1>8, <1>9 DEF CascadeOf

\* An admission ends the cascade as its only one.
LEMMA AdmittedKeeps ==
    ASSUME Inv, NEW q \in Requests, Judging(q), UNCHANGED choices, Admitted(q)
    PROVE  CascadeOf(q)'
  <1> DEFINE chosen == ToSet(choices[req[q].who])
             h == Head1(q)
             rest == ToSet(Tail(req[q].todo))
  <1>1. h \in Options /\ h \in ToSet(req[q].todo) /\ rest \subseteq ToSet(req[q].todo)
    BY InCascade, HeadAndTail DEF Head1
  <1>2. /\ req'[q].who = req[q].who /\ req'[q].todo = <<>>
        /\ \A c \in Options : req'[q].judged[c] =
              IF c = h THEN "admitted" ELSE IF c \in rest THEN "skip" ELSE req[q].judged[c]
    BY InCascade, AdmittedYields DEF Inv
  <1> HIDE DEF h, rest
  <1>3. /\ \A c \in Options : req[q].judged[c] # "admitted"
        /\ \A c \in Options : req[q].judged[c] # "none" => c \in chosen
        /\ ToSet(req[q].todo) \subseteq chosen
    BY InCascade DEF CascadeOf
  <1>4. \A c, d \in Options : req'[q].judged[c] = "admitted" /\ req'[q].judged[d] = "admitted" => c = d
    BY <1>2, <1>3
  <1>5. \A c \in Options : req'[q].judged[c] # "none" => c \in chosen
    BY <1>1, <1>2, <1>3
  <1>6. ToSet(req'[q].todo) = {}
    BY <1>2 DEF ToSet
  <1>7. ToSet(choices'[req'[q].who]) = chosen
    BY <1>2
  <1> QED BY <1>2, <1>4, <1>5, <1>6, <1>7 DEF CascadeOf

\* The steps of a cascade: a choice that fails, the yearly tier, the tier of the path.
LEMMA CascadeSteps ==
    ASSUME Inv, NEW q \in Requests, FailsScore(q) \/ CheckAnnual(q) \/ CheckPath(q)
    PROVE  Inv'
  <1> USE DEF locks, rows, major
  <1>t. TypeOK /\ {"waitlisted", "rejected"} \subseteq Decisions
    BY DEF Inv, Decisions
  <1>1. Judging(q) /\ UNCHANGED <<rows, profileLock>>
    BY DEF FailsScore, CheckAnnual, CheckPath
  <1>2. ASSUME NEW d \in {"waitlisted", "rejected"}, Judged(q, d),
               pathLock' \in [Paths -> Requests \cup {Nobody}],
               infoLock' \in [Infos -> Requests \cup {Nobody}]
        PROVE  Inv'
    BY <1>t, <1>1, <1>2, InCascade, JudgedKeeps, JudgedYields, CascadeStep
  <1>3. CASE FailsScore(q)
    BY <1>2, <1>3, <1>t DEF FailsScore, TypeOK
  <1>4. ASSUME CheckAnnual(q) PROVE Inv'
    <2> DEFINE i == InfoOf[Head1(q)]
    <2>1. pathLock' \in [Paths -> Requests \cup {Nobody}]
      BY <1>4, <1>t DEF CheckAnnual, TypeOK
    <2>2. infoLock' \in [Infos -> Requests \cup {Nobody}]
      BY <1>4, <1>t DEF CheckAnnual, TypeOK
    <2>3. Refused(q) \/ req' = [req EXCEPT ![q].tier = 2]
      BY <1>4 DEF CheckAnnual
    <2>4. CASE Refused(q)
      BY <1>2, <2>1, <2>2, <2>4 DEF Refused
    <2>5. CASE req' = [req EXCEPT ![q].tier = 2]
      <3>1. /\ req'[q] \in Request /\ req' = [req EXCEPT ![q] = req'[q]]
            /\ req'[q].at = req[q].at /\ req'[q].who = req[q].who
            /\ req'[q].todo = req[q].todo /\ req'[q].judged = req[q].judged
        BY <1>t, <2>5 DEF TypeOK, Request
      <3>2. CascadeOf(q)'
        BY <1>1, <3>1, InCascade DEF CascadeOf
      <3> QED BY <1>1, <2>1, <2>2, <3>1, <3>2, CascadeStep
    <2> QED BY <2>3, <2>4, <2>5
  <1>5. ASSUME CheckPath(q) PROVE Inv'
    <2>1. pathLock' \in [Paths -> Requests \cup {Nobody}]
      BY <1>5, <1>t DEF CheckPath, TypeOK
    <2>2. infoLock' \in [Infos -> Requests \cup {Nobody}]
      BY <1>5, <1>t DEF CheckPath, TypeOK
    <2>3. Refused(q) \/ Admitted(q)
      BY <1>5 DEF CheckPath
    <2>4. CASE Refused(q)
      BY <1>2, <2>1, <2>2, <2>4 DEF Refused
    <2>5. CASE Admitted(q)
      BY <1>t, <1>1, <2>1, <2>2, <2>5, InCascade, AdmittedKeeps, AdmittedYields, CascadeStep
    <2> QED BY <2>3, <2>4, <2>5
  <1> QED BY <1>3, <1>4, <1>5

\* A profile that nobody holds is locked and its choices, or the one to be promoted,
\* are to be judged.
LEMMA BeginSteps ==
    ASSUME Inv, NEW q \in Requests, NEW p \in Profiles,
           PublishBegin(q, p) \/ \E c \in Options : PromoteBegin(q, p, c)
    PROVE  Inv'
  <1> USE DEF Finds, rows, major
  <1>t. TypeOK
    BY DEF Inv
  <1>1. /\ profileLock[p] = Nobody /\ profileLock' = [profileLock EXCEPT ![p] = q]
        /\ UNCHANGED <<rows, pathLock, infoLock>>
        /\ status[p] \in {"submitted", "waitlisted"}
    BY DEF PublishBegin, PromoteBegin
  <1>2. ~CycleOpen(p)
    BY DEF PublishBegin, PromoteBegin, Inv, RowsAgree, Settled
  <1> DEFINE Opens(n) ==
          /\ req' = [req EXCEPT ![q] = n]
          /\ n.at \in {"publish", "promote"} /\ n.who = p
          /\ \A c \in Options : n.judged[c] # "admitted"
          /\ \A c \in Options : n.judged[c] # "none" => c \in ToSet(choices[p])
          /\ ToSet(n.todo) \subseteq ToSet(choices[p])
  <1>3. PICK new \in Request : Opens(new)
    <2>1. CASE PublishBegin(q, p)
      <3> DEFINE n == [Idle EXCEPT !.at = "publish", !.who = p, !.todo = choices[p]]
      <3>1. choices[p] \in Seq(Options)
        BY <1>t DEF TypeOK
      <3>2. /\ n \in Request
            /\ n.at = "publish" /\ n.who = p /\ n.todo = choices[p] /\ n.judged = Undecided
        BY <3>1, IdleTyped DEF Request, Idle
      <3>3. \A c \in Options : n.judged[c] = "none"
        BY <3>2 DEF Undecided
      <3>4. req' = [req EXCEPT ![q] = n]
        BY <2>1 DEF PublishBegin
      <3>5. Opens(n)
        BY <3>2, <3>3, <3>4
      <3> HIDE DEF n, Opens
      <3> QED BY <3>2, <3>5
    <2>2. ASSUME NEW c \in Options, PromoteBegin(q, p, c) PROVE \E n \in Request : Opens(n)
      <3> DEFINE n == [Idle EXCEPT !.at = "promote", !.who = p, !.todo = <<c>>,
                                   !.judged = decision[p]]
      <3>1. decision[p] \in [Options -> Decisions] /\ <<c>> \in Seq(Options)
        BY <1>t DEF TypeOK
      <3>2. /\ n \in Request
            /\ n.at = "promote" /\ n.who = p /\ n.todo = <<c>> /\ n.judged = decision[p]
        BY <3>1, IdleTyped DEF Request, Idle
      <3>3. OnChoices(p) /\ Published(p)
        BY DEF Inv, RowsAgree
      <3>4. status[p] = "waitlisted" /\ decision[p][c] = "waitlisted"
        BY <2>2 DEF PromoteBegin
      <3>5. ToSet(<<c>>) = {c}
        BY DEF ToSet
      <3>6. /\ \A d \in Options : decision[p][d] # "admitted"
            /\ \A d \in Options : decision[p][d] # "none" => d \in ToSet(choices[p])
            /\ c \in ToSet(choices[p])
        BY <3>3, <3>4 DEF OnChoices, Published
      <3>7. req' = [req EXCEPT ![q] = n]
        BY <2>2 DEF PromoteBegin
      <3>8. Opens(n)
        <4> HIDE DEF n
        <4> QED BY <3>2, <3>5, <3>6, <3>7
      <3> HIDE DEF n, Opens
      <3> QED BY <3>2, <3>8
    <2> HIDE DEF Opens
    <2> QED BY <2>1, <2>2
  <1>4. req'[q] = new
    BY <1>3, <1>t DEF TypeOK
  <1>5. CascadeOf(q)'
    BY <1>1, <1>3, <1>4 DEF CascadeOf
  <1>6. Deciding(q)' = {p}
    BY <1>3, <1>4 DEF Deciding
  <1>7. /\ profileLock' \in [Profiles -> Requests \cup {Nobody}] /\ profileLock'[p] = q
        /\ \A r \in Profiles \ {p} : profileLock'[r] = profileLock[r]
    BY <1>1, <1>t DEF TypeOK
  <1>8. \A r \in Profiles : \A o \in Requests \ {q} : profileLock[r] = o => profileLock'[r] = o
    BY <1>1, <1>7, AdmissionConstants
  <1>9. pathLock' \in [Paths -> Requests \cup {Nobody}] /\ infoLock' \in [Infos -> Requests \cup {Nobody}]
    BY <1>1, <1>t DEF TypeOK
  <1>10. \A r \in Deciding(q)' :
             /\ profileLock'[r] = q
             /\ status[r] \in {"submitted", "resubmitted", "waitlisted"}
             /\ ~CycleOpen(r)
    BY <1>1, <1>2, <1>6, <1>7
  <1>11. req' = [req EXCEPT ![q] = new] /\ new.at \notin {"idle", "approve"} /\ new.who \in Profiles
    BY <1>3
  <1> HIDE DEF Opens
  <1> QED BY <1>1, <1>5, <1>7, <1>8, <1>9, <1>10, <1>11, MemoryStep

\* A manager's approval locks the next profile, decidable or not.
LEMMA ApproveLockStep ==
    ASSUME Inv, NEW q \in Requests, NEW p \in Profiles, ApproveLock(q, p) PROVE Inv'
  <1> USE DEF rows, major
  <1>t. TypeOK /\ req[q] \in Request /\ req \in [Requests -> Request]
    BY DEF Inv, TypeOK
  <1> DEFINE decidable == status[p] \in {"submitted", "resubmitted"} /\ ~CycleOpen(p)
             tier == IF decidable THEN 2 ELSE 1
             who == IF decidable THEN p ELSE Nobody
             new == [[[req[q] EXCEPT !.at = "approve"] EXCEPT !.tier = tier] EXCEPT !.who = who]
  <1>1. /\ req[q].at = "idle" \/ (req[q].at = "approve" /\ req[q].tier = 1)
        /\ profileLock[p] = Nobody /\ profileLock' = [profileLock EXCEPT ![p] = q]
        /\ UNCHANGED <<rows, pathLock, infoLock>>
    BY DEF ApproveLock
  <1>2. req' = [req EXCEPT ![q] = new]
    BY <1>t DEF ApproveLock, Request
  <1>3. tier \in {1, 2} /\ who \in Profiles \cup {Nobody} /\ (tier = 2 <=> decidable)
    OBVIOUS
  <1>d. decidable => who = p
    OBVIOUS
  <1> HIDE DEF tier, who
  <1>4. /\ new \in Request
        /\ new.at = "approve" /\ new.tier = tier /\ new.who = who /\ new.approved = req[q].approved
    BY <1>t, <1>3 DEF Request
  <1> HIDE DEF new
  <1>5. req'[q] = new
    BY <1>t, <1>2
  <1>6. /\ profileLock' \in [Profiles -> Requests \cup {Nobody}] /\ profileLock'[p] = q
        /\ \A r \in Profiles \ {p} : profileLock'[r] = profileLock[r]
    BY <1>1, <1>t DEF TypeOK
  <1>7. \A r \in Profiles : \A o \in Requests \ {q} : profileLock[r] = o => profileLock'[r] = o
    BY <1>1, <1>6, AdmissionConstants
  <1>8. pathLock' \in [Paths -> Requests \cup {Nobody}] /\ infoLock' \in [Infos -> Requests \cup {Nobody}]
    BY <1>1, <1>t DEF TypeOK
  <1>9. \A r \in Profiles : r \in req[q].approved => r \in Deciding(q)
    BY <1>1 DEF Deciding, Inv, DecidersHoldRow
  <1>10. \A r \in Deciding(q)' : r \in Deciding(q) \/ (r = p /\ decidable)
    BY <1>3, <1>d, <1>4, <1>5, <1>9 DEF Deciding
  <1>11. \A r \in Deciding(q)' :
             /\ profileLock'[r] = q
             /\ status[r] \in {"submitted", "resubmitted", "waitlisted"}
             /\ ~CycleOpen(r)
    <2> TAKE r \in Deciding(q)'
    <2>1. CASE r \in Deciding(q)
      <3>1. /\ profileLock[r] = q /\ r \in Profiles
            /\ status[r] \in {"submitted", "resubmitted", "waitlisted"} /\ ~CycleOpen(r)
        BY <2>1 DEF Inv, DecidersHoldRow, Deciding
      <3> QED BY <3>1, <1>6
    <2>2. CASE r = p /\ decidable
      BY <2>2, <1>6
    <2> QED BY <1>10, <2>1, <2>2
  <1>12. new.tier = 2 => new.who \in Profiles
    BY <1>3, <1>d, <1>4
  <1> HIDE DEF decidable
  <1> QED BY <1>1, <1>2, <1>4, <1>6, <1>7, <1>8, <1>11, <1>12, MemoryStep

\* The gate adds its profile to the approved ones, or leaves it out.
LEMMA ApproveGateStep ==
    ASSUME Inv, NEW q \in Requests, ApproveGate(q) PROVE Inv'
  <1> USE DEF rows, major
  <1>t. TypeOK /\ req[q] \in Request /\ req \in [Requests -> Request]
    BY DEF Inv, TypeOK
  <1>1. /\ req[q].at = "approve" /\ req[q].tier = 2
        /\ UNCHANGED <<rows, profileLock, pathLock>>
        /\ infoLock' \in [Infos -> Requests \cup {Nobody}]
    BY <1>t DEF ApproveGate, TypeOK
  <1>2. req[q].who \in Profiles
    BY <1>1 DEF Inv, DecidersHoldRow
  <1>3. PICK S \in {{req[q].who}, {}} :
          req' = [req EXCEPT ![q].tier = 1, ![q].who = Nobody, ![q].approved = @ \cup S]
    BY DEF ApproveGate
  <1> DEFINE approved == req[q].approved \cup S
             new == [[[req[q] EXCEPT !.tier = 1] EXCEPT !.who = Nobody] EXCEPT !.approved = approved]
  <1>4. approved \in SUBSET Profiles
    BY <1>t, <1>2 DEF Request
  <1>5. req' = [req EXCEPT ![q] = new]
    BY <1>t, <1>3 DEF Request
  <1>6. /\ new \in Request
        /\ new.at = "approve" /\ new.tier = 1 /\ new.approved = approved
    BY <1>t, <1>1, <1>4 DEF Request
  <1> HIDE DEF new
  <1>7. req'[q] = new
    BY <1>t, <1>5
  <1>8. Deciding(q)' \subseteq Deciding(q)
    BY <1>1, <1>2, <1>6, <1>7 DEF Deciding
  <1>9. \A r \in Deciding(q)' :
             /\ profileLock'[r] = q
             /\ status[r] \in {"submitted", "resubmitted", "waitlisted"}
             /\ ~CycleOpen(r)
    BY <1>1, <1>8 DEF Inv, DecidersHoldRow
  <1>10. /\ profileLock' \in [Profiles -> Requests \cup {Nobody}]
         /\ pathLock' \in [Paths -> Requests \cup {Nobody}]
    BY <1>1, <1>t DEF TypeOK
  <1>11. /\ new.at \notin {"idle", "publish", "promote"} /\ new.tier # 2
         /\ \A r \in Profiles : \A o \in Requests \ {q} : profileLock[r] = o => profileLock'[r] = o
    BY <1>1, <1>6
  <1> HIDE DEF approved
  <1> QED BY <1>1, <1>5, <1>6, <1>9, <1>10, <1>11, MemoryStep

\* A commit writes the rows its request holds, and leaves them in play.
LEMMA CommitStep ==
    ASSUME Inv, NEW q \in Requests, Return(q), UNCHANGED <<applied, choices, major, count>>,
           status' \in [Profiles -> Statuses],
           decision' \in [Profiles -> [Options -> Decisions]],
           \A o \in Profiles \ Deciding(q) : status'[o] = status[o] /\ decision'[o] = decision[o],
           \A p \in Deciding(q) : status'[p] \in InPlay /\ RowAgrees(p)'
    PROVE  Inv'
  <1> USE DEF major
  <1>1. /\ profileLock' \in [Profiles -> Requests \cup {Nobody}]
        /\ pathLock' \in [Paths -> Requests \cup {Nobody}]
        /\ infoLock' \in [Infos -> Requests \cup {Nobody}]
        /\ \A p \in Profiles : \A o \in Requests \ {q} : profileLock[p] = o => profileLock'[p] = o
        /\ req' = [req EXCEPT ![q] = Idle]
    BY Returned DEF Inv
  <1>2. /\ req' \in [Requests -> Request] /\ req'[q] = Idle
        /\ \A o \in Requests \ {q} : req'[o] = req[o]
    BY <1>1, IdleTyped DEF Inv, TypeOK
  <1>3. TypeOK'
    BY <1>1, <1>2 DEF Inv, TypeOK
  <1>4. \A p \in Deciding(q) : /\ profileLock[p] = q /\ status[p] \in InPlay
                               /\ p \in Profiles
    BY DEF Inv, DecidersHoldRow, InPlay, Statuses, Deciding
  <1>5. PlacesAreCounted'
    <2> SUFFICES ASSUME NEW c \in Paths PROVE Cardinality(Placed(c)') <= count[c]
      BY DEF PlacesAreCounted
    <2>1. Placed(c)' \subseteq Placed(c)
      BY <1>4 DEF Placed
    <2>2. Cardinality(Placed(c)') <= Cardinality(Placed(c))
      BY <2>1, PlacedFinite, FS_Subset
    <2>3. Placed(c)' \in SUBSET Profiles
      BY DEF Placed
    <2>4. Cardinality(Placed(c)') \in Nat
      BY <2>3, PlacedFinite
    <2> QED BY <2>2, <2>4, PlacedFinite DEF Inv, PlacesAreCounted, TypeOK
  <1>6. \A o \in Requests \ {q} : \A p \in Deciding(o) : p \in Profiles /\ p \notin Deciding(q)
    BY <1>4 DEF Inv, DecidersHoldRow, Deciding
  <1>7. \A o \in Requests \ {q} : Deciding(o)' = Deciding(o)
    BY <1>2 DEF Deciding
  <1>8. \A p : CycleOpen(p)' <=> CycleOpen(p)
    BY DEF CycleOpen
  <1>9. ASSUME NEW o \in Requests
        PROVE  /\ req'[o].at = "idle" => req'[o].approved = {}
               /\ req'[o].at \in {"publish", "promote"} => req'[o].who \in Profiles
               /\ req'[o].at = "approve" /\ req'[o].tier = 2 => req'[o].who \in Profiles
               /\ \A p \in Deciding(o)' :
                    /\ profileLock'[p] = o
                    /\ status'[p] \in {"submitted", "resubmitted", "waitlisted"}
                    /\ ~CycleOpen(p)'
    <2>1. CASE o = q
      <3>1. Deciding(o)' = {}
        BY <1>2, <2>1, IdleTyped DEF Deciding
      <3> QED BY <1>2, <2>1, <3>1, IdleTyped
    <2>2. CASE o # q
      <3>1. \A p \in Deciding(o) :
               /\ profileLock'[p] = o
               /\ status'[p] \in {"submitted", "resubmitted", "waitlisted"}
               /\ ~CycleOpen(p)'
        BY <1>1, <1>6, <1>8, <2>2 DEF Inv, DecidersHoldRow
      <3> QED BY <1>2, <1>7, <2>2, <3>1 DEF Inv, DecidersHoldRow
    <2> QED BY <2>1, <2>2
  <1>10. DecidersHoldRow'
    BY <1>9 DEF DecidersHoldRow
  <1>11. CascadeFollowsChoices'
    <2> SUFFICES ASSUME NEW o \in Requests, req'[o].at \in {"publish", "promote"}
                 PROVE  CascadeOf(o)'
      BY DEF CascadeFollowsChoices
    <2>1. o # q /\ req'[o] = req[o]
      BY <1>2, IdleTyped
    <2>2. CascadeOf(o)
      BY <2>1 DEF Inv, CascadeFollowsChoices
    <2> QED BY <2>1, <2>2 DEF CascadeOf
  <1>12. ASSUME NEW o \in Profiles PROVE OnChoices(o)' /\ Published(o)' /\ Settled(o)'
    <2>1. CASE o \in Deciding(q)
      BY <2>1 DEF RowAgrees
    <2>2. CASE o \notin Deciding(q)
      BY <1>8, <2>2 DEF Inv, RowsAgree, OnChoices, Published, Settled
    <2> QED BY <2>1, <2>2
  <1> QED BY <1>3, <1>5, <1>10, <1>11, <1>12 DEF Inv, RowsAgree

\* The engine publishes what the cascade decided.
LEMMA EngineCommitStep ==
    ASSUME Inv, NEW q \in Requests, EngineCommit(q) PROVE Inv'
  <1> USE DEF major
  <1>p. PICK p : p = req[q].who
    OBVIOUS
  <1>j. PICK judged : judged = req[q].judged
    OBVIOUS
  <1>t. TypeOK /\ req[q] \in Request
    BY DEF Inv, TypeOK
  <1>1. /\ req[q].at \in {"publish", "promote"}
        /\ Return(q) /\ UNCHANGED <<applied, choices, major, count>>
        /\ decision' = [decision EXCEPT ![p] = judged]
        /\ status' = [status EXCEPT ![p] = Outcome(judged)]
    BY <1>p, <1>j DEF EngineCommit, Move
  <1>2. p \in Profiles /\ CascadeOf(q)
    BY <1>1, <1>p DEF Inv, DecidersHoldRow, CascadeFollowsChoices
  <1>3. Deciding(q) = {p} /\ ~CycleOpen(p)
    <2>1. Deciding(q) = {p}
      BY <1>1, <1>2, <1>p DEF Deciding
    <2> QED BY <2>1 DEF Inv, DecidersHoldRow
  <1>4. judged \in [Options -> Decisions]
    BY <1>t, <1>j DEF Request
  <1>5. Outcome(judged) \in {"admitted", "waitlisted", "rejected"}
    BY DEF Outcome
  <1>6. /\ status' \in [Profiles -> Statuses] /\ status'[p] = Outcome(judged)
        /\ \A o \in Profiles \ {p} : status'[o] = status[o]
    BY <1>1, <1>2, <1>5, <1>t DEF TypeOK, Statuses
  <1>7. /\ decision' \in [Profiles -> [Options -> Decisions]] /\ decision'[p] = judged
        /\ \A o \in Profiles \ {p} : decision'[o] = decision[o]
    BY <1>1, <1>2, <1>4, <1>t DEF TypeOK
  <1>8. status'[p] \in InPlay
    BY <1>5, <1>6 DEF InPlay, Statuses
  <1>9. OnChoices(p)'
    BY <1>1, <1>2, <1>7, <1>p, <1>j DEF OnChoices, CascadeOf
  <1>10. Published(p)'
    <2>1. \A c, d \in Options : judged[c] = "admitted" /\ judged[d] = "admitted" => c = d
      BY <1>2, <1>j DEF CascadeOf
    <2>2. Outcome(judged) = "admitted" => \E c \in Options : judged[c] = "admitted"
      BY DEF Outcome
    <2>3. Outcome(judged) = "admitted" =>
             \E c \in Options : \A d \in Options : judged[d] = "admitted" <=> d = c
      BY <2>1, <2>2
    <2>4. Outcome(judged) = "waitlisted" => /\ \A c \in Options : judged[c] # "admitted"
                                            /\ \E c \in Options : judged[c] = "waitlisted"
      BY DEF Outcome
    <2> QED BY <1>6, <1>7, <2>3, <2>4 DEF Published
  <1>11. Settled(p)'
    BY <1>1, <1>3 DEF Settled, CycleOpen
  <1>12. RowAgrees(p)'
    BY <1>9, <1>10, <1>11 DEF RowAgrees
  <1> QED BY <1>1, <1>3, <1>6, <1>7, <1>8, <1>12, CommitStep

\* The profiles a manager approved are approved.
LEMMA ApproveCommitStep ==
    ASSUME Inv, NEW q \in Requests, ApproveCommit(q) PROVE Inv'
  <1> USE DEF major
  <1>t. TypeOK /\ req[q] \in Request
    BY DEF Inv, TypeOK
  <1>1. /\ req[q].at = "approve" /\ req[q].tier = 1
        /\ Return(q) /\ UNCHANGED <<applied, choices, decision, major, count>>
        /\ status' = [p \in Profiles |-> IF p \in req[q].approved THEN "approved" ELSE status[p]]
    BY DEF ApproveCommit
  <1>2. Deciding(q) = {p \in Profiles : p \in req[q].approved}
    BY <1>1 DEF Deciding
  <1>3. /\ status' \in [Profiles -> Statuses]
        /\ \A o \in Profiles \ Deciding(q) : status'[o] = status[o]
        /\ \A o \in Deciding(q) : status'[o] = "approved" /\ status'[o] \in InPlay
    BY <1>1, <1>2, <1>t DEF TypeOK, Statuses, InPlay
  <1>4. decision' \in [Profiles -> [Options -> Decisions]] /\ \A o \in Profiles : decision'[o] = decision[o]
    BY <1>1, <1>t DEF TypeOK
  <1>5. \A o \in Deciding(q) : ~CycleOpen(o)' /\ o \in Profiles
    BY <1>1, <1>2 DEF Inv, DecidersHoldRow, CycleOpen
  <1>6. \A o \in Deciding(q) : RowAgrees(o)'
    BY <1>1, <1>3, <1>5 DEF Inv, RowsAgree, RowAgrees, OnChoices, Published, Settled
  <1> QED BY <1>1, <1>3, <1>4, <1>6, CommitStep

-----------------------------------------------------------------------------
(* The specification *)

\* The initial state satisfies the invariant: drafts without place, decision or lock.
LEMMA InitInv == Init => Inv
  <1> SUFFICES ASSUME Init PROVE Inv
    OBVIOUS
  <1>1. TypeOK
    <2>1. \A c \in Paths : RoundQuota[c] # Unlimited => 0 <= RoundQuota[c]
      BY AdmissionConstants
    <2>2. Undecided \in [Options -> Decisions]
      BY DEF Undecided, Decisions
    <2> QED BY <2>1, <2>2, IdleTyped, AdmissionConstants DEF Init, TypeOK, Statuses
  <1>2. PlacesAreCounted
    <2> SUFFICES ASSUME NEW c \in Paths PROVE Cardinality(Placed(c)) <= count[c]
      BY DEF PlacesAreCounted
    <2>1. Placed(c) = {}
      BY DEF Init, Placed, InPlay
    <2> QED BY <2>1, FS_EmptySet DEF Init
  <1>3. DecidersHoldRow /\ CascadeFollowsChoices
    <2>1. \A q \in Requests : req[q] = Idle
      BY DEF Init
    <2>2. \A q \in Requests : Deciding(q) = {}
      BY <2>1, IdleTyped DEF Deciding
    <2> QED BY <2>1, <2>2, IdleTyped DEF DecidersHoldRow, CascadeFollowsChoices
  <1>4. RowsAgree
    BY DEF Init, RowsAgree, OnChoices, Published, Settled, Occupying, Undecided
  <1> QED BY <1>1, <1>2, <1>3, <1>4 DEF Inv

\* Every action keeps the invariant.
LEMMA StepInv == Inv /\ [Next]_vars => Inv'
  <1> SUFFICES ASSUME Inv, [Next]_vars PROVE Inv'
    OBVIOUS
  <1>1. ASSUME NEW p \in Profiles,
               \/ Submit(p) \/ Resubmit(p) \/ DeleteChoice(p) \/ Reorder(p) \/ Accept(p)
               \/ Enroll(p) \/ Reject(p) \/ ConfirmMajorChange(p) \/ GiveUpSeat(p)
        PROVE  Inv'
    BY <1>1, SubmitStep, ChoiceSteps, PlainMoves, ConfirmStep
  <1>2. ASSUME NEW p \in Profiles,
               \/ \E c \in Options : AddChoice(p, c) \/ RejectWaitlisted(p, c)
               \/ \E allow \in BOOLEAN : RequestRevision(p, allow) \/ Rollback(p, allow)
               \/ \E to \in {"withdrawn", "draft"} : Withdraw(p, to)
        PROVE  Inv'
    BY <1>2, ChoiceSteps, RejectWaitlistedStep, MajorMoves
  <1>3. ASSUME NEW q \in Requests,
               \/ \E p \in Profiles : PublishBegin(q, p) \/ ApproveLock(q, p)
               \/ \E p \in Profiles, c \in Options : PromoteBegin(q, p, c)
        PROVE  Inv'
    BY <1>3, BeginSteps, ApproveLockStep
  <1>4. ASSUME NEW q \in Requests,
               \/ FailsScore(q) \/ CheckAnnual(q) \/ CheckPath(q) \/ EngineCommit(q)
               \/ ApproveGate(q) \/ ApproveCommit(q) \/ Fail(q)
        PROVE  Inv'
    BY <1>4, CascadeSteps, EngineCommitStep, ApproveGateStep, ApproveCommitStep, FailStep
  <1>5. CASE UNCHANGED vars
    <2>1. UNCHANGED <<status, applied, choices, decision, requested, awaiting, count,
                      profileLock, pathLock, infoLock, req>>
      BY <1>5 DEF vars
    <2>2. TypeOK' /\ PlacesAreCounted'
      BY <2>1 DEF Inv, TypeOK, PlacesAreCounted, Placed
    <2>3. DecidersHoldRow' /\ CascadeFollowsChoices'
      BY <2>1 DEF Inv, DecidersHoldRow, CascadeFollowsChoices, CascadeOf, Deciding, CycleOpen
    <2>4. RowsAgree'
      BY <2>1 DEF Inv, RowsAgree, OnChoices, Published, Settled, CycleOpen
    <2> QED BY <2>2, <2>3, <2>4 DEF Inv
  <1> QED BY <1>1, <1>2, <1>3, <1>4, <1>5 DEF Next

\* The inductive invariant holds in every reachable state.
LEMMA InvHolds == Spec => []Inv
  BY InitInv, StepInv, PTL DEF Spec

\* Rows, locks and requests keep their types, and no counter of a path passes its round
\* quota (_atomic_increment_path_submission_count).
THEOREM TypeCorrect == Spec => []TypeOK
  <1>1. Inv => TypeOK
    BY DEF Inv
  <1> QED BY <1>1, InvHolds, PTL

\* However submissions, resubmissions, changes of major, rollbacks and withdrawals
\* follow each other, no more profiles are in play on a path than its round has places.
THEOREM PlacesNeverOversubscribed == Spec => []PlacesWithinRoundQuota
  <1>1. Inv => PlacesWithinRoundQuota
    <2> SUFFICES ASSUME Inv, NEW c \in Paths
                 PROVE  Within({p \in Profiles : status[p] \in InPlay /\ applied[p] = c}, RoundQuota[c])
      BY DEF PlacesWithinRoundQuota
    <2> DEFINE S == {p \in Profiles : status[p] \in InPlay /\ applied[p] = c}
    <2>1. S \subseteq Placed(c) /\ S \in SUBSET Profiles
      BY DEF Placed
    <2>2. Cardinality(S) <= Cardinality(Placed(c)) /\ Cardinality(S) \in Nat
      BY <2>1, PlacedFinite, FS_Subset
    <2>3. Cardinality(Placed(c)) <= count[c] /\ Cardinality(Placed(c)) \in Nat /\ count[c] \in Nat
      BY PlacedFinite DEF Inv, PlacesAreCounted, TypeOK
    <2>4. RoundQuota[c] # Unlimited => count[c] <= RoundQuota[c] /\ RoundQuota[c] \in Nat
      BY AdmissionConstants DEF Inv, TypeOK
    <2> HIDE DEF S
    <2>5. RoundQuota[c] # Unlimited => Cardinality(S) <= RoundQuota[c]
      BY <2>2, <2>3, <2>4
    <2> QED BY <2>5 DEF Within, S
  <1> QED BY <1>1, InvHolds, PTL

\* An admitted profile has exactly one admitted choice, a waitlisted one none but one it
\* waits for, and neither has money of a change of major open: also after a rollback,
\* edits of the choices and a second publication.
THEOREM PublishedDecisionsStand == Spec => []DecisionsStand
  <1>1. Inv => DecisionsStand
    <2> SUFFICES ASSUME Inv, NEW p \in Profiles
                 PROVE  LET chosen(d) == {c \in ToSet(choices[p]) : decision[p][c] = d}
                        IN  /\ status[p] = "admitted" => Cardinality(chosen("admitted")) = 1
                            /\ status[p] = "waitlisted" =>
                                  chosen("admitted") = {} /\ chosen("waitlisted") # {}
                            /\ status[p] \in Occupying \cup {"waitlisted"} => ~CycleOpen(p)
      BY DEF DecisionsStand
    <2> DEFINE chosen(d) == {c \in ToSet(choices[p]) : decision[p][c] = d}
    <2>1. OnChoices(p) /\ Published(p) /\ Settled(p)
      BY DEF Inv, RowsAgree
    <2>2. ToSet(choices[p]) \subseteq Options
      BY ElementsAreOptions DEF Inv, TypeOK
    <2>3. \A d : d # "none" => chosen(d) = {c \in Options : decision[p][c] = d}
      BY <2>1, <2>2 DEF OnChoices
    <2>4. ASSUME status[p] = "admitted" PROVE Cardinality(chosen("admitted")) = 1
      <3>1. PICK c \in Options : \A d \in Options : decision[p][d] = "admitted" <=> d = c
        BY <2>1, <2>4 DEF Published
      <3>2. chosen("admitted") = {c}
        BY <2>3, <3>1
      <3> QED BY <3>2, FS_Singleton
    <2>5. status[p] = "waitlisted" => chosen("admitted") = {} /\ chosen("waitlisted") # {}
      BY <2>1, <2>3 DEF Published
    <2> QED BY <2>1, <2>4, <2>5 DEF Settled
  <1> QED BY <1>1, InvHolds, PTL

-----------------------------------------------------------------------------
(* Seats *)

\* The locks a cascade has behind its admission on a path.
LocksOf(q, c) ==
    /\ AdmitQuota[c] # Unlimited => pathLock[c] = q
    /\ AnnualQuota[InfoOf[c]] # Unlimited => infoLock[InfoOf[c]] = q

\* There is a seat for p beside what the others hold.
Room(seats, quota, p) == quota # Unlimited => Cardinality(seats \ {p}) < quota

\* The cascade has admitted the profile to the path, with one of its subject groups.
Grants(q, c) == \E x \in Options : PathOf[x] = c /\ req[q].judged[x] = "admitted"

\* What a request counted under a lock it still holds: the year's seats after the
\* first tier, the path's too once it has admitted; and an approval has the offering
\* of every profile it approved.
SeatKept(q) ==
    /\ req[q].at \in {"publish", "promote"} /\ req[q].todo # <<>> /\ req[q].tier = 2 =>
         LET i == InfoOf[PathOf[Head1(q)]]
         IN  infoLock[i] = q /\ Room(GuardedUnder(i), AnnualQuota[i], req[q].who)
    /\ req[q].at \in {"publish", "promote"} /\ req[q].todo = <<>> =>
         \A c \in Paths : Grants(q, c) =>
             /\ LocksOf(q, c)
             /\ Room(Guarded(c), AdmitQuota[c], req[q].who)
             /\ Room(GuardedUnder(InfoOf[c]), AnnualQuota[InfoOf[c]], req[q].who)
    /\ req[q].at = "approve" => \A p \in req[q].approved : infoLock[InfoOf[applied[p]]] = q

SeatsKept == \A q \in Requests : SeatKept(q)

\* Who takes a guarded seat on a path holds a lock no other engine request can have.
MayJoin(o, c) ==
    \/ LocksOf(o, c)
    \/ AnnualQuota[InfoOf[c]] # Unlimited /\ infoLock[InfoOf[c]] = o

\* The seats are profiles.
LEMMA SeatsAreProfiles ==
    /\ \A c : SeatsOn(c) \subseteq Profiles /\ Guarded(c) \subseteq SeatsOn(c)
    /\ \A i : SeatsUnder(i) \subseteq Profiles /\ GuardedUnder(i) \subseteq SeatsUnder(i)
  <1>1. \A c : SeatsOn(c) \subseteq Profiles /\ Guarded(c) \subseteq SeatsOn(c)
    BY AdmissionConstants DEF SeatsOn, Guarded
  <1> QED BY <1>1 DEF SeatsUnder, GuardedUnder

\* Fewer seats leave room.
LEMMA RoomShrinks ==
    ASSUME NEW S \in SUBSET Profiles, NEW p, NEW T, T \ {p} \subseteq S,
           NEW quota \in Nat \cup {Unlimited}, Room(S, quota, p)
    PROVE  Room(T, quota, p)
  <1> DEFINE A == S \ {p}
             B == T \ {p}
  <1>1. A \in SUBSET Profiles /\ B \subseteq A
    OBVIOUS
  <1>2. IsFiniteSet(A)
    BY <1>1, AdmissionConstants, FS_Subset
  <1>3. Cardinality(B) <= Cardinality(A) /\ Cardinality(A) \in Nat /\ Cardinality(B) \in Nat
    BY <1>1, <1>2, FS_Subset, FS_CardinalityType
  <1>4. quota # Unlimited => Cardinality(A) < quota
    BY DEF Room
  <1> HIDE DEF A, B
  <1>5. quota # Unlimited => Cardinality(B) < quota
    BY <1>3, <1>4, AdmissionConstants
  <1> QED BY <1>5 DEF Room, B

\* A profile that has room is within the quota when it takes its seat.
LEMMA RoomIsWithin ==
    ASSUME NEW S \in SUBSET Profiles, NEW p, NEW T, T \ {p} \subseteq S,
           NEW quota \in Nat \cup {Unlimited}, Room(S, quota, p)
    PROVE  Within(T, quota)
  <1> DEFINE A == S \ {p}
             B == A \cup {p}
  <1>1. A \in SUBSET Profiles /\ T \subseteq B
    OBVIOUS
  <1>2. IsFiniteSet(A)
    BY <1>1, AdmissionConstants, FS_Subset
  <1>3. IsFiniteSet(B) /\ Cardinality(B) = Cardinality(A) + 1
    BY <1>2, FS_AddElement
  <1>4. Cardinality(T) <= Cardinality(B) /\ Cardinality(T) \in Nat /\ Cardinality(A) \in Nat
    BY <1>1, <1>2, <1>3, FS_Subset, FS_CardinalityType
  <1>5. quota # Unlimited => Cardinality(A) < quota
    BY DEF Room
  <1> HIDE DEF A, B
  <1>6. quota # Unlimited => Cardinality(T) <= quota
    BY <1>3, <1>4, <1>5, AdmissionConstants
  <1> QED BY <1>6 DEF Within

\* What a gate finds not full has room.
LEMMA NotFullHasRoom ==
    ASSUME NEW S \in SUBSET Profiles, NEW p, NEW T, T \subseteq S,
           NEW quota \in Nat \cup {Unlimited}, ~Full(S \ {p}, quota)
    PROVE  Room(T, quota, p)
  <1> DEFINE A == S \ {p}
  <1>1. IsFiniteSet(A)
    BY AdmissionConstants, FS_Subset
  <1>2. Cardinality(A) \in Nat
    BY <1>1, FS_CardinalityType
  <1>3. quota # Unlimited => ~(Cardinality(A) >= quota)
    BY DEF Full
  <1> HIDE DEF A
  <1>4. quota # Unlimited => Cardinality(A) < quota
    BY <1>2, <1>3, AdmissionConstants
  <1>5. Room(S, quota, p)
    BY <1>4 DEF Room, A
  <1> QED BY <1>5, RoomShrinks

\* The quotas of a path and of its offering.
LEMMA Quotas ==
    ASSUME NEW c \in Paths
    PROVE  /\ InfoOf[c] \in Infos
           /\ AdmitQuota[c] \in Nat \cup {Unlimited}
           /\ AnnualQuota[InfoOf[c]] \in Nat \cup {Unlimited}
  BY AdmissionConstants

\* What a step has to show of the requests in R for the others to keep what they
\* counted: seats are taken under a lock of its own.
LEMMA OthersKeepSeats ==
    ASSUME Inv, SeatsKept, NEW R \in SUBSET Requests,
           \A o \in Requests \ R :
               /\ req'[o] = req[o]
               /\ \A c \in Paths : pathLock[c] = o => pathLock'[c] = o
               /\ \A i \in Infos : infoLock[i] = o => infoLock'[i] = o
               /\ \A p \in Deciding(o) : applied'[p] = applied[p],
           \A c \in Paths : \A p \in Guarded(c)' \ Guarded(c) : \E o \in R : MayJoin(o, c),
           \A o \in R : SeatKept(o)'
    PROVE  SeatsKept'
  <1> SUFFICES ASSUME NEW q \in Requests \ R PROVE SeatKept(q)'
    BY DEF SeatsKept
  <1>1. req'[q] = req[q] /\ req[q] \in Request /\ SeatKept(q)
    BY DEF SeatsKept, Inv, TypeOK
  <1>2. ASSUME NEW i \in Infos, infoLock[i] = q, AnnualQuota[i] # Unlimited
        PROVE  GuardedUnder(i)' \subseteq GuardedUnder(i)
    <2>1. ASSUME NEW c \in Paths, InfoOf[c] = i PROVE Guarded(c)' \subseteq Guarded(c)
      BY <1>2, <2>1 DEF MayJoin, LocksOf
    <2> QED BY <2>1 DEF GuardedUnder
  <1>3. ASSUME NEW c \in Paths, LocksOf(q, c), AdmitQuota[c] # Unlimited
        PROVE  Guarded(c)' \subseteq Guarded(c)
    BY <1>3 DEF MayJoin, LocksOf
  <1>4. ASSUME NEW i \in Infos, infoLock[i] = q, NEW p,
               AnnualQuota[i] \in Nat \cup {Unlimited}, Room(GuardedUnder(i), AnnualQuota[i], p)
        PROVE  Room(GuardedUnder(i), AnnualQuota[i], p)'
    <2>1. CASE AnnualQuota[i] = Unlimited
      BY <2>1 DEF Room
    <2>2. CASE AnnualQuota[i] # Unlimited
      BY <1>2, <1>4, <2>2, SeatsAreProfiles, RoomShrinks
    <2> QED BY <2>1, <2>2
  <1>5. ASSUME NEW c \in Paths, LocksOf(q, c), NEW p, Room(Guarded(c), AdmitQuota[c], p)
        PROVE  Room(Guarded(c), AdmitQuota[c], p)'
    <2>1. CASE AdmitQuota[c] = Unlimited
      BY <2>1 DEF Room
    <2>2. CASE AdmitQuota[c] # Unlimited
      BY <1>3, <1>5, <2>2, SeatsAreProfiles, RoomShrinks, Quotas
    <2> QED BY <2>1, <2>2
  <1>6. ASSUME req[q].at \in {"publish", "promote"}, req[q].todo # <<>>, req[q].tier = 2,
               NEW i, i = InfoOf[PathOf[Head1(q)]]
        PROVE  infoLock'[i] = q /\ Room(GuardedUnder(i), AnnualQuota[i], req[q].who)'
    <2>1. Head1(q) \in Options
      BY <1>1, <1>6, HeadAndTail DEF Request, Head1
    <2>2. infoLock[i] = q /\ Room(GuardedUnder(i), AnnualQuota[i], req[q].who)
      BY <1>1, <1>6 DEF SeatKept
    <2>3. i \in Infos /\ AnnualQuota[i] \in Nat \cup {Unlimited}
      BY <1>6, <2>1, Quotas, AdmissionConstants
    <2>4. Room(GuardedUnder(i), AnnualQuota[i], req'[q].who)
      BY <1>1, <2>2
    <2> QED BY <1>1, <1>4, <2>2, <2>3, <2>4
  <1>7. ASSUME req[q].at \in {"publish", "promote"}, req[q].todo = <<>>,
               NEW c \in Paths, Grants(q, c)
        PROVE  /\ LocksOf(q, c)'
               /\ Room(Guarded(c), AdmitQuota[c], req[q].who)'
               /\ Room(GuardedUnder(InfoOf[c]), AnnualQuota[InfoOf[c]], req[q].who)'
    <2>1. /\ LocksOf(q, c)
          /\ Room(Guarded(c), AdmitQuota[c], req'[q].who)
          /\ Room(GuardedUnder(InfoOf[c]), AnnualQuota[InfoOf[c]], req'[q].who)
      BY <1>1, <1>7 DEF SeatKept
    <2>2. LocksOf(q, c)'
      BY <2>1, Quotas DEF LocksOf
    <2>3. Room(GuardedUnder(InfoOf[c]), AnnualQuota[InfoOf[c]], req[q].who)'
      <3>1. CASE AnnualQuota[InfoOf[c]] = Unlimited
        BY <3>1 DEF Room
      <3>2. CASE AnnualQuota[InfoOf[c]] # Unlimited
        BY <1>4, <2>1, <3>2, Quotas DEF LocksOf
      <3> QED BY <3>1, <3>2
    <2> QED BY <1>5, <2>1, <2>2, <2>3
  <1>8. ASSUME req[q].at = "approve", NEW p \in req[q].approved
        PROVE  infoLock'[InfoOf[applied'[p]]] = q
    <2>1. p \in Deciding(q) /\ p \in Profiles
      BY <1>1, <1>8 DEF Deciding, Request
    <2>2. applied[p] \in Paths /\ InfoOf[applied[p]] \in Infos
      BY <2>1, AdmissionConstants DEF Inv, TypeOK
    <2> QED BY <1>1, <1>8, <2>1, <2>2 DEF SeatKept
  <1> QED
    <2>1. Head1(q)' = Head1(q)
      BY <1>1 DEF Head1
    <2>2. \A c : Grants(q, c)' <=> Grants(q, c)
      BY <1>1 DEF Grants
    <2> QED BY <1>1, <1>6, <1>7, <1>8, <2>1, <2>2 DEF SeatKept

\* A step of one profile takes no guarded seat: it leaves its seat, or had it before.
LEMMA RowSeats ==
    ASSUME Inv, SeatsKept, NEW p \in Profiles, profileLock[p] = Nobody,
           UNCHANGED <<locks, req>>,
           \A o \in Profiles \ {p} :
               status'[o] = status[o] /\ applied'[o] = applied[o] /\ decision'[o] = decision[o],
           \/ status'[p] \notin Occupying
           \/ /\ applied'[p] = applied[p] /\ decision'[p] = decision[p]
              /\ \/ status'[p] = status[p]
                 \/ status[p] \in Occupying /\ status'[p] \in {"confirmed", "enrolled"}
    PROVE  SeatsKept'
  <1>1. PICK R \in SUBSET Requests : R = {}
    OBVIOUS
  <1>2. ASSUME NEW c \in Paths, NEW o \in Guarded(c)' PROVE o \in Guarded(c)
    <2>1. o \in SeatsOn(c)' /\ o \in Profiles
      BY AdmissionConstants DEF Guarded, SeatsOn
    <2>2. /\ status'[o] \in Occupying
          /\ \/ /\ o \in Engine
                /\ \E x \in Options : PathOf[x] = c /\ decision'[o][x] = "admitted"
             \/ o \in Profiles \ Engine /\ applied'[o] = c
          /\ \/ status'[o] = "admitted"
             \/ /\ AnnualQuota[InfoOf[c]] # Unlimited
                /\ InfoOf[applied'[o]] = InfoOf[c]
      BY DEF Guarded, SeatsOn
    <2>3. /\ applied'[o] = applied[o] /\ decision'[o] = decision[o] /\ status[o] \in Occupying
          /\ status'[o] = "admitted" => status[o] = "admitted"
      BY <2>1, <2>2
    <2>4. o \in SeatsOn(c)
      BY <2>1, <2>2, <2>3 DEF SeatsOn
    <2> QED BY <2>2, <2>3, <2>4 DEF Guarded
  <1>3. \A o \in Requests : p \notin Deciding(o)
    BY AdmissionConstants DEF Inv, DecidersHoldRow
  <1>4. \A o \in Requests \ R :
               /\ req'[o] = req[o]
               /\ \A c \in Paths : pathLock[c] = o => pathLock'[c] = o
               /\ \A i \in Infos : infoLock[i] = o => infoLock'[i] = o
               /\ \A r \in Deciding(o) : applied'[r] = applied[r]
    BY <1>3 DEF locks, Deciding
  <1>5. /\ \A c \in Paths : \A r \in Guarded(c)' \ Guarded(c) : \E o \in R : MayJoin(o, c)
        /\ \A o \in R : SeatKept(o)'
    BY <1>1, <1>2
  <1> QED BY <1>4, <1>5, OthersKeepSeats

\* All operations on a profile nobody holds are such steps.
LEMMA ProfileSteps ==
    ASSUME Inv, SeatsKept, NEW p \in Profiles,
           \/ Submit(p) \/ Resubmit(p) \/ DeleteChoice(p) \/ Reorder(p) \/ Accept(p) \/ Enroll(p)
           \/ Reject(p) \/ ConfirmMajorChange(p) \/ GiveUpSeat(p)
           \/ \E c \in Options : AddChoice(p, c) \/ RejectWaitlisted(p, c)
           \/ \E allow \in BOOLEAN : RequestRevision(p, allow) \/ Rollback(p, allow)
           \/ \E to \in {"withdrawn", "draft"} : Withdraw(p, to)
    PROVE  SeatsKept'
  <1>t. /\ status \in [Profiles -> Statuses] /\ applied \in [Profiles -> Paths]
        /\ decision \in [Profiles -> [Options -> Decisions]]
    BY DEF Inv, TypeOK
  <1> USE DEF Finds, major
  <1>1. ASSUME NEW new, Move(p, new)
        PROVE  status'[p] = new /\ \A o \in Profiles \ {p} : status'[o] = status[o]
    BY <1>t, <1>1 DEF Move
  <1>2. CASE Submit(p) \/ Resubmit(p)
    <2>1. /\ profileLock[p] = Nobody /\ UNCHANGED <<decision, locks, req>>
          /\ \/ Move(p, "submitted") \/ Move(p, "resubmitted")
          /\ \/ UNCHANGED applied
             \/ \E new : applied' = [applied EXCEPT ![p] = new]
      BY <1>2 DEF Submit, Resubmit, ChangePath
    <2>2. \A o \in Profiles \ {p} : status'[o] = status[o] /\ applied'[o] = applied[o]
      BY <1>1, <1>t, <2>1
    <2>3. status'[p] \notin Occupying
      BY <1>1, <2>1 DEF Occupying
    <2> QED BY <2>1, <2>2, <2>3, RowSeats
  <1>3. CASE DeleteChoice(p) \/ Reorder(p) \/ \E c \in Options : AddChoice(p, c)
    <2>1. /\ profileLock[p] = Nobody /\ UNCHANGED <<status, applied, locks, req>>
          /\ status[p] \in {"draft", "revision_requested"}
          /\ \/ UNCHANGED decision
             \/ \E i \in DOMAIN choices[p] : decision' = [decision EXCEPT ![p][choices[p][i]] = "none"]
      BY <1>3 DEF DeleteChoice, Reorder, AddChoice, Editable
    <2>2. \A o \in Profiles \ {p} : decision'[o] = decision[o]
      BY <1>t, <2>1
    <2>3. status'[p] \notin Occupying
      BY <2>1 DEF Occupying
    <2> QED BY <2>1, <2>2, <2>3, RowSeats
  <1>4. CASE Accept(p) \/ Enroll(p)
    <2>1. /\ profileLock[p] = Nobody /\ UNCHANGED <<applied, decision, locks, req>>
          /\ status[p] \in Occupying
          /\ Move(p, "confirmed") \/ Move(p, "enrolled")
      BY <1>4 DEF Accept, Enroll, Occupying
    <2>2. \A o \in Profiles \ {p} : status'[o] = status[o]
      BY <1>1, <2>1
    <2>3. status'[p] \in {"confirmed", "enrolled"}
      BY <1>1, <2>1
    <2> QED BY <2>1, <2>2, <2>3, RowSeats
  <1>5. CASE ConfirmMajorChange(p)
    <2>1. profileLock[p] = Nobody /\ UNCHANGED <<status, applied, decision, locks, req>>
      BY <1>5 DEF ConfirmMajorChange
    <2> QED BY <2>1, RowSeats
  <1>6. CASE \/ Reject(p) \/ GiveUpSeat(p)
             \/ \E c \in Options : RejectWaitlisted(p, c)
             \/ \E allow \in BOOLEAN : RequestRevision(p, allow) \/ Rollback(p, allow)
             \/ \E to \in {"withdrawn", "draft"} : Withdraw(p, to)
    <2>1. PICK new \in Statuses \ Occupying :
            /\ profileLock[p] = Nobody /\ UNCHANGED <<applied, locks, req>> /\ Move(p, new)
            /\ \/ UNCHANGED decision
               \/ \E c \in Options : decision' = [decision EXCEPT ![p][c] = "rejected"]
      BY <1>6 DEF Reject, GiveUpSeat, RejectWaitlisted, RequestRevision, Rollback, Withdraw,
                  Statuses, Occupying
    <2>2. \A o \in Profiles \ {p} : decision'[o] = decision[o]
      BY <1>t, <2>1
    <2>3. status'[p] \notin Occupying /\ \A o \in Profiles \ {p} : status'[o] = status[o]
      BY <1>1, <2>1
    <2> QED BY <2>1, <2>2, <2>3, RowSeats
  <1> QED BY <1>2, <1>3, <1>4, <1>5, <1>6

\* A request that takes a lock or decides in memory.
LEMMA MemorySeats ==
    ASSUME Inv, SeatsKept, NEW q \in Requests, UNCHANGED <<status, applied, decision>>,
           \A o \in Requests \ {q} : req'[o] = req[o],
           \A o \in Requests \ {q}, c \in Paths : pathLock[c] = o => pathLock'[c] = o,
           \A o \in Requests \ {q}, i \in Infos : infoLock[i] = o => infoLock'[i] = o,
           SeatKept(q)'
    PROVE  SeatsKept'
  <1>1. PICK R \in SUBSET Requests : R = {q}
    OBVIOUS
  <1>2. \A c \in Paths : Guarded(c)' = Guarded(c)
    BY DEF Guarded, SeatsOn
  <1>3. /\ \A o \in Requests \ R :
               /\ req'[o] = req[o]
               /\ \A c \in Paths : pathLock[c] = o => pathLock'[c] = o
               /\ \A i \in Infos : infoLock[i] = o => infoLock'[i] = o
               /\ \A p \in Deciding(o) : applied'[p] = applied[p]
        /\ \A c \in Paths : \A p \in Guarded(c)' \ Guarded(c) : \E o \in R : MayJoin(o, c)
        /\ \A o \in R : SeatKept(o)'
    BY <1>1, <1>2
  <1> QED BY <1>3, OthersKeepSeats

\* The end of a request leaves the other ones their locks of the configuration.
LEMMA ReturnedSeats ==
    ASSUME Inv, NEW q \in Requests, Return(q)
    PROVE  /\ req'[q] = Idle /\ \A o \in Requests \ {q} : req'[o] = req[o]
           /\ \A o \in Requests \ {q}, c \in Paths : pathLock[c] = o => pathLock'[c] = o
           /\ \A o \in Requests \ {q}, i \in Infos : infoLock[i] = o => infoLock'[i] = o
           /\ SeatKept(q)'
  <1>1. /\ req'[q] = Idle /\ \A o \in Requests \ {q} : req'[o] = req[o]
        /\ \A o \in Requests \ {q}, c \in Paths : pathLock[c] = o => pathLock'[c] = o
        /\ \A o \in Requests \ {q}, i \in Infos : infoLock[i] = o => infoLock'[i] = o
    BY DEF Return, Held, Inv, TypeOK
  <1>2. req'[q].at = "idle"
    BY <1>1, IdleTyped
  <1> QED BY <1>1, <1>2 DEF SeatKept

\* A request that fails.
LEMMA FailSeats == ASSUME Inv, SeatsKept, NEW q \in Requests, Fail(q) PROVE SeatsKept'
  BY ReturnedSeats, MemorySeats DEF Fail

\* The first look at a profile, at which nothing was counted.
LEMMA BeginSeats ==
    ASSUME Inv, SeatsKept, NEW q \in Requests,
           \/ \E p \in Profiles : PublishBegin(q, p) \/ ApproveLock(q, p)
           \/ \E p \in Profiles, c \in Options : PromoteBegin(q, p, c)
    PROVE  SeatsKept'
  <1>t. req \in [Requests -> Request] /\ req[q] \in Request
    BY DEF Inv, TypeOK
  <1> DEFINE Kept == /\ UNCHANGED <<status, applied, decision, pathLock, infoLock>>
                     /\ \A o \in Requests \ {q} : req'[o] = req[o]
  <1>1. ASSUME NEW p \in Profiles, PublishBegin(q, p) PROVE Kept /\ SeatKept(q)'
    <2>1. req' = [req EXCEPT ![q] = [Idle EXCEPT !.at = "publish", !.who = p, !.todo = choices[p]]]
      BY <1>1 DEF PublishBegin
    <2>2. /\ req'[q].at = "publish" /\ req'[q].tier = 1 /\ req'[q].judged = Undecided
          /\ \A o \in Requests \ {q} : req'[o] = req[o]
      BY <1>t, <2>1 DEF Idle
    <2>3. UNCHANGED <<status, applied, decision, pathLock, infoLock>>
      BY <1>1 DEF PublishBegin
    <2>4. \A c \in Options : req'[q].judged[c] # "admitted"
      BY <2>2 DEF Undecided
    <2> QED BY <2>2, <2>3, <2>4 DEF SeatKept, Grants
  <1>2. ASSUME NEW p \in Profiles, NEW c \in Options, PromoteBegin(q, p, c) PROVE Kept /\ SeatKept(q)'
    <2>1. req' = [req EXCEPT ![q] = [Idle EXCEPT !.at = "promote", !.who = p,
                                                 !.todo = <<c>>, !.judged = decision[p]]]
      BY <1>2 DEF PromoteBegin
    <2>2. /\ req'[q].at = "promote" /\ req'[q].tier = 1 /\ req'[q].todo = <<c>>
          /\ \A o \in Requests \ {q} : req'[o] = req[o]
      BY <1>t, <2>1 DEF Idle
    <2>3. UNCHANGED <<status, applied, decision, pathLock, infoLock>>
      BY <1>2 DEF PromoteBegin
    <2>4. <<c>> # <<>>
      OBVIOUS
    <2> QED BY <2>2, <2>3, <2>4 DEF SeatKept
  <1>3. ASSUME NEW p \in Profiles, ApproveLock(q, p) PROVE Kept /\ SeatKept(q)'
    <2>1. PICK tier \in {1, 2}, who \in {p, Nobody} :
            req' = [req EXCEPT ![q].at = "approve", ![q].tier = tier, ![q].who = who]
      <3>1. CASE status[p] \in {"submitted", "resubmitted"} /\ ~CycleOpen(p)
        <4>1. req' = [req EXCEPT ![q].at = "approve", ![q].tier = 2, ![q].who = p]
          BY <1>3, <3>1 DEF ApproveLock
        <4> QED BY <4>1
      <3>2. CASE ~(status[p] \in {"submitted", "resubmitted"} /\ ~CycleOpen(p))
        <4>1. req' = [req EXCEPT ![q].at = "approve", ![q].tier = 1, ![q].who = Nobody]
          BY <1>3, <3>2 DEF ApproveLock
        <4> QED BY <4>1
      <3> QED BY <3>1, <3>2
    <2>2. /\ req'[q].at = "approve" /\ req'[q].approved = req[q].approved
          /\ \A o \in Requests \ {q} : req'[o] = req[o]
      BY <1>t, <2>1 DEF Request
    <2>3. /\ UNCHANGED <<status, applied, decision, pathLock, infoLock>>
          /\ req[q].at = "idle" \/ req[q].at = "approve"
      BY <1>3 DEF ApproveLock
    <2>4. req[q].at = "idle" => req[q].approved = {}
      BY DEF Inv, DecidersHoldRow
    <2>5. SeatKept(q)
      BY DEF SeatsKept
    <2> QED BY <2>2, <2>3, <2>4, <2>5 DEF SeatKept
  <1>4. Kept /\ SeatKept(q)'
    BY <1>1, <1>2, <1>3
  <1> QED BY <1>4, MemorySeats

\* A choice that is refused leaves the cascade without an admission.
LEMMA JudgedSeats ==
    ASSUME Inv, NEW q \in Requests, Judging(q), NEW d \in {"rejected", "waitlisted"}, Judged(q, d)
    PROVE  SeatKept(q)' /\ \A o \in Requests \ {q} : req'[o] = req[o]
  <1>0. TypeOK /\ req[q].todo # <<>> /\ d \in Decisions
    BY DEF Inv, Judging, Decisions
  <1>1. /\ req' = [req EXCEPT ![q] = req'[q]]
        /\ req'[q].at = req[q].at /\ req'[q].tier = 1
        /\ req'[q].judged = [req[q].judged EXCEPT ![Head1(q)] = d]
    BY <1>0, JudgedYields, Zenon
  <1>2. /\ req[q].at \in {"publish", "promote"} /\ req[q].judged \in [Options -> Decisions]
        /\ \A c \in Options : req[q].judged[c] # "admitted"
    BY InCascade DEF CascadeOf, Request
  <1>3. \A c \in Options : req'[q].judged[c] # "admitted"
    BY <1>1, <1>2
  <1>4. req'[q].at # "approve" /\ req'[q].tier # 2
    BY <1>1, <1>2
  <1>5. SeatKept(q)'
    BY <1>3, <1>4 DEF SeatKept, Grants
  <1>6. \A o \in Requests \ {q} : req'[o] = req[o]
    BY <1>1 DEF Inv, TypeOK
  <1> QED BY <1>5, <1>6

\* A tier that counts its seats under its lock.
LEMMA CascadeSeats ==
    ASSUME Inv, SeatsKept, NEW q \in Requests, FailsScore(q) \/ CheckAnnual(q) \/ CheckPath(q)
    PROVE  SeatsKept'
  <1> USE DEF locks
  <1>t. /\ TypeOK /\ req \in [Requests -> Request] /\ SeatKept(q)
        /\ pathLock \in [Paths -> Requests \cup {Nobody}]
        /\ infoLock \in [Infos -> Requests \cup {Nobody}]
    BY DEF Inv, TypeOK, SeatsKept
  <1>0. Judging(q)
    BY DEF FailsScore, CheckAnnual, CheckPath
  <1>h. PICK h \in Options : h = Head1(q)
    BY <1>0, InCascade, HeadAndTail DEF Head1
  <1>p. PICK c \in Paths : c = PathOf[h]
    BY AdmissionConstants
  <1>i. PICK i \in Infos : i = InfoOf[c]
    BY Quotas
  <1>w. PICK w \in Profiles : w = req[q].who
    BY <1>0, InCascade
  <1>q. /\ AdmitQuota[c] \in Nat \cup {Unlimited} /\ AnnualQuota[i] \in Nat \cup {Unlimited}
    BY <1>i, Quotas
  <1>k. /\ req[q].at \in {"publish", "promote"} /\ req[q].todo # <<>>
        /\ \A d \in Options : req[q].judged[d] # "admitted"
    BY <1>0, InCascade DEF CascadeOf
  <1>1. CASE FailsScore(q)
    <2>1. Judged(q, "rejected") /\ UNCHANGED <<status, applied, decision, pathLock, infoLock>>
      BY <1>1 DEF FailsScore
    <2> QED BY <1>0, <2>1, JudgedSeats, MemorySeats
  <1>2. CASE CheckAnnual(q)
    <2>1. /\ UNCHANGED <<status, applied, decision, pathLock>>
          /\ infoLock[i] \in {q, Nobody} /\ infoLock' = [infoLock EXCEPT ![i] = q]
          /\ IF Full(SeatsUnder(i) \ {w}, AnnualQuota[i]) THEN Refused(q)
             ELSE req' = [req EXCEPT ![q].tier = 2]
      BY <1>2, <1>h, <1>p, <1>i, <1>w DEF CheckAnnual
    <2>2. infoLock'[i] = q
      BY <1>t, <2>1
    <2>3. \A o \in Requests \ {q}, j \in Infos : infoLock[j] = o => infoLock'[j] = o
      BY <1>t, <2>1, AdmissionConstants
    <2>4. SeatKept(q)' /\ \A o \in Requests \ {q} : req'[o] = req[o]
      <3>1. CASE Full(SeatsUnder(i) \ {w}, AnnualQuota[i])
        BY <1>0, <2>1, <3>1, JudgedSeats DEF Refused
      <3>2. CASE ~Full(SeatsUnder(i) \ {w}, AnnualQuota[i])
        <4>1. req' = [req EXCEPT ![q].tier = 2]
          BY <2>1, <3>2
        <4>2. /\ req'[q].at = req[q].at /\ req'[q].who = w /\ req'[q].todo = req[q].todo
              /\ \A o \in Requests \ {q} : req'[o] = req[o]
          BY <1>t, <1>w, <4>1 DEF Request
        <4>3. PathOf[Head1(q)'] = c
          BY <1>h, <1>p, <4>2 DEF Head1
        <4>4. Room(GuardedUnder(i), AnnualQuota[i], w)
          BY <1>q, <3>2, SeatsAreProfiles, NotFullHasRoom
        <4>5. GuardedUnder(i)' = GuardedUnder(i)
          BY <2>1 DEF GuardedUnder, Guarded, SeatsOn
        <4>6. Room(GuardedUnder(i)', AnnualQuota[i], w)
          BY <4>4, <4>5
        <4>7. SeatKept(q)'
          BY <1>i, <1>k, <2>2, <4>2, <4>3, <4>6 DEF SeatKept
        <4> QED BY <4>2, <4>7
      <3> QED BY <3>1, <3>2
    <2> QED BY <2>1, <2>3, <2>4, MemorySeats
  <1>3. CASE CheckPath(q)
    <2> DEFINE free == AnnualQuota[i] = Unlimited
    <2>1. /\ UNCHANGED <<status, applied, decision, infoLock>>
          /\ req[q].tier = 2 \/ free
          /\ IF free /\ AdmitQuota[c] = Unlimited THEN UNCHANGED pathLock
             ELSE /\ pathLock[c] \in {q, Nobody}
                  /\ pathLock' = [pathLock EXCEPT ![c] = q]
          /\ IF Full(SeatsOn(c) \ {w}, AdmitQuota[c]) THEN Refused(q) ELSE Admitted(q)
      BY <1>3, <1>h, <1>p, <1>i, <1>w DEF CheckPath
    <2>2. /\ AdmitQuota[c] # Unlimited => pathLock'[c] = q
          /\ \A o \in Requests \ {q}, d \in Paths : pathLock[d] = o => pathLock'[d] = o
      BY <1>t, <2>1, AdmissionConstants
    <2>3. \A o \in Requests \ {q}, j \in Infos : infoLock[j] = o => infoLock'[j] = o
      BY <2>1
    <2>4. SeatKept(q)' /\ \A o \in Requests \ {q} : req'[o] = req[o]
      <3>1. CASE Full(SeatsOn(c) \ {w}, AdmitQuota[c])
        BY <1>0, <2>1, <3>1, JudgedSeats DEF Refused
      <3>2. CASE ~Full(SeatsOn(c) \ {w}, AdmitQuota[c])
        <4>1. /\ req'[q].at = req[q].at /\ req'[q].who = w /\ req'[q].todo = <<>>
              /\ \A d \in Options : req'[q].judged[d] = "admitted" => d = h
              /\ req' = [req EXCEPT ![q] = req'[q]]
          BY <1>t, <1>k, <1>h, <1>w, <2>1, <3>2, AdmittedYields
        <4>2. \A o \in Requests \ {q} : req'[o] = req[o]
          BY <1>t, <4>1
        <4>3. Guarded(c)' = Guarded(c) /\ GuardedUnder(i)' = GuardedUnder(i)
          BY <2>1 DEF GuardedUnder, Guarded, SeatsOn
        <4>4. Room(Guarded(c), AdmitQuota[c], w)
          BY <1>q, <3>2, SeatsAreProfiles, NotFullHasRoom
        <4>5. AnnualQuota[i] # Unlimited =>
                infoLock[i] = q /\ Room(GuardedUnder(i), AnnualQuota[i], w)
          BY <1>t, <1>k, <1>h, <1>p, <1>i, <1>w, <2>1 DEF SeatKept
        <4>6. Room(GuardedUnder(i), AnnualQuota[i], w)
          BY <4>5 DEF Room
        <4>7. LocksOf(q, c)'
          BY <1>i, <2>1, <2>2, <4>5 DEF LocksOf
        <4>8. Room(Guarded(c)', AdmitQuota[c], w) /\ Room(GuardedUnder(i)', AnnualQuota[i], w)
          BY <4>3, <4>4, <4>6
        <4>9. \A d : Grants(q, d)' => d = c
          BY <1>p, <4>1 DEF Grants
        <4>10. SeatKept(q)'
          BY <1>i, <1>k, <4>1, <4>7, <4>8, <4>9 DEF SeatKept
        <4> QED BY <4>2, <4>10
      <3> QED BY <3>1, <3>2
    <2> QED BY <2>1, <2>2, <2>3, <2>4, MemorySeats
  <1> QED BY <1>1, <1>2, <1>3

\* The gate of an approval keeps the offering of the profile it lets through.
LEMMA ApproveGateSeats ==
    ASSUME Inv, SeatsKept, NEW q \in Requests, ApproveGate(q)
    PROVE  SeatsKept'
  <1>t. /\ req \in [Requests -> Request] /\ SeatKept(q)
        /\ infoLock \in [Infos -> Requests \cup {Nobody}] /\ applied \in [Profiles -> Paths]
    BY DEF Inv, TypeOK, SeatsKept
  <1>1. /\ req[q].at = "approve" /\ req[q].tier = 2
        /\ UNCHANGED <<status, applied, decision, pathLock>>
    BY DEF ApproveGate
  <1>2. PICK i \in Infos : i = InfoOf[applied[req[q].who]]
    BY <1>1, <1>t, Quotas DEF Inv, DecidersHoldRow
  <1>3. infoLock[i] \in {q, Nobody} /\ infoLock' = [infoLock EXCEPT ![i] = q]
    BY <1>2 DEF ApproveGate
  <1>4. PICK S \in {{req[q].who}, {}} :
          req' = [req EXCEPT ![q].tier = 1, ![q].who = Nobody, ![q].approved = @ \cup S]
    BY DEF ApproveGate
  <1>5. /\ req'[q].at = "approve" /\ req'[q].approved = req[q].approved \cup S
        /\ \A o \in Requests \ {q} : req'[o] = req[o]
    BY <1>t, <1>1, <1>4 DEF Request
  <1>6. infoLock'[i] = q /\ \A j \in Infos : infoLock[j] = q => infoLock'[j] = q
    BY <1>t, <1>3
  <1>7. \A o \in Requests \ {q}, j \in Infos : infoLock[j] = o => infoLock'[j] = o
    BY <1>t, <1>3, AdmissionConstants
  <1>8. ASSUME NEW p \in req[q].approved \cup S PROVE infoLock'[InfoOf[applied[p]]] = q
    <2>1. CASE p \in req[q].approved
      <3>1. p \in Profiles
        BY <1>t, <2>1 DEF Request
      <3>2. InfoOf[applied[p]] \in Infos /\ infoLock[InfoOf[applied[p]]] = q
        BY <1>t, <1>1, <2>1, <3>1, Quotas DEF SeatKept
      <3> QED BY <1>6, <3>2
    <2>2. CASE p \in S
      BY <1>2, <1>6, <2>2
    <2> QED BY <2>1, <2>2
  <1>9. SeatKept(q)'
    BY <1>1, <1>5, <1>8 DEF SeatKept
  <1> QED BY <1>1, <1>5, <1>7, <1>9, MemorySeats

\* A cascade's commit takes a seat on the path it has admitted, ...
LEMMA EngineTakes ==
    ASSUME Inv, NEW q \in Requests, EngineCommit(q)
    PROVE  /\ req[q].at \in {"publish", "promote"} /\ req[q].todo = <<>> /\ req[q].who \in Profiles
           /\ status[req[q].who] # "admitted"
           /\ UNCHANGED applied /\ decision'[req[q].who] = req[q].judged
           /\ status'[req[q].who] \in Occupying => status'[req[q].who] = "admitted"
           /\ \A o \in Profiles \ {req[q].who} : status'[o] = status[o] /\ decision'[o] = decision[o]
           /\ \A c \in Paths : \A p \in Guarded(c)' \ Guarded(c) :
                p = req[q].who /\ (p \in Engine => Grants(q, c))
  <1>p. PICK p : p = req[q].who
    OBVIOUS
  <1>j. PICK judged : judged = req[q].judged
    OBVIOUS
  <1>1. /\ req[q].at \in {"publish", "promote"} /\ req[q].todo = <<>> /\ UNCHANGED applied
        /\ decision' = [decision EXCEPT ![p] = judged]
        /\ status' = [status EXCEPT ![p] = Outcome(judged)]
    BY <1>p, <1>j DEF EngineCommit, Move
  <1>2. p \in Profiles /\ p \in Deciding(q)
    BY <1>1, <1>p DEF Inv, DecidersHoldRow, Deciding
  <1>3. status[p] # "admitted"
    BY <1>2 DEF Inv, DecidersHoldRow
  <1>4. Outcome(judged) \in Occupying => Outcome(judged) = "admitted"
    BY DEF Outcome, Occupying
  <1>5. /\ decision'[p] = judged /\ status'[p] = Outcome(judged)
        /\ \A o \in Profiles \ {p} : status'[o] = status[o] /\ decision'[o] = decision[o]
    BY <1>1, <1>2 DEF Inv, TypeOK
  <1>6. ASSUME NEW c \in Paths, NEW o \in Guarded(c)' \ Guarded(c)
        PROVE  o = p /\ (o \in Engine => Grants(q, c))
    <2>1. o \in Profiles
      BY AdmissionConstants DEF Guarded, SeatsOn
    <2>2. CASE o # p
      BY <1>1, <1>5, <2>1, <2>2 DEF Guarded, SeatsOn
    <2>3. CASE o = p
      BY <1>j, <1>5, <2>3 DEF Guarded, SeatsOn, Grants
    <2> QED BY <2>2, <2>3
  <1>7. /\ req[q].at \in {"publish", "promote"} /\ req[q].todo = <<>> /\ UNCHANGED applied
    BY <1>1
  <1> QED BY <1>p, <1>j, <1>2, <1>3, <1>4, <1>5, <1>6, <1>7

\* Only the engine's profiles are waitlisted, and only they go through a cascade.
EngineOnly ==
    /\ \A p \in Profiles : status[p] = "waitlisted" => p \in Engine
    /\ \A q \in Requests : req[q].at \in {"publish", "promote"} => req[q].who \in Engine

\* No operation on a profile nobody holds waitlists it.
LEMMA ProfileEngineOnly ==
    ASSUME Inv, EngineOnly, NEW p \in Profiles,
           \/ Submit(p) \/ Resubmit(p) \/ DeleteChoice(p) \/ Reorder(p) \/ Accept(p) \/ Enroll(p)
           \/ Reject(p) \/ ConfirmMajorChange(p) \/ GiveUpSeat(p)
           \/ \E c \in Options : AddChoice(p, c) \/ RejectWaitlisted(p, c)
           \/ \E allow \in BOOLEAN : RequestRevision(p, allow) \/ Rollback(p, allow)
           \/ \E to \in {"withdrawn", "draft"} : Withdraw(p, to)
    PROVE  EngineOnly'
  <1>1. /\ UNCHANGED req
        /\ \/ UNCHANGED status
           \/ \E new \in Statuses \ {"waitlisted"} : Move(p, new)
    BY DEF Submit, Resubmit, DeleteChoice, Reorder, Accept, Enroll, Reject, ConfirmMajorChange,
           GiveUpSeat, AddChoice, RejectWaitlisted, RequestRevision, Rollback, Withdraw, Statuses
  <1>2. \A o \in Profiles : status'[o] = "waitlisted" => status[o] = "waitlisted"
    BY <1>1 DEF Move, Inv, TypeOK
  <1> QED BY <1>1, <1>2 DEF EngineOnly

\* A request's step that leaves the others alone.
LEMMA MemoryEngineOnly ==
    ASSUME EngineOnly, NEW q \in Requests,
           \A o \in Requests \ {q} : req'[o] = req[o],
           \A p \in Profiles : status'[p] = "waitlisted" => status[p] = "waitlisted" \/ p \in Engine,
           req'[q].at \in {"publish", "promote"} => req'[q].who \in Engine
    PROVE  EngineOnly'
  BY DEF EngineOnly

\* The requests that take a profile or count seats.
LEMMA RequestEngineOnly ==
    ASSUME Inv, EngineOnly, NEW q \in Requests,
           \/ \E p \in Profiles : PublishBegin(q, p) \/ ApproveLock(q, p)
           \/ \E p \in Profiles, c \in Options : PromoteBegin(q, p, c)
           \/ FailsScore(q) \/ CheckAnnual(q) \/ CheckPath(q) \/ ApproveGate(q)
    PROVE  EngineOnly'
  <1>t. TypeOK /\ req \in [Requests -> Request] /\ req[q] \in Request
    BY DEF Inv, TypeOK
  <1>u. UNCHANGED status
    BY DEF PublishBegin, ApproveLock, PromoteBegin, FailsScore, CheckAnnual, CheckPath, ApproveGate
  <1> DEFINE Same == \A o \in Requests \ {q} : req'[o] = req[o]
             Goes == req'[q].at \in {"publish", "promote"} => req'[q].who \in Engine
  <1>1. ASSUME NEW p \in Profiles, PublishBegin(q, p) PROVE Same /\ Goes
    BY <1>1, <1>t DEF PublishBegin, Idle
  <1>2. ASSUME NEW p \in Profiles, NEW c \in Options, PromoteBegin(q, p, c) PROVE Same /\ Goes
    <2>1. p \in Engine
      BY <1>2 DEF PromoteBegin, Finds, EngineOnly
    <2> QED BY <1>2, <1>t, <2>1 DEF PromoteBegin, Idle
  <1>3. ASSUME NEW p \in Profiles, ApproveLock(q, p) PROVE Same /\ Goes
    <2>1. PICK tier, who : req' = [req EXCEPT ![q].at = "approve", ![q].tier = tier, ![q].who = who]
      BY <1>3 DEF ApproveLock
    <2> QED BY <1>t, <2>1 DEF Request
  <1>4. ASSUME ApproveGate(q) PROVE Same /\ Goes
    <2>1. PICK S :
            req' = [req EXCEPT ![q].tier = 1, ![q].who = Nobody, ![q].approved = @ \cup S]
      BY <1>4 DEF ApproveGate
    <2>2. req[q].at = "approve"
      BY <1>4 DEF ApproveGate
    <2>3. /\ req'[q].at = req[q].at
          /\ \A o \in Requests \ {q} : req'[o] = req[o]
      BY <1>t, <2>1 DEF Request
    <2> QED BY <2>2, <2>3
  <1>5. ASSUME FailsScore(q) \/ CheckAnnual(q) \/ CheckPath(q) PROVE Same /\ Goes
    <2>1. \/ \E d \in Decisions : Judged(q, d)
          \/ Admitted(q)
          \/ req' = [req EXCEPT ![q].tier = 2]
      BY <1>5 DEF FailsScore, CheckAnnual, CheckPath, Refused, Decisions
    <2>2. req[q].todo # <<>>
      BY <1>5 DEF FailsScore, CheckAnnual, CheckPath, Judging
    <2>3. CASE \E d \in Decisions : Judged(q, d)
      <3>1. PICK d \in Decisions : Judged(q, d)
        BY <2>3
      <3>2. /\ req' = [req EXCEPT ![q] = req'[q]]
            /\ req'[q].at = req[q].at /\ req'[q].who = req[q].who
        BY <1>t, <2>2, <3>1, JudgedYields, Zenon
      <3>3. \A o \in Requests \ {q} : req'[o] = req[o]
        BY <1>t, <3>2
      <3> QED BY <3>2, <3>3 DEF EngineOnly
    <2>4. CASE Admitted(q)
      <3>1. /\ req' = [req EXCEPT ![q] = req'[q]]
            /\ req'[q].at = req[q].at /\ req'[q].who = req[q].who
        BY <1>t, <2>2, <2>4, AdmittedYields, Zenon
      <3>2. \A o \in Requests \ {q} : req'[o] = req[o]
        BY <1>t, <3>1
      <3> QED BY <3>1, <3>2 DEF EngineOnly
    <2>5. CASE req' = [req EXCEPT ![q].tier = 2]
      <3>1. /\ req'[q].at = req[q].at /\ req'[q].who = req[q].who
            /\ \A o \in Requests \ {q} : req'[o] = req[o]
        BY <1>t, <2>5 DEF Request
      <3> QED BY <3>1 DEF EngineOnly
    <2> QED BY <2>1, <2>3, <2>4, <2>5
  <1>6. Same /\ Goes
    BY <1>1, <1>2, <1>3, <1>4, <1>5
  <1> QED BY <1>6, <1>u, MemoryEngineOnly

\* The commits, and a request that fails.
LEMMA ReturnEngineOnly ==
    ASSUME Inv, EngineOnly, NEW q \in Requests, EngineCommit(q) \/ ApproveCommit(q) \/ Fail(q)
    PROVE  EngineOnly'
  <1>1. /\ \A o \in Requests \ {q} : req'[o] = req[o]
        /\ req'[q].at = "idle"
    <2>1. Return(q)
      BY DEF EngineCommit, ApproveCommit, Fail
    <2> QED BY <2>1, ReturnedSeats, IdleTyped
  <1>2. ASSUME NEW p \in Profiles, status'[p] = "waitlisted"
        PROVE  status[p] = "waitlisted" \/ p \in Engine
    <2>1. CASE EngineCommit(q)
      <3>1. req[q].who \in Engine
        BY <2>1 DEF EngineCommit, EngineOnly
      <3>2. p # req[q].who => status'[p] = status[p]
        BY <2>1, EngineTakes
      <3> QED BY <1>2, <3>1, <3>2
    <2>2. CASE ApproveCommit(q)
      BY <1>2, <2>2 DEF ApproveCommit
    <2>3. CASE Fail(q)
      BY <1>2, <2>3 DEF Fail
    <2> QED BY <2>1, <2>2, <2>3
  <1> QED BY <1>1, <1>2, MemoryEngineOnly

\* It takes that seat under the locks of the path and of the year.
LEMMA EngineCommitSeats ==
    ASSUME Inv, EngineOnly, SeatsKept, NEW q \in Requests, EngineCommit(q)
    PROVE  SeatsKept'
  <1>1. PICK R \in SUBSET Requests : R = {q}
    OBVIOUS
  <1>2. Return(q)
    BY DEF EngineCommit
  <1>3. /\ req[q].at \in {"publish", "promote"} /\ req[q].todo = <<>> /\ UNCHANGED applied
        /\ \A c \in Paths : \A p \in Guarded(c)' \ Guarded(c) :
             p = req[q].who /\ (p \in Engine => Grants(q, c))
    BY EngineTakes
  <1>4. req[q].who \in Engine
    BY <1>3 DEF EngineOnly
  <1>5. SeatKept(q)
    BY DEF SeatsKept
  <1>6. ASSUME NEW c \in Paths, NEW p \in Guarded(c)' \ Guarded(c) PROVE MayJoin(q, c)
    <2>1. Grants(q, c)
      BY <1>3, <1>4
    <2> QED BY <1>3, <1>5, <2>1 DEF SeatKept, MayJoin
  <1>7. /\ \A o \in Requests \ R :
               /\ req'[o] = req[o]
               /\ \A c \in Paths : pathLock[c] = o => pathLock'[c] = o
               /\ \A i \in Infos : infoLock[i] = o => infoLock'[i] = o
               /\ \A p \in Deciding(o) : applied'[p] = applied[p]
        /\ \A o \in R : SeatKept(o)'
    BY <1>1, <1>2, <1>3, ReturnedSeats
  <1>8. \A c \in Paths : \A p \in Guarded(c)' \ Guarded(c) : \E o \in R : MayJoin(o, c)
    BY <1>1, <1>6
  <1> QED BY <1>7, <1>8, OthersKeepSeats

\* An approval takes a guarded seat only on the offering it has locked.
LEMMA ApproveCommitSeats ==
    ASSUME Inv, SeatsKept, NEW q \in Requests, ApproveCommit(q)
    PROVE  SeatsKept'
  <1>1. PICK R \in SUBSET Requests : R = {q}
    OBVIOUS
  <1>2. /\ Return(q) /\ UNCHANGED <<applied, decision>> /\ req[q].at = "approve"
        /\ status' = [p \in Profiles |-> IF p \in req[q].approved THEN "approved" ELSE status[p]]
    BY DEF ApproveCommit
  <1>3. SeatKept(q)
    BY DEF SeatsKept
  <1>4. ASSUME NEW c \in Paths, NEW p \in Guarded(c)' \ Guarded(c) PROVE MayJoin(q, c)
    <2>1. p \in Profiles
      BY AdmissionConstants DEF Guarded, SeatsOn
    <2>2. CASE p \notin req[q].approved
      <3>1. status'[p] = status[p]
        BY <1>2, <2>1, <2>2
      <3> QED BY <1>2, <1>4, <2>1, <3>1 DEF Guarded, SeatsOn
    <2>3. CASE p \in req[q].approved
      <3>1. status'[p] = "approved"
        BY <1>2, <2>1, <2>3
      <3>2. AnnualQuota[InfoOf[c]] # Unlimited /\ InfoOf[applied[p]] = InfoOf[c]
        BY <1>2, <3>1 DEF Guarded
      <3>3. infoLock[InfoOf[applied[p]]] = q
        BY <1>2, <1>3, <2>3 DEF SeatKept
      <3> QED BY <3>2, <3>3 DEF MayJoin
    <2> QED BY <2>2, <2>3
  <1>5. /\ \A o \in Requests \ R :
               /\ req'[o] = req[o]
               /\ \A c \in Paths : pathLock[c] = o => pathLock'[c] = o
               /\ \A i \in Infos : infoLock[i] = o => infoLock'[i] = o
               /\ \A p \in Deciding(o) : applied'[p] = applied[p]
        /\ \A o \in R : SeatKept(o)'
    BY <1>1, <1>2, ReturnedSeats
  <1>6. \A c \in Paths : \A p \in Guarded(c)' \ Guarded(c) : \E o \in R : MayJoin(o, c)
    BY <1>1, <1>4
  <1> QED BY <1>5, <1>6, OthersKeepSeats

\* Nothing has been counted at first.
LEMMA InitSeats == Init => EngineOnly /\ SeatsKept
  <1> SUFFICES ASSUME Init PROVE EngineOnly /\ SeatsKept
    OBVIOUS
  <1>1. \A q \in Requests : req[q].at = "idle"
    BY IdleTyped DEF Init
  <1> QED BY <1>1 DEF Init, EngineOnly, SeatsKept, SeatKept

\* Every action keeps the seats under their locks.
LEMMA StepSeats == Inv /\ EngineOnly /\ SeatsKept /\ [Next]_vars => EngineOnly' /\ SeatsKept'
  <1> SUFFICES ASSUME Inv, EngineOnly, SeatsKept, [Next]_vars PROVE EngineOnly' /\ SeatsKept'
    OBVIOUS
  <1>1. ASSUME NEW p \in Profiles,
               \/ Submit(p) \/ Resubmit(p) \/ DeleteChoice(p) \/ Reorder(p) \/ Accept(p)
               \/ Enroll(p) \/ Reject(p) \/ ConfirmMajorChange(p) \/ GiveUpSeat(p)
               \/ \E c \in Options : AddChoice(p, c) \/ RejectWaitlisted(p, c)
               \/ \E allow \in BOOLEAN : RequestRevision(p, allow) \/ Rollback(p, allow)
               \/ \E to \in {"withdrawn", "draft"} : Withdraw(p, to)
        PROVE  EngineOnly' /\ SeatsKept'
    BY <1>1, ProfileEngineOnly, ProfileSteps
  <1>2. ASSUME NEW q \in Requests,
               \/ \E p \in Profiles : PublishBegin(q, p) \/ ApproveLock(q, p)
               \/ \E p \in Profiles, c \in Options : PromoteBegin(q, p, c)
        PROVE  EngineOnly' /\ SeatsKept'
    BY <1>2, RequestEngineOnly, BeginSeats
  <1>3. ASSUME NEW q \in Requests, FailsScore(q) \/ CheckAnnual(q) \/ CheckPath(q) \/ ApproveGate(q)
        PROVE  EngineOnly' /\ SeatsKept'
    BY <1>3, RequestEngineOnly, CascadeSeats, ApproveGateSeats
  <1>4. ASSUME NEW q \in Requests, EngineCommit(q) \/ ApproveCommit(q) \/ Fail(q)
        PROVE  EngineOnly' /\ SeatsKept'
    BY <1>4, ReturnEngineOnly, EngineCommitSeats, ApproveCommitSeats, FailSeats
  <1>5. CASE UNCHANGED vars
    <2>1. UNCHANGED <<status, applied, decision, pathLock, infoLock, req>>
      BY <1>5 DEF vars
    <2>2. \A c \in Paths : Guarded(c)' = Guarded(c)
      BY <2>1 DEF Guarded, SeatsOn
    <2>3. EngineOnly'
      BY <2>1 DEF EngineOnly
    <2>4. PICK R \in SUBSET Requests : R = {}
      OBVIOUS
    <2>5. /\ \A o \in Requests \ R :
               /\ req'[o] = req[o]
               /\ \A c \in Paths : pathLock[c] = o => pathLock'[c] = o
               /\ \A i \in Infos : infoLock[i] = o => infoLock'[i] = o
               /\ \A p \in Deciding(o) : applied'[p] = applied[p]
          /\ \A c \in Paths : \A p \in Guarded(c)' \ Guarded(c) : \E o \in R : MayJoin(o, c)
          /\ \A o \in R : SeatKept(o)'
      BY <2>1, <2>2, <2>4
    <2> QED BY <2>3, <2>5, OthersKeepSeats
  <1> QED BY <1>1, <1>2, <1>3, <1>4, <1>5 DEF Next

\* A request that decides seats has counted them under a lock it still holds: the year's
\* when it goes on to the path, the path's and the year's when its cascade has ended.
THEOREM SeatsAreKept == Spec => [](EngineOnly /\ SeatsKept)
  BY InvHolds, InitSeats, StepSeats, PTL DEF Spec

\* The rows an engine's commit admits.
LEMMA AdmitsItsOwn ==
    ASSUME Inv, EngineOnly, [Next]_vars, NEW p \in Profiles,
           status[p] # "admitted", status'[p] = "admitted"
    PROVE  \E q \in Requests : EngineCommit(q) /\ req[q].who = p
  <1>t. status \in [Profiles -> Statuses]
    BY DEF Inv, TypeOK
  <1>1. ASSUME NEW o \in Profiles,
               \/ Submit(o) \/ Resubmit(o) \/ DeleteChoice(o) \/ Reorder(o) \/ Accept(o)
               \/ Enroll(o) \/ Reject(o) \/ ConfirmMajorChange(o) \/ GiveUpSeat(o)
               \/ \E c \in Options : AddChoice(o, c) \/ RejectWaitlisted(o, c)
               \/ \E allow \in BOOLEAN : RequestRevision(o, allow) \/ Rollback(o, allow)
               \/ \E to \in {"withdrawn", "draft"} : Withdraw(o, to)
        PROVE  FALSE
    <2>1. \/ UNCHANGED status
          \/ \E new \in Statuses \ {"admitted"} : Move(o, new)
      BY <1>1 DEF Submit, Resubmit, DeleteChoice, Reorder, Accept, Enroll, Reject,
           ConfirmMajorChange, GiveUpSeat, AddChoice, RejectWaitlisted, RequestRevision, Rollback,
           Withdraw, Statuses
    <2> QED BY <1>t, <2>1 DEF Move
  <1>2. ASSUME NEW q \in Requests,
               \/ \E o \in Profiles : PublishBegin(q, o) \/ ApproveLock(q, o)
               \/ \E o \in Profiles, c \in Options : PromoteBegin(q, o, c)
               \/ FailsScore(q) \/ CheckAnnual(q) \/ CheckPath(q) \/ ApproveGate(q)
               \/ ApproveCommit(q) \/ Fail(q)
        PROVE  FALSE
    BY <1>2 DEF PublishBegin, ApproveLock, PromoteBegin, FailsScore, CheckAnnual, CheckPath,
                ApproveGate, ApproveCommit, Fail
  <1>3. ASSUME NEW q \in Requests, EngineCommit(q) PROVE req[q].who = p
    BY <1>3, EngineTakes
  <1>4. ~UNCHANGED vars
    BY DEF vars
  <1> QED BY <1>1, <1>2, <1>3, <1>4 DEF Next

\* When the engine admits, the seat it counted is still free at its commit, on the path
\* and in the year, whatever other cascades, promotions and approvals did meanwhile.
THEOREM EngineNeverOverfills == Spec => EngineSeatWasFree
  <1> DEFINE Was == \A p \in Profiles, c \in Options :
               status[p] # "admitted" /\ status'[p] = "admitted" /\ decision'[p][c] = "admitted" =>
                  /\ Within(Guarded(PathOf[c])', AdmitQuota[PathOf[c]])
                  /\ Within(GuardedUnder(InfoOf[PathOf[c]])', AnnualQuota[InfoOf[PathOf[c]]])
  <1>1. ASSUME Inv, EngineOnly, SeatsKept, [Next]_vars, NEW p \in Profiles, NEW x \in Options,
               status[p] # "admitted", status'[p] = "admitted", decision'[p][x] = "admitted"
        PROVE  /\ Within(Guarded(PathOf[x])', AdmitQuota[PathOf[x]])
               /\ Within(GuardedUnder(InfoOf[PathOf[x]])', AnnualQuota[InfoOf[PathOf[x]]])
    <2>1. PICK q \in Requests : EngineCommit(q) /\ req[q].who = p
      BY <1>1, AdmitsItsOwn
    <2>c. PICK c \in Paths : c = PathOf[x]
      BY AdmissionConstants
    <2>2. /\ req[q].at \in {"publish", "promote"} /\ req[q].todo = <<>>
          /\ Grants(q, c)
          /\ \A d \in Paths : Guarded(d)' \ {p} \subseteq Guarded(d)
      BY <1>1, <2>1, <2>c, EngineTakes DEF Grants
    <2>3. SeatKept(q)
      BY <1>1 DEF SeatsKept
    <2>4. /\ Room(Guarded(c), AdmitQuota[c], p)
          /\ Room(GuardedUnder(InfoOf[c]), AnnualQuota[InfoOf[c]], p)
      BY <2>1, <2>2, <2>3 DEF SeatKept
    <2>5. GuardedUnder(InfoOf[c])' \ {p} \subseteq GuardedUnder(InfoOf[c])
      BY <2>2 DEF GuardedUnder
    <2>6. /\ Within(Guarded(c)', AdmitQuota[c])
          /\ Within(GuardedUnder(InfoOf[c])', AnnualQuota[InfoOf[c]])
      BY <2>2, <2>4, <2>5, SeatsAreProfiles, Quotas, RoomIsWithin
    <2> QED BY <2>c, <2>6
  <1>2. Inv /\ EngineOnly /\ SeatsKept /\ [Next]_vars => [Was]_vars
    BY <1>1
  <1> QED BY <1>2, InvHolds, SeatsAreKept, PTL DEF Spec, EngineSeatWasFree
=============================================================================
